------------------------- MODULE WorkloadGenerator -------------------------
(***************************************************************************)
(* workload/generator.cpp: the synthetic workloads.  A behaviour builds    *)
(* one graph: by the operations of WorkloadDag as a client calls them, or  *)
(* by one call of a generator with arguments from the given sets, one step *)
(* per iteration of its loop.  Sizes are uint64_t: arithmetic on them is   *)
(* modulo Word.                                                            *)
(***************************************************************************)
EXTENDS WorkloadDag

CONSTANTS
    Counts,      \* numbers of tasks
    Levels,      \* numbers of levels and layers
    Widths,      \* numbers of parallel branches
    HiddenDims, KvBytes,   \* arguments of transformer_layers
    Word         \* 2^64

ASSUME GeneratorAssumption ==
    /\ Counts \cup Levels \cup Widths \cup HiddenDims \cup KvBytes \subseteq Nat
    /\ Word \in Nat \ {0}

VARIABLES call, i   \* the call that builds the graph, its loop counter
genVars == <<dag, edges, call, i>>

Upto(n) == [k \in 1 .. n |-> k - 1]

-----------------------------------------------------------------------------
(* The generators *)

(* Variant: the first edge of the chain is missing. *)
ChainStepLate(d, k, p) ==
    LET added == AddTask(d, <<"chain", k>>, p)
    IN  IF k > 1 THEN AddDependency(added, <<"chain", k - 1>>, <<"chain", k>>) ELSE added

ChainStep(d, k, p) ==
    LET added == AddTask(d, <<"chain", k>>, p)
    IN  IF k > 0 THEN AddDependency(added, <<"chain", k - 1>>, <<"chain", k>>) ELSE added

(* A sequence of tasks behind from. *)
FanOut(d, from, branches, p) ==
    FoldLeft(LAMBDA e, b : AddDependency(AddTask(e, b, p), from, b), d, branches)

(* The task to behind the branches. *)
FanIn(d, branches, to, p) ==
    FoldLeft(LAMBDA e, b : AddDependency(e, b, to), AddTask(d, to, p), branches)

SourceProfile(width, p) == [p EXCEPT !.output = (p.input * width) % Word]
SinkProfile(width, p) == [p EXCEPT !.input = (p.output * width) % Word]

FanOutFanIn(width, p) ==
    LET src == <<"fan_src", 0>>
        branches == [k \in 1 .. width |-> <<"fan_branch", k - 1>>]
        started == AddTask(EmptyDag, src, SourceProfile(width, p))
    IN  FanIn(FanOut(started, src, branches, p), branches,
              <<"fan_sink", 0>>, SinkProfile(width, p))

DiamondStep(d, k, width, p) ==
    LET hub == <<"hub", k>>
        branches == [j \in 1 .. width |-> <<"diamond", k, j - 1>>]
        added == AddTask(d, hub, p)
        linked == IF k > 0 THEN AddDependency(added, <<"merge", k - 1>>, hub) ELSE added
    IN  FanIn(FanOut(linked, hub, branches, p), branches, <<"merge", k>>, p)

Attention(k, dim, kv) ==
    [cost |-> dim * 2, mem |-> (dim * dim * 4 + kv * (k + 1)) % Word,
     input |-> (dim * 4) % Word, output |-> (dim * 4) % Word]
FeedForward(dim) ==
    [cost |-> dim * 4, mem |-> (dim * dim * 16) % Word,
     input |-> (dim * 4) % Word, output |-> (dim * 4) % Word]

Layer(d, k, dim, kv) ==
    LET attn == <<"attn", k>>
        ffn == <<"ffn", k>>
        added == AddTask(d, attn, Attention(k, dim, kv))
        linked == IF k > 0 THEN AddDependency(added, <<"ffn", k - 1>>, attn) ELSE added
    IN  AddDependency(AddTask(linked, ffn, FeedForward(dim)), attn, ffn)

(* The tasks random_dag may draw an edge to from task k. *)
Higher(k, n) == k + 1 .. n - 1

Edges(d, k, n, drawn) ==
    FoldLeft(LAMBDA e, j : IF j \in drawn
                           THEN AddDependency(e, <<"rand", k>>, <<"rand", j>>) ELSE e,
             d, Upto(n))

-----------------------------------------------------------------------------
(* The calls, one action per iteration of their loops *)

Calls ==
    [kind : {"chain"}, n : Counts, p : Profiles] \cup [kind : {"fan"}, n : {1}, w : Widths, p : Profiles]
      \cup [kind : {"diamond"}, n : Levels, w : Widths, p : Profiles]
      \cup [kind : {"transformer"}, n : Levels, h : HiddenDims, kv : KvBytes]
      \cup [kind : {"random"}, n : Counts] \cup [kind : {"client"}, n : {0}]

GenInit == BuildInit /\ call \in Calls /\ i = 0

Iterate(kind, limit, d) ==
    /\ call.kind = kind /\ i < limit
    /\ dag' = d /\ i' = i + 1 /\ UNCHANGED <<edges, call>>

LinearChain == Iterate("chain", call.n, ChainStep(dag, i, call.p))
MakeFan == Iterate("fan", 1, FanOutFanIn(call.w, call.p))
Diamond == Iterate("diamond", call.n, DiamondStep(dag, i, call.w, call.p))
TransformerLayers == Iterate("transformer", call.n, Layer(dag, i, call.h, call.kv))

(* random_dag: first the tasks, with any profiles in the range, then any   *)
(* subset of the edges.                                                    *)
RandomTask == \E p \in Profiles : Iterate("random", call.n, AddTask(dag, <<"rand", i>>, p))
RandomEdges ==
    /\ i >= call.n
    /\ \E drawn \in SUBSET Higher(i - call.n, call.n) :
          Iterate("random", 2 * call.n, Edges(dag, i - call.n, call.n, drawn))

ByHand == call.kind = "client" /\ BuildNext /\ UNCHANGED <<call, i>>

GenNext == ByHand \/ LinearChain \/ MakeFan \/ Diamond \/ TransformerLayers \/ RandomTask \/ RandomEdges

(* A generator has returned. *)
Returned ==
    /\ call.kind \notin {"none", "client"}
    /\ i = (IF call.kind = "random" THEN 2 * call.n ELSE call.n)

-----------------------------------------------------------------------------
(* Properties *)

(* What every generator hands to submit_workload passes is_valid() unless  *)
(* it is empty, names no unknown task, and topological_order lists all of  *)
(* it: the acyclicity random_dag claims for its edges.                     *)
GeneratedValid ==
  Returned =>
    /\ IsValid(dag) <=> Tasks(dag) # {}
    /\ DOMAIN dag.adj = Tasks(dag)
    /\ ToSet(TopologicalOrder(dag)) = Tasks(dag)

(* Levels of a diamond and layers of a transformer are barriers: every     *)
(* task of one precedes every task of the next.  Without branches a        *)
(* diamond's hub and merge are not connected and there is no barrier.      *)
LayersAreSerial ==
    Returned /\ call.kind \in {"diamond", "transformer"} /\ (call.kind = "diamond" => call.w > 0) =>
        \A s, t \in Tasks(dag) : s[2] < t[2] => <<s, t>> \in Before(dag)

(* critical_path_cost and peak_memory_estimate of a generated graph are    *)
(* what its topology says: the cost of all stages in series, the memory of *)
(* the stage with the most.                                                *)
EstimatesMatchTopology ==
  Returned =>
    LET path == CriticalPathCost(dag)
        peak == PeakMemoryEstimate(dag)
    IN  /\ call.kind = "chain" =>
              path = call.n * call.p.cost /\ peak = (IF call.n = 0 THEN 0 ELSE call.p.mem)
        /\ call.kind = "fan" /\ call.w > 0 =>
              path = 3 * call.p.cost /\ peak = call.w * call.p.mem
        /\ call.kind = "diamond" /\ call.w > 0 =>
              /\ path = 3 * call.n * call.p.cost
              /\ peak = (IF call.n = 0 THEN 0 ELSE call.w * call.p.mem)
        /\ call.kind = "transformer" =>
              /\ path = 6 * call.n * call.h
              /\ peak = Max({0} \cup {Mem(dag, t) : t \in Tasks(dag)})

(* fan_out_fan_in loses no bytes: the source writes what the branches read *)
(* together, and the sink reads what they write, in uint64_t arithmetic.   *)
BytesBalance ==
    Returned /\ call.kind = "fan" =>
        LET profile(t) == dag.tasks[t].profile
            branches == {t \in Tasks(dag) : t[1] = "fan_branch"}
        IN  /\ profile(<<"fan_src", 0>>).output
                  = MapThenSumSet(LAMBDA t : profile(t).input, branches) % Word
            /\ profile(<<"fan_sink", 0>>).input
                  = MapThenSumSet(LAMBDA t : profile(t).output, branches) % Word

(* Every generator builds the topology it is named after, with the bytes,  *)
(* costs and memory that follow from its parameters.                       *)
GeneratedCorrect ==
    GeneratedValid /\ LayersAreSerial /\ EstimatesMatchTopology /\ BytesBalance
=============================================================================
