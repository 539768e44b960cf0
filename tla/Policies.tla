------------------------------ MODULE Policies ------------------------------
(***************************************************************************)
(* The scheduling step of submit_workload: the policy that create_policy   *)
(* picked turns a workload, the local snapshot and the cluster view into a *)
(* plan.  The three policies share the snapshots they start from and the   *)
(* plan's makespan; the variables of the other two policies are idle.      *)
(***************************************************************************)
EXTENDS GreedyPolicy, ThresholdPolicy, OptimizerPolicy

CONSTANT Names    \* values of config_.scheduler.policy

VARIABLE policy

planVars == <<policy, start, makespan, greedyVars, thresholdVars, listVars, optimizerVars>>

(* A snapshot never has more memory available than in total, thresholds    *)
(* are percentages, and uint64_t is wide enough for the simulated use.     *)
ASSUME PolicyAssumption ==
    /\ {NumPeers, MaxTasks, MaxIterations, Uint64} \subseteq Nat /\ NumTasks \in Nat \ {0}
    /\ PlanProfiles \subseteq [cost : Nat, mem : Nat, data : Nat, transfer : Nat]
    /\ Snapshots \subseteq [cpu : 0 .. 100, total : Nat, avail : Nat]
    /\ \A s \in Snapshots : s.avail <= s.total
    /\ CpuThreshold \in 0 .. 100 /\ MemThreshold \in 0 .. 100
    /\ NoWrap

GreedyIdle == avail = <<>> /\ compute = <<>>
ThresholdIdle == sim_cpu = 0 /\ sim_mem_used = 0 /\ local_compute = 0 /\ peers = <<>>
ListIdle == todo = <<>> /\ plan = <<>>
OptimizerIdle == /\ profile = <<>> /\ deps = <<>> /\ phase = "idle" /\ placed = {} /\ node = <<>>
                 /\ memory_used = <<>> /\ assigned_compute = <<>> /\ current = 0 /\ iter = 0

(* An unknown name gives the greedy policy. *)
CreatePolicy(name) == IF name \in {"threshold", "optimizer"} THEN name ELSE "greedy"

(* The monitor has delivered a local snapshot; a peer may have advertised  *)
(* zeroes so far.                                                          *)
PlanInit ==
    /\ \E name \in Names : policy = CreatePolicy(name)
    /\ \/ policy = "greedy" /\ GreedyInit /\ ThresholdIdle /\ OptimizerIdle
       \/ policy = "threshold" /\ ThresholdInit /\ GreedyIdle /\ OptimizerIdle
       \/ policy = "optimizer" /\ OptimizerInit /\ GreedyIdle /\ ThresholdIdle /\ ListIdle
    /\ start[0].total > 0

Schedule ==
    \/ policy = "greedy" /\ GreedyNext /\ UNCHANGED <<thresholdVars, optimizerVars>>
    \/ policy = "threshold" /\ ThresholdNext /\ UNCHANGED <<greedyVars, optimizerVars>>
    \/ policy = "optimizer" /\ OptimizerNext /\ UNCHANGED <<greedyVars, thresholdVars, listVars>>

PlanNext == Schedule /\ UNCHANGED policy

PlanSpec == PlanInit /\ [][PlanNext]_planVars

-----------------------------------------------------------------------------
(* Properties *)

(* Whatever the policy, a plan never asks a peer for more memory than the  *)
(* peer advertised, however many tasks land on it; the greedy policy       *)
(* overbooks the local node only with a task that was larger than what was *)
(* left anywhere.                                                          *)
MemoryRespected ==
    /\ policy = "greedy" => GreedyWithinMemory /\ OverbookedOnlyWhenFull
    /\ policy = "threshold" => ThresholdWithinMemory
    /\ policy = "optimizer" => OptimizerWithinMemory

(* What a policy may do in a step: the threshold policy never takes a      *)
(* wrapped unsigned difference for free local memory; the optimizer pins a *)
(* heaviest chain of tasks to the local node, and its search only keeps    *)
(* moves that pay.                                                         *)
PolicySteps ==
    [][/\ policy = "threshold" => LocalCapacityStep
       /\ policy = "optimizer" => PinStep /\ SearchStep]_planVars

(* The optimizer's node budgets are the sums over its plan, and            *)
(* estimated_makespan is the work of the busiest node of the plan; the     *)
(* optimizer's, transfers included, is never below what the critical path  *)
(* and the busiest node allow.                                             *)
EstimatesMatchPlan ==
    /\ policy \in {"greedy", "threshold"} => MakespanIsBusiestNode
    /\ policy = "optimizer" => BudgetsMatchPlan /\ EstimateRealistic
=============================================================================
