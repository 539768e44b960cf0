----------------------------- MODULE Scheduler -----------------------------
(***************************************************************************)
(* What happens to a workload before it runs.  A client or a generator     *)
(* builds its graph (WorkloadGenerator); the policy plans it (Policies).   *)
(* A behaviour is one or the other: either a graph is built, or any small  *)
(* graph is planned.                                                       *)
(***************************************************************************)
EXTENDS WorkloadGenerator, Policies

vars == <<genVars, planVars>>

NotPlanning == /\ policy = "none" /\ start = <<>> /\ makespan = <<>>
               /\ GreedyIdle /\ ThresholdIdle /\ ListIdle /\ OptimizerIdle
NotBuilding == BuildInit /\ call = [kind |-> "none", n |-> 0] /\ i = 0

Init == (GenInit /\ NotPlanning) \/ (PlanInit /\ NotBuilding)

Next ==
    \/ GenNext /\ UNCHANGED planVars
    \/ PlanNext /\ UNCHANGED genVars

Spec == Init /\ [][Next]_vars
=============================================================================
