--------------------------- MODULE ThresholdPolicy ---------------------------
(***************************************************************************)
(* scheduler/threshold_policy.cpp: tasks stay local until the simulated    *)
(* local load passes a threshold, then go to the least loaded peer that    *)
(* has the memory, or stay local as a fallback.  compute_cost is counted   *)
(* in milliseconds, each of which adds a percent of CPU load.              *)
(***************************************************************************)
EXTENDS Plan

CONSTANTS
    CpuThreshold,    \* cpu_threshold_percent
    MemThreshold,    \* memory_threshold_percent
    Uint64           \* 2^64

(* The simulated memory use itself stays below 2^64. *)
NoWrap == \A s \in Snapshots, p \in PlanProfiles : s.total + MaxTasks * p.mem < Uint64

VARIABLES
    sim_cpu, sim_mem_used, local_compute,   \* the simulated local node
    peers       \* PeerState: load, avail, compute

thresholdVars == <<sim_cpu, sim_mem_used, local_compute, peers>>

mem_total == start[0].total

ThresholdInit ==
    /\ ListInit
    /\ sim_cpu = start[0].cpu
    /\ sim_mem_used = start[0].total - start[0].avail
    /\ local_compute = 0
    /\ peers = [i \in Peers |-> [load |-> start[i].cpu, avail |-> start[i].avail,
                                 compute |-> 0]]

(* Variant: the memory threshold is not looked at. *)
CpuBelowThreshold == sim_cpu < CpuThreshold

BelowThresholds ==
    /\ sim_cpu < CpuThreshold
    /\ 100 * sim_mem_used < MemThreshold * mem_total

(* mem_total - sim_mem_used is an unsigned difference. *)
LocalHasMemory(p) == (mem_total - sim_mem_used) % Uint64 >= p.mem

Local(p) == BelowThresholds /\ LocalHasMemory(p)

(* Variant: peers are taken by load alone. *)
AnyPeer(p) == Peers

Suitable(p) == {i \in Peers : peers[i].avail >= p.mem}

(* The first of the least loaded suitable peers. *)
BestPeer(p) == Min({i \in Suitable(p) :
                       \A j \in Suitable(p) : peers[i].load <= peers[j].load})

ExecuteLocally ==
    /\ todo # <<>> /\ Local(Head(todo))
    /\ Decide(0, "LocalCapacity")
    /\ local_compute' = local_compute + Head(todo).cost
    /\ sim_mem_used' = sim_mem_used + Head(todo).mem
    /\ sim_cpu' = Min({sim_cpu + Head(todo).cost, 100})
    /\ UNCHANGED peers

OffloadToPeer ==
    /\ todo # <<>> /\ ~Local(Head(todo)) /\ Suitable(Head(todo)) # {}
    /\ LET p == Head(todo)
           i == BestPeer(p)
       IN  /\ Decide(i, "ThresholdOffload")
           /\ peers' = [peers EXCEPT ![i] = [load |-> @.load + p.cost,
                                             avail |-> (@.avail - p.mem) % Uint64,
                                             compute |-> @.compute + p.cost]]
    /\ UNCHANGED <<sim_cpu, sim_mem_used, local_compute>>

Fallback ==
    /\ todo # <<>> /\ ~Local(Head(todo)) /\ Suitable(Head(todo)) = {}
    /\ Decide(0, "Fallback")
    /\ local_compute' = local_compute + Head(todo).cost
    /\ sim_mem_used' = sim_mem_used + Head(todo).mem
    /\ UNCHANGED <<sim_cpu, peers>>

ThresholdFinish ==
    /\ todo = <<>> /\ makespan = <<>>
    /\ makespan' = <<Max({local_compute} \cup {peers[i].compute : i \in Peers})>>
    /\ UNCHANGED <<start, listVars, thresholdVars>>

ThresholdDone == makespan # <<>> /\ UNCHANGED <<start, makespan, listVars, thresholdVars>>

ThresholdNext ==
    ExecuteLocally \/ OffloadToPeer \/ Fallback \/ ThresholdFinish \/ ThresholdDone

-----------------------------------------------------------------------------
(* Properties *)

(* A plan never asks a peer for more memory than the peer advertised, and  *)
(* the unsigned mem_available of the simulated peer never wraps.           *)
ThresholdWithinMemory ==
    \A i \in Peers : MemoryOn(i) + peers[i].avail = start[i].avail

(* A task placed for local capacity really fits.  After fallback tasks     *)
(* have overbooked the node, mem_total - sim_mem_used wraps to a huge      *)
(* number; the percentage test, then above 100, must keep it from being    *)
(* believed.                                                               *)
LocalCapacityStep == ExecuteLocally => sim_mem_used' <= mem_total
=============================================================================
