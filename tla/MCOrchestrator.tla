--------------------------- MODULE MCOrchestrator ---------------------------
(***************************************************************************)
(* One node that is started, stopped, started again and destroyed.  Either *)
(* the counters of /proc/stat advance and the node has no network, or the  *)
(* counters stand still and peers and requests come and go: the two act on *)
(* each other through start and stop only.                                 *)
(***************************************************************************)
EXTENDS Orchestrator

MCEnvironments ==
    {[jiffies |-> 2, sockets |-> FALSE], [jiffies |-> 0, sockets |-> TRUE]}
=============================================================================
