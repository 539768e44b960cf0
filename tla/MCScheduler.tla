---------------------------- MODULE MCScheduler ----------------------------
EXTENDS Scheduler

(* The second profile makes the byte counts of a wide fan wrap. *)
TwoProfiles == {[cost |-> 1, mem |-> 3, input |-> 1, output |-> 2],
                [cost |-> 2, mem |-> 1, input |-> 60, output |-> 40]}

(* A small task, a large one that is expensive to move, and one that costs *)
(* nothing.                                                                *)
PlannedProfiles == {[cost |-> 10, mem |-> 20, data |-> 0, transfer |-> 15],
                 [cost |-> 30, mem |-> 50, data |-> 100, transfer |-> 0],
                 [cost |-> 0, mem |-> 0, data |-> 10, transfer |-> 5]}

(* A busy node, an idle one, a nearly full one, and the zeroes a peer      *)
(* advertises before its first reading.                                    *)
SomeSnapshots == {[cpu |-> 80, total |-> 100, avail |-> 60],
                  [cpu |-> 10, total |-> 100, avail |-> 80],
                  [cpu |-> 10, total |-> 100, avail |-> 20],
                  [cpu |-> 0, total |-> 0, avail |-> 0]}
=============================================================================
