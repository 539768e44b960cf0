-------------------------- MODULE ResourceMonitor --------------------------
(***************************************************************************)
(* resource_monitor/linux_monitor.cpp.  A sampling thread reads counters   *)
(* from /proc, turns them into a share of the time since the previous      *)
(* reading, and publishes a snapshot that others read without a lock.      *)
(* start() may be called again: the new thread is created before the       *)
(* std::jthread assignment stops and joins the old one, so for a while     *)
(* there are two, and both use prev_cpu_times_.                            *)
(*                                                                         *)
(* One pair of counters stands for the aggregate line, the per-core lines  *)
(* and the network counters, which are treated alike.  The percentage is   *)
(* rounded down to an integer; a wrapped difference comes out at or just   *)
(* above 100, where the float in the code is 100.                          *)
(***************************************************************************)
EXTENDS Integers, FiniteSets

CONSTANTS
    Word,        \* 2^64, the range of a counter
    MaxJiffies,  \* bound: how far the counters of /proc/stat can run
    Busy         \* the jiffies in which the CPU was not idle

ASSUME MonitorAssumption ==
    /\ MaxJiffies \in Nat
    /\ Word \in Nat /\ Word > MaxJiffies
    /\ Busy \subseteq 1 .. MaxJiffies

VARIABLES
    proc,       \* /proc/stat: jiffies in all, and of these not idle
    prev,       \* prev_cpu_times_
    latest,     \* latest_: <<>> or <<snapshot>>
    sampler,    \* the sampling threads, in two places used in turn
    current,    \* the place of the thread that sampling_thread_ holds
    began,      \* the jiffies that had passed at the last start()
    clean       \* the last start() found no thread and could read /proc/stat

monitorVars == <<proc, prev, latest, sampler, current, began, clean>>

Places == {0, 1}
Zero == [total |-> 0, active |-> 0]

(* A thread that does not exist, or has returned *)
NoThread == [at |-> "none", stop |-> FALSE, curr |-> Zero, snap |-> <<>>]
NewThread == [NoThread EXCEPT !.at = "check"]
Alive(t) == t.at # "none"

MonitorInit ==
    /\ proc = Zero
    /\ prev = Zero
    /\ latest = <<>>
    /\ sampler = [p \in Places |-> NoThread]
    /\ current = 0
    /\ began = 0
    /\ clean = FALSE

Jiffy ==
    /\ proc.total < MaxJiffies
    /\ LET now == proc.total + 1
       IN  proc' = [total |-> now, active |-> Cardinality(Busy \cap (1 .. now))]
    /\ UNCHANGED <<prev, latest, sampler, current, began, clean>>

-----------------------------------------------------------------------------
(* start and stop, as steps of the thread that calls them *)

(* Variant: start() does not read the counters first. *)
PrimeNot(readable) ==
    /\ prev' = Zero
    /\ began' = proc.total
    /\ clean' = (readable /\ \A p \in Places : ~ Alive(sampler[p]))
    /\ UNCHANGED <<proc, latest, sampler, current>>

(* The previous counters are zeroed, then read if /proc/stat can be read. *)
Prime(readable) ==
    /\ prev' = IF readable THEN proc ELSE Zero
    /\ began' = proc.total
    /\ clean' = (readable /\ \A p \in Places : ~ Alive(sampler[p]))
    /\ UNCHANGED <<proc, latest, sampler, current>>

(* The new thread exists; the assignment asks the old one to stop. *)
SpawnSampler ==
    /\ ~ Alive(sampler[1 - current])
    /\ sampler' = [sampler EXCEPT ![1 - current] = NewThread,
                                  ![current].stop = Alive(sampler[current])]
    /\ current' = 1 - current
    /\ UNCHANGED <<proc, prev, latest, began, clean>>

OldSamplerJoined == ~ Alive(sampler[1 - current])

RequestSamplerStop ==
    /\ sampler' = [sampler EXCEPT ![current].stop = Alive(sampler[current])]
    /\ UNCHANGED <<proc, prev, latest, current, began, clean>>

-----------------------------------------------------------------------------
(* sampling_loop *)

ComputeCpuPercent(old, new) ==
    LET total  == (new.total - old.total) % Word
        active == (new.active - old.active) % Word
    IN  IF total = 0 THEN 0 ELSE (100 * active) \div total

(* The loop's test, then the read of /proc/stat in sample_once. *)
SamplerTest(p) ==
    /\ sampler[p].at = "check"
    /\ sampler' = [sampler EXCEPT ![p] =
                     IF @.stop THEN NoThread
                     ELSE [@ EXCEPT !.at = "compute", !.curr = proc]]
    /\ UNCHANGED <<proc, prev, latest, current, began, clean>>

(* from and to record the interval a snapshot is about. *)
ComputeSample(p) ==
    /\ sampler[p].at = "compute"
    /\ LET curr == sampler[p].curr
           snap == [cpu |-> ComputeCpuPercent(prev, curr), from |-> prev, to |-> curr]
       IN  /\ sampler' = [sampler EXCEPT ![p] =
                            [@ EXCEPT !.at = "publish", !.curr = Zero, !.snap = <<snap>>]]
           /\ prev' = curr
    /\ UNCHANGED <<proc, latest, current, began, clean>>

(* /proc/stat could not be read: the percentage keeps its default. *)
SampleWithoutStat(p) ==
    /\ sampler[p].at = "compute"
    /\ sampler' = [sampler EXCEPT ![p] =
                     [@ EXCEPT !.at = "publish", !.curr = Zero,
                               !.snap = <<[cpu |-> 0, from |-> Zero, to |-> Zero]>>]]
    /\ UNCHANGED <<proc, prev, latest, current, began, clean>>

Publish(p) ==
    /\ sampler[p].at = "publish"
    /\ latest' = sampler[p].snap
    /\ sampler' = [sampler EXCEPT ![p] = [@ EXCEPT !.at = "check", !.snap = <<>>]]
    /\ UNCHANGED <<proc, prev, current, began, clean>>

SamplerStep(p) ==
    \/ SamplerTest(p) \/ ComputeSample(p) \/ SampleWithoutStat(p) \/ Publish(p)

=============================================================================
