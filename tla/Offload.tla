------------------------------ MODULE Offload ------------------------------
(***************************************************************************)
(* orchestrator/orchestrator.hpp on several nodes: submit_workload fans    *)
(* the decisions of its plan out to the executor threads, an offloaded     *)
(* task blocks its executor thread for a round trip to the peer, a broken  *)
(* round trip falls back to local execution on the same thread, and the    *)
(* peer runs the task on one of its handler threads, the same threads that *)
(* run the workload submissions of its own clients.                        *)
(*                                                                         *)
(* The executor is a FIFO served by NumWorkers threads.  Handler threads   *)
(* are only counted: in which order requests reach them is up to the       *)
(* network.  The arena's verdict on a task is a choice (TaskArena has the  *)
(* arena).  A plan assigns the tasks to any nodes and lists them in any    *)
(* order (the optimizer puts a critical path first and the rest by cost);  *)
(* nothing here looks at the dependencies again.  A round trip may break   *)
(* at any point, before or after the peer took the request: connect, send  *)
(* or receive error, timeout, malformed reply.                             *)
(***************************************************************************)
EXTENDS Integers, Sequences, FiniteSets

CONSTANTS
    Nodes, Subs, Tasks,
    Home,          \* node that a submission is sent to
    SubOf,         \* submission a task belongs to
    NumWorkers,    \* executor threads of a node
    NumHandlers    \* handler threads of a node

ASSUME OffloadAssumption ==
    /\ Home \in [Subs -> Nodes]
    /\ SubOf \in [Tasks -> Subs] /\ IsFiniteSet(Tasks)
    /\ NumWorkers \in Nat \ {0} /\ NumHandlers \in Nat \ {0}

VARIABLES
    sub,         \* progress of each submission
    plan,        \* assigned_node of each task
    executor,    \* task queue of each node's thread pool
    task,        \* progress of each task at its home node
    remote,      \* progress of each task's request at the peer
    completed, failed, fallbacks,   \* the counters in submit_workload's frame
    executions,  \* how often each task ran to completion, on any node
    result       \* completed, failed and fallbacks as reported

vars == <<sub, plan, executor, task, remote, completed, failed, fallbacks,
          executions, result>>

HomeOf(t) == Home[SubOf[t]]
TasksOf(s) == {t \in Tasks : SubOf[t] = s}

NoCounts == [completed |-> 0, failed |-> 0, fallbacks |-> 0]

Init ==
    /\ sub = [s \in Subs |-> "new"]
    /\ plan = [t \in Tasks |-> HomeOf(t)]
    /\ executor = [n \in Nodes |-> <<>>]
    /\ task = [t \in Tasks |-> "none"]
    /\ remote = [t \in Tasks |-> "none"]
    /\ completed = [s \in Subs |-> 0]
    /\ failed = [s \in Subs |-> 0]
    /\ fallbacks = [s \in Subs |-> 0]
    /\ executions = [t \in Tasks |-> 0]
    /\ result = [s \in Subs |-> NoCounts]

counters == <<completed, failed, fallbacks>>

-----------------------------------------------------------------------------
(* Threads *)

BusyWorkers(n) == {t \in Tasks : HomeOf(t) = n /\ task[t] \in {"lookup", "round_trip", "running"}}
BusyHandlers(n) == {s \in Subs : Home[s] = n /\ sub[s] = "waiting"}
                     \cup {t \in Tasks : plan[t] = n /\ remote[t] = "running"}

WorkerFree(n) == Cardinality(BusyWorkers(n)) < NumWorkers
HandlerFree(n) == Cardinality(BusyHandlers(n)) < NumHandlers

-----------------------------------------------------------------------------
(* handle_workload_submission and submit_workload *)

(* "Resource monitor not ready" *)
Reject(s) ==
    /\ sub[s] = "new" /\ HandlerFree(Home[s])
    /\ sub' = [sub EXCEPT ![s] = "rejected"]
    /\ UNCHANGED <<plan, executor, task, remote, counters, executions, result>>

(* The orders in which a plan may list its decisions. *)
Orders(S) == {o \in [1 .. Cardinality(S) -> S] :
                 \A i, j \in DOMAIN o : i # j => o[i] # o[j]}

(* Plan, then hand every decision to the executor. *)
SubmitWorkload(s) ==
    /\ sub[s] = "new" /\ HandlerFree(Home[s])
    /\ \E p \in [TasksOf(s) -> Nodes] :
          plan' = [t \in Tasks |-> IF t \in TasksOf(s) THEN p[t] ELSE plan[t]]
    /\ \E order \in Orders(TasksOf(s)) :
          executor' = [executor EXCEPT ![Home[s]] = @ \o order]
    /\ task' = [t \in Tasks |-> IF t \in TasksOf(s) THEN "queued" ELSE task[t]]
    /\ sub' = [sub EXCEPT ![s] = "waiting"]
    /\ UNCHANGED <<remote, counters, executions, result>>

Counted(s) == completed[s] + failed[s]

ReturnWith(s, how) ==
    /\ result' = [result EXCEPT ![s] = [completed |-> completed[s],
                                        failed |-> failed[s],
                                        fallbacks |-> fallbacks[s]]]
    /\ sub' = [sub EXCEPT ![s] = how]
    /\ UNCHANGED <<plan, executor, task, remote, counters, executions>>

(* Variant: the wait ends one task early. *)
AllButOneCounted(s) ==
    /\ sub[s] = "waiting"
    /\ Counted(s) + 1 >= Cardinality(TasksOf(s))
    /\ ReturnWith(s, "returned")

AllCounted(s) ==
    /\ sub[s] = "waiting"
    /\ Counted(s) >= Cardinality(TasksOf(s))
    /\ ReturnWith(s, "returned")

Deadline(s) ==
    /\ sub[s] = "waiting"
    /\ Counted(s) < Cardinality(TasksOf(s))
    /\ ReturnWith(s, "timed_out")

-----------------------------------------------------------------------------
(* The closures on the executor threads *)

StartTask(t) ==
    /\ WorkerFree(HomeOf(t))
    /\ executor[HomeOf(t)] # <<>> /\ t = Head(executor[HomeOf(t)])
    /\ executor' = [executor EXCEPT ![HomeOf(t)] = Tail(@)]
    /\ task' = [task EXCEPT ![t] = IF plan[t] = HomeOf(t) THEN "running" ELSE "lookup"]
    /\ UNCHANGED <<sub, plan, remote, counters, executions, result>>

(* The endpoint is known, connect and send succeed. *)
SendRequest(t) ==
    /\ task[t] = "lookup"
    /\ task' = [task EXCEPT ![t] = "round_trip"]
    /\ remote' = [remote EXCEPT ![t] = "queued"]
    /\ UNCHANGED <<sub, plan, executor, counters, executions, result>>

(* Variant: the broken round trip is counted as a failure as well. *)
FallBackCountsFailure(t) ==
    /\ task[t] \in {"lookup", "round_trip"}
    /\ fallbacks' = [fallbacks EXCEPT ![SubOf[t]] = @ + 1]
    /\ failed' = [failed EXCEPT ![SubOf[t]] = @ + 1]
    /\ task' = [task EXCEPT ![t] = "running"]
    /\ UNCHANGED <<sub, plan, executor, remote, completed, executions, result>>

(* Variant: the fallback is not counted. *)
FallBackUncounted(t) ==
    /\ task[t] \in {"lookup", "round_trip"}
    /\ task' = [task EXCEPT ![t] = "running"]
    /\ UNCHANGED <<sub, plan, executor, remote, counters, executions, result>>

(* Variant: receive has no timeout. *)
FallBackWithoutTimeout(t) ==
    /\ task[t] = "lookup"
    /\ fallbacks' = [fallbacks EXCEPT ![SubOf[t]] = @ + 1]
    /\ task' = [task EXCEPT ![t] = "running"]
    /\ UNCHANGED <<sub, plan, executor, remote, completed, failed, executions, result>>

(* transport_ok is false: count the fallback and run the task here. *)
FallBack(t) ==
    /\ task[t] \in {"lookup", "round_trip"}
    /\ fallbacks' = [fallbacks EXCEPT ![SubOf[t]] = @ + 1]
    /\ task' = [task EXCEPT ![t] = "running"]
    /\ UNCHANGED <<sub, plan, executor, remote, completed, failed, executions, result>>

Count(t, ok) ==
    /\ completed' = [completed EXCEPT ![SubOf[t]] = IF ok THEN @ + 1 ELSE @]
    /\ failed' = [failed EXCEPT ![SubOf[t]] = IF ok THEN @ ELSE @ + 1]
    /\ task' = [task EXCEPT ![t] = IF ok THEN "completed" ELSE "failed"]

(* The peer answered: transport_ok, whatever became of the task there. *)
Reply(t) ==
    /\ task[t] = "round_trip" /\ remote[t] \in {"ok", "bad"}
    /\ Count(t, remote[t] = "ok")
    /\ UNCHANGED <<sub, plan, executor, remote, fallbacks, executions, result>>

(* run_task returns, Completed or Failed for lack of memory. *)
RunTask(t) ==
    /\ task[t] = "running"
    /\ \E ok \in BOOLEAN :
          /\ Count(t, ok)
          /\ executions' = [executions EXCEPT ![t] = IF ok THEN @ + 1 ELSE @]
    /\ UNCHANGED <<sub, plan, executor, remote, fallbacks, result>>

-----------------------------------------------------------------------------
(* handle_offload_request, at the peer *)

RemoteStart(t) ==
    /\ remote[t] = "queued" /\ HandlerFree(plan[t])
    /\ remote' = [remote EXCEPT ![t] = "running"]
    /\ UNCHANGED <<sub, plan, executor, task, counters, executions, result>>

RemoteRun(t) ==
    /\ remote[t] = "running"
    /\ \E ok \in BOOLEAN :
          /\ remote' = [remote EXCEPT ![t] = IF ok THEN "ok" ELSE "bad"]
          /\ executions' = [executions EXCEPT ![t] = IF ok THEN @ + 1 ELSE @]
    /\ UNCHANGED <<sub, plan, executor, task, counters, result>>

(* The request or its answer is lost. *)
RemoteLost(t) ==
    /\ remote[t] \in {"queued", "ok", "bad"} /\ task[t] = "round_trip"
    /\ remote' = [remote EXCEPT ![t] = "lost"]
    /\ UNCHANGED <<sub, plan, executor, task, counters, executions, result>>

Finished ==
    /\ \A s \in Subs : sub[s] \notin {"new", "waiting"}
    /\ \A t \in Tasks : task[t] \in {"none", "completed", "failed"}
    /\ UNCHANGED vars

ExecutorStep(t) == StartTask(t) \/ SendRequest(t) \/ FallBack(t) \/ Reply(t) \/ RunTask(t)
PeerStep(t) == RemoteStart(t) \/ RemoteRun(t)

Next ==
    \/ \E s \in Subs : Reject(s) \/ SubmitWorkload(s) \/ AllCounted(s) \/ Deadline(s)
    \/ \E t \in Tasks : ExecutorStep(t) \/ PeerStep(t) \/ RemoteLost(t)
    \/ Finished

(* Threads are scheduled, tasks end, and a round trip that gets no answer  *)
(* runs into offload_timeout_ms.                                           *)
Fairness ==
    /\ \A s \in Subs : WF_vars(AllCounted(s))
    /\ \A t \in Tasks : WF_vars(ExecutorStep(t)) /\ WF_vars(PeerStep(t))

Spec == Init /\ [][Next]_vars
FairSpec == Spec /\ Fairness

-----------------------------------------------------------------------------
(* Properties *)

In(s, state) == {t \in TasksOf(s) : task[t] = state}

(* However replies, timeouts and fallbacks race, the counters of a         *)
(* submission are the number of its tasks that completed and failed: none  *)
(* is counted twice, and none ends uncounted.                              *)
CountersExact ==
    \A s \in Subs : /\ completed[s] = Cardinality(In(s, "completed"))
                    /\ failed[s] = Cardinality(In(s, "failed"))

(* "the task must not be lost": a submission that returns before its       *)
(* deadline has no task unfinished, and every task it reports as completed *)
(* was really executed somewhere.                                          *)
NoTaskLost ==
    \A s \in Subs :
        sub[s] = "returned" =>
            /\ \A t \in TasksOf(s) : task[t] \in {"completed", "failed"}
            /\ result[s].completed <=
                   Cardinality({t \in TasksOf(s) : executions[t] > 0})

(* A task runs a second time only as the fallback of a round trip the peer *)
(* had already taken, and never a third time.                              *)
RerunOnlyByFallback ==
    \A t \in Tasks :
        executions[t] > 1 => /\ executions[t] = 2
                             /\ plan[t] # HomeOf(t)
                             /\ fallbacks[SubOf[t]] > 0

(* Executor threads that wait for each other's nodes, whose handler        *)
(* threads wait for their own executors, do not wait forever: the offload  *)
(* timeout frees them, and every submission returns even if its 30 s       *)
(* deadline never comes (no fairness is assumed of Deadline).              *)
SubmissionReturns ==
    \A s \in Subs : sub[s] = "waiting" ~> sub[s] \in {"returned", "timed_out"}
=============================================================================
