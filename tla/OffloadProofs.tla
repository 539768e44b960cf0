--------------------------- MODULE OffloadProofs ---------------------------
(***************************************************************************)
(* Offloading between any number of nodes, submissions and tasks, with any *)
(* number of executor and handler threads: the counters, the tasks and     *)
(* their executions stay in step whatever races with the timeout.          *)
(***************************************************************************)
EXTENDS Offload, FiniteSetTheorems, TLAPS

Ended == {"completed", "failed"}
Phases == {"none", "queued", "lookup", "round_trip", "running"} \cup Ended

Shape ==
    /\ sub \in [Subs -> {"new", "rejected", "waiting", "returned", "timed_out"}]
    /\ plan \in [Tasks -> Nodes]
    /\ executor \in [Nodes -> Seq(Tasks)]
    /\ task \in [Tasks -> Phases]
    /\ remote \in [Tasks -> {"none", "queued", "running", "ok", "bad", "lost"}]
    /\ completed \in [Subs -> Nat] /\ failed \in [Subs -> Nat] /\ fallbacks \in [Subs -> Nat]
    /\ executions \in [Tasks -> Nat]
    /\ result \in [Subs -> [completed : Nat, failed : Nat, fallbacks : Nat]]

(* An executor queue holds each of its node's waiting tasks once. *)
Queues ==
    \A n \in Nodes :
        /\ \A i \in 1 .. Len(executor[n]) :
              HomeOf(executor[n][i]) = n /\ task[executor[n][i]] = "queued"
        /\ \A i, j \in 1 .. Len(executor[n]) : executor[n][i] = executor[n][j] => i = j

Untouched == \A t \in Tasks : sub[SubOf[t]] = "new" => task[t] = "none"

(* How often a task can have run, here and at the peer *)
ExecutedBy(t) ==
    /\ remote[t] \in {"none", "queued", "running"} /\ task[t] \notin Ended => executions[t] = 0
    /\ remote[t] \in {"none", "queued", "running"} \/ task[t] \notin Ended => executions[t] <= 1
    /\ executions[t] <= 2
    /\ remote[t] # "none" => plan[t] # HomeOf(t) /\ task[t] \notin {"none", "queued", "lookup"}
    /\ remote[t] # "none" /\ task[t] # "round_trip" /\ fallbacks[SubOf[t]] = 0 =>
          remote[t] \in {"ok", "bad"} /\ task[t] \in Ended /\ executions[t] <= 1
    /\ remote[t] = "ok" \/ task[t] = "completed" => executions[t] > 0
    /\ task[t] = "round_trip" => remote[t] # "none"
    /\ task[t] \in {"lookup", "round_trip"} => plan[t] # HomeOf(t)
    /\ task[t] = "running" /\ plan[t] # HomeOf(t) => fallbacks[SubOf[t]] > 0

Executed == \A t \in Tasks : ExecutedBy(t)

Reported ==
    \A s \in Subs : sub[s] = "returned" =>
        /\ \A t \in TasksOf(s) : task[t] \in Ended
        /\ result[s].completed = Cardinality(In(s, "completed"))

IInv == Shape /\ Queues /\ Untouched /\ Executed /\ CountersExact /\ Reported

-----------------------------------------------------------------------------
LEMMA Finite ==
    ASSUME NEW s
    PROVE  /\ IsFiniteSet(TasksOf(s)) /\ Cardinality(TasksOf(s)) \in Nat
           /\ \A l : IsFiniteSet(In(s, l)) /\ Cardinality(In(s, l)) \in Nat
<1>1. IsFiniteSet(TasksOf(s))
  BY OffloadAssumption, FS_Subset DEF TasksOf
<1>2. \A l : IsFiniteSet(In(s, l))
  BY <1>1, FS_Subset DEF In
<1> QED BY <1>1, <1>2, FS_CardinalityType

(* A task that ends is one more in its column and in no other. *)
LEMMA TaskEnds ==
    ASSUME Shape, NEW t \in Tasks, task[t] \notin Ended, NEW l \in Ended,
           task' = [task EXCEPT ![t] = l]
    PROVE  /\ \A s \in Subs, m \in Ended :
                  s # SubOf[t] \/ m # l => In(s, m)' = In(s, m)
           /\ Cardinality(In(SubOf[t], l)') = Cardinality(In(SubOf[t], l)) + 1
<1>1. \A s \in Subs, m \in Ended : s # SubOf[t] \/ m # l => In(s, m)' = In(s, m)
  BY DEF Shape, In, TasksOf, Ended
<1>2. In(SubOf[t], l)' = In(SubOf[t], l) \cup {t} /\ t \notin In(SubOf[t], l)
  BY DEF Shape, In, TasksOf, Ended
<1>3. Cardinality(In(SubOf[t], l) \cup {t}) = Cardinality(In(SubOf[t], l)) + 1
  BY <1>2, Finite, FS_AddElement
<1> QED BY <1>1, <1>2, <1>3

(* A step that ends no task leaves the columns alone. *)
LEMMA NoTaskEnds ==
    ASSUME \A t \in Tasks : /\ task[t] \in Ended => task'[t] = task[t]
                            /\ task'[t] \in Ended => task[t] \in Ended
    PROVE  \A s \in Subs, m \in Ended : In(s, m)' = In(s, m)
BY DEF In, TasksOf, Ended

(* Queues and executions depend on the state of the tasks only. *)
LEMMA SameQueues == ASSUME Queues, UNCHANGED <<executor, task>> PROVE Queues'
BY DEF Queues, HomeOf

LEMMA SameExecuted ==
    ASSUME NEW t, ExecutedBy(t), task'[t] = task[t], remote'[t] = remote[t],
           executions'[t] = executions[t], plan'[t] = plan[t],
           fallbacks'[SubOf[t]] = 0 => fallbacks[SubOf[t]] = 0,
           fallbacks[SubOf[t]] > 0 => fallbacks'[SubOf[t]] > 0
    PROVE  ExecutedBy(t)'
BY DEF ExecutedBy, HomeOf, Ended

LEMMA AllExecuted ==
    ASSUME Executed, UNCHANGED <<task, remote, executions, plan, fallbacks>> PROVE Executed'
BY SameExecuted DEF Executed

-----------------------------------------------------------------------------
LEMMA OffloadInit == Init => IInv
<1> SUFFICES ASSUME Init PROVE IInv
  OBVIOUS
<1> USE OffloadAssumption DEF Init
<1>1. Shape
  BY DEF Shape, Phases, NoCounts, HomeOf
<1>2. Queues /\ Untouched /\ Executed /\ Reported
  BY DEF Queues, Untouched, Executed, ExecutedBy, Reported, Ended
<1>3. \A s \in Subs, l \in Ended : In(s, l) = {}
  BY DEF In, TasksOf, Ended
<1>4. CountersExact
  BY <1>3, FS_EmptySet DEF CountersExact, Ended
<1> QED BY <1>1, <1>2, <1>4 DEF IInv

(* Counters and reports only depend on the columns. *)
LEMMA SameColumns ==
    ASSUME IInv, UNCHANGED <<completed, failed>>,
           \A s \in Subs, m \in Ended : In(s, m)' = In(s, m)
    PROVE  CountersExact'
BY DEF IInv, CountersExact, Ended

(* submit_workload on a handler thread *)
LEMMA SubmissionPreserves ==
    ASSUME IInv, NEW s \in Subs, Reject(s) \/ SubmitWorkload(s) \/ AllCounted(s) \/ Deadline(s)
    PROVE  IInv'
<1> USE OffloadAssumption DEF IInv, counters
<1>1. CASE Reject(s)
  <2> USE <1>1 DEF Reject
  <2>1. \A r \in Subs, m \in Ended : In(r, m)' = In(r, m)
    BY NoTaskEnds
  <2>2. Shape' /\ Untouched'
    BY DEF Shape, Untouched
  <2>3. Queues' /\ Executed'
    BY SameQueues, AllExecuted
  <2>4. Reported'
    BY <2>1 DEF Shape, Reported, Ended
  <2> QED BY <2>1, <2>2, <2>3, <2>4, SameColumns
<1>2. CASE SubmitWorkload(s)
  <2>1. PICK p \in [TasksOf(s) -> Nodes], order \in Orders(TasksOf(s)) :
            /\ plan' = [t \in Tasks |-> IF t \in TasksOf(s) THEN p[t] ELSE plan[t]]
            /\ executor' = [executor EXCEPT ![Home[s]] = @ \o order]
    BY <1>2 DEF SubmitWorkload
  <2>2. /\ sub[s] = "new" /\ sub' = [sub EXCEPT ![s] = "waiting"]
        /\ task' = [t \in Tasks |-> IF t \in TasksOf(s) THEN "queued" ELSE task[t]]
        /\ UNCHANGED <<remote, completed, failed, fallbacks, executions, result>>
    BY <1>2 DEF SubmitWorkload
  <2>3. \A t \in TasksOf(s) : t \in Tasks /\ SubOf[t] = s /\ HomeOf(t) = Home[s] /\ task[t] = "none"
    BY <2>2 DEF TasksOf, HomeOf, Untouched
  <2>4. /\ Home[s] \in Nodes /\ order \in Seq(TasksOf(s))
        /\ \A i, j \in 1 .. Len(order) : order[i] = order[j] => i = j
    BY Finite DEF Orders
  <2>5. \A r \in Subs, m \in Ended : In(r, m)' = In(r, m)
    <3>1. \A t \in Tasks : /\ task[t] \in Ended => task'[t] = task[t]
                           /\ task'[t] \in Ended => task[t] \in Ended
      BY <2>2, <2>3 DEF Ended
    <3> QED BY <3>1, NoTaskEnds
  <2>6. Shape'
    <3>1. order \in Seq(Tasks)
      BY <2>3, <2>4
    <3>2. executor' \in [Nodes -> Seq(Tasks)]
      BY <2>1, <2>4, <3>1 DEF Shape
    <3>3. plan' \in [Tasks -> Nodes] /\ task' \in [Tasks -> Phases]
      BY <2>1, <2>2 DEF Shape, Phases
    <3> QED BY <2>2, <3>2, <3>3 DEF Shape
  <2>7. Queues'
    <3> SUFFICES ASSUME NEW n \in Nodes
                 PROVE  /\ \A i \in 1 .. Len(executor'[n]) :
                              /\ HomeOf(executor'[n][i]) = n
                              /\ task'[executor'[n][i]] = "queued"
                        /\ \A i, j \in 1 .. Len(executor'[n]) :
                              executor'[n][i] = executor'[n][j] => i = j
      BY DEF Queues, HomeOf
    <3>1. \A i \in 1 .. Len(executor[n]) :
            executor[n][i] \in Tasks /\ executor[n][i] \notin TasksOf(s)
      <4>1. executor[n] \in Seq(Tasks)
        BY DEF Shape
      <4>2. \A i \in 1 .. Len(executor[n]) : task[executor[n][i]] = "queued"
        BY DEF Queues
      <4> QED BY <2>3, <4>1, <4>2
    <3>2. CASE n # Home[s]
      <4>1. executor'[n] = executor[n]
        BY <2>1, <3>2 DEF Shape
      <4>2. \A i \in 1 .. Len(executor[n]) : task'[executor[n][i]] = task[executor[n][i]]
        BY <2>2, <3>1
      <4> QED BY <4>1, <4>2 DEF Queues
    <3>3. CASE n = Home[s]
      <4> DEFINE q == executor[n]
      <4>1. executor'[n] = q \o order /\ q \in Seq(Tasks)
        BY <2>1, <2>4, <3>3 DEF Shape
      <4>2. /\ Len(q \o order) = Len(q) + Len(order)
            /\ \A i \in 1 .. Len(q) + Len(order) :
                  (q \o order)[i] = IF i <= Len(q) THEN q[i] ELSE order[i - Len(q)]
        BY <2>4, <4>1
      <4>3. \A i \in 1 .. Len(order) : order[i] \in TasksOf(s)
        BY <2>4
      <4>4. /\ \A i \in 1 .. Len(q) : HomeOf(q[i]) = n /\ task[q[i]] = "queued"
            /\ \A i, j \in 1 .. Len(q) : q[i] = q[j] => i = j
        BY DEF Queues
      <4>5. Len(q) \in Nat /\ Len(order) \in Nat
        BY <2>4, <4>1
      <4>6. /\ \A i \in 1 .. Len(q) : q[i] \notin TasksOf(s) /\ task'[q[i]] = "queued"
            /\ \A i \in 1 .. Len(order) : HomeOf(order[i]) = n /\ task'[order[i]] = "queued"
        BY <2>2, <2>3, <3>1, <3>3, <4>3, <4>4
      <4> HIDE DEF q
      <4>7. \A i \in 1 .. Len(q) + Len(order) :
               HomeOf((q \o order)[i]) = n /\ task'[(q \o order)[i]] = "queued"
        BY <4>2, <4>4, <4>5, <4>6
      <4>8. \A i, j \in 1 .. Len(q) + Len(order) : (q \o order)[i] = (q \o order)[j] => i = j
        BY <2>4, <4>2, <4>3, <4>4, <4>5, <4>6
      <4> QED BY <4>1, <4>2, <4>7, <4>8
    <3> QED BY <3>2, <3>3
  <2>8. Untouched'
    BY <2>2, <2>3 DEF Shape, Untouched, TasksOf
  <2>9. Executed'
    <3>1. ASSUME NEW t \in Tasks PROVE ExecutedBy(t)'
      <4>0. ExecutedBy(t)
        BY <3>1 DEF Executed
      <4>1. CASE t \notin TasksOf(s)
        <5>1. task'[t] = task[t] /\ plan'[t] = plan[t]
          BY <2>1, <2>2, <3>1, <4>1
        <5> QED BY <2>2, <4>0, <5>1, SameExecuted
      <4>2. CASE t \in TasksOf(s)
        <5>1. task'[t] = "queued" /\ task[t] = "none" /\ remote'[t] = remote[t]
              /\ executions'[t] = executions[t] /\ remote[t] = "none"
          BY <2>2, <2>3, <3>1, <4>0, <4>2 DEF ExecutedBy
        <5> QED BY <4>0, <5>1 DEF ExecutedBy, Ended
      <4> QED BY <4>1, <4>2
    <3> QED BY <3>1 DEF Executed
  <2>10. Reported'
    BY <2>2, <2>3, <2>5 DEF Shape, Reported, TasksOf, Ended
  <2> QED BY <2>2, <2>5, <2>6, <2>7, <2>8, <2>9, <2>10, SameColumns
<1>3. CASE AllCounted(s) \/ Deadline(s)
  <2>1. /\ UNCHANGED <<plan, executor, task, remote, completed, failed, fallbacks, executions>>
        /\ sub' \in {[sub EXCEPT ![s] = "returned"], [sub EXCEPT ![s] = "timed_out"]}
        /\ result' = [result EXCEPT ![s] = [completed |-> completed[s], failed |-> failed[s],
                                            fallbacks |-> fallbacks[s]]]
        /\ sub'[s] = "returned" => completed[s] + failed[s] >= Cardinality(TasksOf(s))
    BY <1>3 DEF AllCounted, Deadline, ReturnWith, Counted, Shape
  <2>2. \A r \in Subs, m \in Ended : In(r, m)' = In(r, m)
    BY <2>1, NoTaskEnds
  <2>3. Shape'
    BY <2>1 DEF Shape
  <2>4. Queues' /\ Untouched' /\ Executed'
    <3>1. Untouched'
      BY <2>1 DEF Shape, Untouched
    <3> QED BY <2>1, <3>1, SameQueues, AllExecuted
  <2>5. Reported'
    <3>1. ASSUME sub'[s] = "returned" PROVE \A t \in TasksOf(s) : task[t] \in Ended
      <4> DEFINE E == In(s, "completed") \cup In(s, "failed")
      <4>1. In(s, "completed") \cap In(s, "failed") = {} /\ E \subseteq TasksOf(s)
        BY DEF In
      <4>2. Cardinality(E) = completed[s] + failed[s]
        <5>1. Cardinality(E) = Cardinality(In(s, "completed")) + Cardinality(In(s, "failed"))
                                 - Cardinality(In(s, "completed") \cap In(s, "failed"))
          BY Finite, FS_Union
        <5>2. Cardinality(In(s, "completed") \cap In(s, "failed")) = 0
          BY <4>1, FS_EmptySet
        <5>3. completed[s] = Cardinality(In(s, "completed")) /\ failed[s] = Cardinality(In(s, "failed"))
          BY DEF CountersExact
        <5>4. completed[s] \in Nat /\ failed[s] \in Nat
          BY DEF Shape
        <5> HIDE DEF E
        <5> QED BY <5>1, <5>2, <5>3, <5>4
      <4>3. /\ Cardinality(E) <= Cardinality(TasksOf(s))
            /\ Cardinality(TasksOf(s)) = Cardinality(E) => TasksOf(s) = E
        BY <4>1, Finite, FS_Subset
      <4>4. TasksOf(s) = E
        <5>1. completed[s] + failed[s] >= Cardinality(TasksOf(s))
          BY <2>1, <3>1
        <5>2. Cardinality(TasksOf(s)) \in Nat /\ completed[s] \in Nat /\ failed[s] \in Nat
          BY Finite DEF Shape
        <5> HIDE DEF E
        <5> QED BY <4>2, <4>3, <5>1, <5>2
      <4> QED BY <4>4 DEF In, Ended
    <3> QED BY <2>1, <2>2, <3>1 DEF Shape, Reported, CountersExact, Ended
  <2> QED BY <2>1, <2>2, <2>3, <2>4, <2>5, SameColumns
<1> QED BY <1>1, <1>2, <1>3

(* A task that has not ended belongs to no submission that returned. *)
LEMMA ReportedStays ==
    ASSUME IInv, UNCHANGED <<sub, result>>,
           \A t \in Tasks : task[t] \in Ended => task'[t] = task[t]
    PROVE  Reported'
<1> SUFFICES ASSUME NEW s \in Subs, sub[s] = "returned"
             PROVE  /\ \A t \in TasksOf(s) : task'[t] \in Ended
                    /\ result[s].completed = Cardinality(In(s, "completed")')
  BY DEF Reported, TasksOf
<1>1. \A t \in TasksOf(s) : task'[t] = task[t] /\ task[t] \in Ended
  BY DEF IInv, Reported, TasksOf
<1>2. In(s, "completed")' = In(s, "completed")
  BY <1>1 DEF In, TasksOf
<1> QED BY <1>1, <1>2 DEF IInv, Reported

(* A task that is not in a queue changes its state. *)
LEMMA QueuesStay ==
    ASSUME IInv, UNCHANGED executor, NEW t \in Tasks, task[t] # "queued",
           NEW l, task' = [task EXCEPT ![t] = l]
    PROVE  Queues'
<1>1. \A n \in Nodes : \A i \in 1 .. Len(executor[n]) :
         /\ executor[n][i] \in Tasks
         /\ task'[executor[n][i]] = task[executor[n][i]]
  BY DEF IInv, Shape, Queues
<1> QED BY <1>1 DEF IInv, Queues, HomeOf

LEMMA UntouchedStays ==
    ASSUME IInv, UNCHANGED sub, NEW t \in Tasks, task[t] # "none",
           NEW l, task' = [task EXCEPT ![t] = l]
    PROVE  Untouched'
BY DEF IInv, Shape, Untouched

(* The closures on the executor threads *)
LEMMA ExecutorPreserves == ASSUME IInv, NEW t \in Tasks, ExecutorStep(t) PROVE IInv'
<1> USE OffloadAssumption DEF IInv, counters
<1>1. CASE StartTask(t)
  <2> DEFINE n == HomeOf(t)
  <2>1. /\ executor[n] # <<>> /\ t = Head(executor[n]) /\ n \in Nodes
        /\ executor' = [executor EXCEPT ![n] = Tail(@)]
        /\ task' = [task EXCEPT ![t] = IF plan[t] = n THEN "running" ELSE "lookup"]
        /\ UNCHANGED <<sub, plan, remote, completed, failed, fallbacks, executions, result>>
    BY <1>1 DEF StartTask, HomeOf
  <2>2. /\ executor[n] \in Seq(Tasks) /\ Len(executor[n]) \in Nat \ {0} /\ t = executor[n][1]
        /\ Tail(executor[n]) \in Seq(Tasks) /\ Len(Tail(executor[n])) = Len(executor[n]) - 1
        /\ \A i \in 1 .. Len(Tail(executor[n])) : Tail(executor[n])[i] = executor[n][i + 1]
    BY <2>1 DEF Shape
  <2>3. 1 \in 1 .. Len(executor[n]) /\ task[t] = "queued"
    BY <2>1, <2>2 DEF Queues
  <2>4. \A s \in Subs, m \in Ended : In(s, m)' = In(s, m)
    <3>1. \A u \in Tasks : /\ task[u] \in Ended => task'[u] = task[u]
                           /\ task'[u] \in Ended => task[u] \in Ended
      BY <2>1, <2>3 DEF Shape, Ended
    <3> QED BY <3>1, NoTaskEnds
  <2>5. Shape'
    BY <2>1, <2>2 DEF Shape, Phases
  <2>6. Queues'
    <3> SUFFICES ASSUME NEW k \in Nodes
                 PROVE  /\ \A i \in 1 .. Len(executor'[k]) :
                              /\ HomeOf(executor'[k][i]) = k
                              /\ task'[executor'[k][i]] = "queued"
                        /\ \A i, j \in 1 .. Len(executor'[k]) :
                              executor'[k][i] = executor'[k][j] => i = j
      BY DEF Queues, HomeOf
    <3>1. CASE k # n
      <4>1. executor'[k] = executor[k]
        BY <2>1, <3>1 DEF Shape
      <4>2. \A i \in 1 .. Len(executor[k]) : executor[k][i] \in Tasks /\ executor[k][i] # t
        <5>1. \A i \in 1 .. Len(executor[k]) : HomeOf(executor[k][i]) = k
          BY DEF Queues
        <5>2. \A i \in 1 .. Len(executor[k]) : executor[k][i] \in Tasks
          BY DEF Shape
        <5> QED BY <3>1, <5>1, <5>2
      <4>3. \A i \in 1 .. Len(executor[k]) : task'[executor[k][i]] = task[executor[k][i]]
        BY <2>1, <4>2 DEF Shape
      <4> QED BY <4>1, <4>3 DEF Queues
    <3>2. CASE k = n
      <4>1. executor'[k] = Tail(executor[n])
        BY <2>1, <3>2 DEF Shape
      <4>2. \A i \in 1 .. Len(Tail(executor[n])) :
               i + 1 \in 1 .. Len(executor[n]) /\ i + 1 # 1 /\ i \in Int
        BY <2>2
      <4>3. \A i \in 1 .. Len(Tail(executor[n])) :
               /\ Tail(executor[n])[i] \in Tasks /\ Tail(executor[n])[i] # t
               /\ HomeOf(Tail(executor[n])[i]) = n /\ task[Tail(executor[n])[i]] = "queued"
        BY <2>1, <2>2, <2>3, <4>2 DEF Queues
      <4>4. \A i, j \in 1 .. Len(Tail(executor[n])) :
               Tail(executor[n])[i] = Tail(executor[n])[j] => i + 1 = j + 1
        BY <2>1, <2>2, <4>2 DEF Queues
      <4>5. \A i, j \in 1 .. Len(Tail(executor[n])) :
               Tail(executor[n])[i] = Tail(executor[n])[j] => i = j
        BY <4>2, <4>4
      <4>6. \A i \in 1 .. Len(Tail(executor[n])) : task'[Tail(executor[n])[i]] = "queued"
        BY <2>1, <4>3 DEF Shape
      <4> QED BY <3>2, <4>1, <4>3, <4>5, <4>6
    <3> QED BY <3>1, <3>2
  <2>7. Untouched'
    BY <2>1, <2>3, UntouchedStays
  <2>8. Executed'
    <3>1. /\ task'[t] \in {"running", "lookup"} /\ remote' = remote /\ executions' = executions
          /\ task'[t] = "running" <=> plan[t] = HomeOf(t)
          /\ plan' = plan /\ fallbacks' = fallbacks
      BY <2>1 DEF Shape
    <3>2. ExecutedBy(t)'
      BY <2>3, <3>1 DEF Executed, ExecutedBy, Ended, HomeOf
    <3>3. \A u \in Tasks : u # t => task'[u] = task[u]
      BY <2>1 DEF Shape
    <3> QED BY <3>1, <3>2, <3>3, SameExecuted DEF Executed
  <2>9. Reported'
    BY <2>1, <2>3, ReportedStays DEF Shape, Ended
  <2> QED BY <2>1, <2>4, <2>5, <2>6, <2>7, <2>8, <2>9, SameColumns
<1>2. CASE SendRequest(t)
  <2>1. /\ task[t] = "lookup" /\ task' = [task EXCEPT ![t] = "round_trip"]
        /\ remote' = [remote EXCEPT ![t] = "queued"]
        /\ UNCHANGED <<sub, plan, executor, completed, failed, fallbacks, executions, result>>
    BY <1>2 DEF SendRequest
  <2>2. \A u \in Tasks : /\ task[u] \in Ended => task'[u] = task[u]
                         /\ task'[u] \in Ended => task[u] \in Ended
    BY <2>1 DEF Shape, Ended
  <2>3. Shape'
    BY <2>1 DEF Shape, Phases
  <2>4. Executed'
    <3>1. /\ task'[t] = "round_trip" /\ remote'[t] = "queued"
          /\ \A u \in Tasks : u # t => task'[u] = task[u] /\ remote'[u] = remote[u]
      BY <2>1 DEF Shape
    <3>2. ExecutedBy(t)'
      BY <2>1, <3>1 DEF Executed, ExecutedBy, Ended, HomeOf
    <3> QED BY <2>1, <3>1, <3>2, SameExecuted DEF Executed
  <2>5. Queues' /\ Untouched'
    BY <2>1, QueuesStay, UntouchedStays
  <2>6. Reported' /\ CountersExact'
    BY <2>1, <2>2, NoTaskEnds, ReportedStays, SameColumns
  <2> QED BY <2>3, <2>4, <2>5, <2>6
<1>3. CASE FallBack(t)
  <2>1. /\ task[t] \in {"lookup", "round_trip"} /\ task' = [task EXCEPT ![t] = "running"]
        /\ fallbacks' = [fallbacks EXCEPT ![SubOf[t]] = @ + 1]
        /\ UNCHANGED <<sub, plan, executor, remote, completed, failed, executions, result>>
    BY <1>3 DEF FallBack
  <2>2. \A u \in Tasks : /\ task[u] \in Ended => task'[u] = task[u]
                         /\ task'[u] \in Ended => task[u] \in Ended
    BY <2>1 DEF Shape, Ended
  <2> PICK s \in Subs : s = SubOf[t]
    OBVIOUS
  <2>3. Shape'
    <3>1. task' \in [Tasks -> Phases]
      BY <2>1 DEF Shape, Phases
    <3>2. fallbacks' \in [Subs -> Nat]
      BY <2>1 DEF Shape
    <3> QED BY <2>1, <3>1, <3>2 DEF Shape
  <2>4. Executed'
    <3>0. /\ fallbacks'[s] = fallbacks[s] + 1 /\ fallbacks \in [Subs -> Nat]
          /\ \A r \in Subs : r # s => fallbacks'[r] = fallbacks[r]
      BY <2>1 DEF Shape
    <3>1. \A r \in Subs : fallbacks'[r] >= fallbacks[r] /\ fallbacks[r] \in Nat
      BY <3>0
    <3>2. fallbacks'[s] > 0
      BY <3>0
    <3>3. \A u \in Tasks : fallbacks'[SubOf[u]] = 0 => fallbacks[SubOf[u]] = 0 /\ u # t
      BY <3>0, <3>1, <3>2
    <3>4. \A u \in Tasks : fallbacks[SubOf[u]] > 0 => fallbacks'[SubOf[u]] > 0
      BY <3>0
    <3>5. task'[t] = "running" /\ \A u \in Tasks : u # t => task'[u] = task[u]
      BY <2>1 DEF Shape
    <3>6. ExecutedBy(t)'
      BY <2>1, <3>2, <3>5 DEF Executed, ExecutedBy, Ended, HomeOf
    <3> QED BY <2>1, <3>3, <3>4, <3>5, <3>6, SameExecuted DEF Executed
  <2>5. Queues' /\ Untouched'
    BY <2>1, QueuesStay, UntouchedStays
  <2>6. Reported' /\ CountersExact'
    BY <2>1, <2>2, NoTaskEnds, ReportedStays, SameColumns
  <2> QED BY <2>3, <2>4, <2>5, <2>6
<1>4. CASE Reply(t) \/ RunTask(t)
  <2>1. PICK ok \in BOOLEAN :
           /\ Count(t, ok)
           /\ \/ /\ task[t] = "round_trip" /\ remote[t] = (IF ok THEN "ok" ELSE "bad")
                 /\ executions' = executions
              \/ /\ task[t] = "running"
                 /\ executions' = [executions EXCEPT ![t] = IF ok THEN @ + 1 ELSE @]
    BY <1>4 DEF Reply, RunTask
  <2>2. UNCHANGED <<sub, plan, executor, remote, fallbacks, result>>
    BY <1>4 DEF Reply, RunTask
  <2> DEFINE l == IF ok THEN "completed" ELSE "failed"
  <2>3. /\ l \in Ended /\ task' = [task EXCEPT ![t] = l] /\ task[t] \in {"round_trip", "running"}
        /\ task[t] \notin Ended
    BY <2>1 DEF Count, Ended
  <2>4. Shape'
    <3>1. task' \in [Tasks -> Phases]
      BY <2>3 DEF Shape, Phases
    <3>2. executions' \in [Tasks -> Nat]
      <4>1. CASE UNCHANGED executions
        BY <4>1 DEF Shape
      <4>2. CASE executions' = [executions EXCEPT ![t] = IF ok THEN @ + 1 ELSE @]
        <5>1. CASE ok
          BY <4>2, <5>1 DEF Shape
        <5>2. CASE ~ok
          BY <4>2, <5>2 DEF Shape
        <5> QED BY <5>1, <5>2
      <4> QED BY <2>1, <4>1, <4>2
    <3>3. completed' \in [Subs -> Nat] /\ failed' \in [Subs -> Nat]
      <4>1. CASE ok
        BY <2>1, <4>1 DEF Shape, Count
      <4>2. CASE ~ok
        BY <2>1, <4>2 DEF Shape, Count
      <4> QED BY <4>1, <4>2
    <3> QED BY <2>2, <3>1, <3>2, <3>3 DEF Shape
  <2>5. Executed'
    <3>1. \A u \in Tasks : u # t => task'[u] = task[u] /\ executions'[u] = executions[u]
      BY <2>1, <2>3 DEF Shape
    <3>2. task'[t] = l /\ l \in {"completed", "failed"} /\ executions[t] \in Nat
      BY <2>3 DEF Shape, Ended
    <3> SUFFICES ExecutedBy(t)'
      BY <2>2, <3>1, SameExecuted DEF Executed
    <3>0. ExecutedBy(t)
      BY DEF Executed
    <3>3. CASE task[t] = "round_trip"
      <4>1. /\ remote[t] \in {"ok", "bad"} /\ executions'[t] = executions[t]
            /\ l = "completed" => remote[t] = "ok"
        BY <2>1, <3>3
      <4> HIDE DEF l
      <4> QED BY <2>2, <3>0, <3>2, <3>3, <4>1 DEF ExecutedBy, Ended, HomeOf
    <3>4. CASE task[t] = "running"
      <4>1. /\ executions'[t] = IF l = "completed" THEN executions[t] + 1 ELSE executions[t]
        BY <2>1, <3>4 DEF Shape
      <4> HIDE DEF l
      <4>2. /\ executions'[t] <= 2
            /\ remote[t] \in {"none", "queued", "running"} => executions'[t] <= 1
            /\ l = "completed" \/ remote[t] = "ok" => executions'[t] > 0
            /\ remote[t] # "none" => fallbacks[SubOf[t]] # 0
        BY <3>0, <3>2, <3>4, <4>1 DEF ExecutedBy, Ended
      <4> QED BY <2>2, <3>0, <3>2, <3>4, <4>2 DEF ExecutedBy, Ended, HomeOf
    <3> QED BY <2>3, <3>3, <3>4
  <2>6. Queues' /\ Untouched'
    BY <2>2, <2>3, QueuesStay, UntouchedStays
  <2>7. Reported'
    BY <2>2, <2>3, ReportedStays DEF Shape
  <2>8. CountersExact'
    <3>1. /\ \A s \in Subs, m \in Ended : s # SubOf[t] \/ m # l => In(s, m)' = In(s, m)
          /\ Cardinality(In(SubOf[t], l)') = Cardinality(In(SubOf[t], l)) + 1
      BY <2>3, TaskEnds
    <3>2. CASE ok
      BY <2>1, <3>1, <3>2 DEF Count, Shape, CountersExact, Ended
    <3>3. CASE ~ok
      BY <2>1, <3>1, <3>3 DEF Count, Shape, CountersExact, Ended
    <3> QED BY <3>2, <3>3
  <2> QED BY <2>4, <2>5, <2>6, <2>7, <2>8
<1> QED BY <1>1, <1>2, <1>3, <1>4 DEF ExecutorStep

(* handle_offload_request at the peer *)
LEMMA PeerPreserves ==
    ASSUME IInv, NEW t \in Tasks, PeerStep(t) \/ RemoteLost(t)
    PROVE  IInv'
<1> USE OffloadAssumption DEF IInv, counters
<1>1. UNCHANGED <<sub, plan, executor, task, completed, failed, fallbacks, result>>
  BY DEF PeerStep, RemoteStart, RemoteRun, RemoteLost
<1>2. Shape'
  <2>1. executions' \in [Tasks -> Nat]
    <3>1. CASE UNCHANGED executions
      BY <3>1 DEF Shape
    <3>2. CASE RemoteRun(t)
      <4>1. PICK ok \in BOOLEAN : executions' = [executions EXCEPT ![t] = IF ok THEN @ + 1 ELSE @]
        BY <3>2 DEF RemoteRun
      <4>2. CASE ok
        BY <4>1, <4>2 DEF Shape
      <4>3. CASE ~ok
        BY <4>1, <4>3 DEF Shape
      <4> QED BY <4>2, <4>3
    <3> QED BY <3>1, <3>2 DEF PeerStep, RemoteStart, RemoteLost
  <2>2. remote' \in [Tasks -> {"none", "queued", "running", "ok", "bad", "lost"}]
    BY DEF PeerStep, RemoteStart, RemoteRun, RemoteLost, Shape
  <2> QED BY <1>1, <2>1, <2>2 DEF Shape
<1>3. Executed'
  <2>0. ExecutedBy(t) /\ \A u \in Tasks : u # t => remote'[u] = remote[u] /\ executions'[u] = executions[u]
    BY DEF PeerStep, RemoteStart, RemoteRun, RemoteLost, Shape, Executed
  <2> SUFFICES ExecutedBy(t)'
    BY <1>1, <2>0, SameExecuted DEF Executed
  <2>1. CASE RemoteStart(t)
    <3>1. remote[t] = "queued" /\ remote'[t] = "running" /\ executions'[t] = executions[t]
      BY <2>1 DEF RemoteStart, Shape
    <3> QED BY <1>1, <2>0, <3>1 DEF ExecutedBy, Ended, HomeOf
  <2>2. CASE RemoteRun(t)
    <3>1. /\ remote[t] = "running" /\ remote'[t] \in {"ok", "bad"}
          /\ executions'[t] = IF remote'[t] = "ok" THEN executions[t] + 1 ELSE executions[t]
          /\ executions[t] \in Nat
      BY <2>2 DEF RemoteRun, Shape
    <3>2. /\ executions'[t] <= 2
          /\ task[t] \notin Ended => executions'[t] <= 1
          /\ task[t] = "completed" \/ remote'[t] = "ok" => executions'[t] > 0
          /\ task[t] # "round_trip" => fallbacks[SubOf[t]] # 0
      <4>1. /\ task[t] \notin Ended => executions[t] = 0
            /\ executions[t] <= 1
            /\ task[t] = "completed" => executions[t] > 0
            /\ task[t] # "round_trip" => fallbacks[SubOf[t]] # 0
        BY <2>0, <3>1 DEF ExecutedBy
      <4>2. \/ remote'[t] = "ok" /\ executions'[t] = executions[t] + 1
            \/ remote'[t] # "ok" /\ executions'[t] = executions[t]
        BY <3>1
      <4>3. executions[t] \in Nat
        BY <3>1
      <4>4. executions'[t] <= 2 /\ (remote'[t] = "ok" => executions'[t] > 0)
        BY <4>1, <4>2, <4>3
      <4>5. task[t] \notin Ended => executions'[t] <= 1
        BY <4>1, <4>2, <4>3
      <4>6. task[t] = "completed" => executions'[t] > 0
        BY <4>1, <4>2, <4>3
      <4> QED BY <4>1, <4>4, <4>5, <4>6
    <3>3. /\ plan[t] # HomeOf(t) /\ task[t] \notin {"none", "queued", "lookup"}
          /\ task[t] = "running" => fallbacks[SubOf[t]] > 0
      BY <2>0, <3>1 DEF ExecutedBy
    <3>4. task'[t] = task[t] /\ plan'[t] = plan[t] /\ fallbacks' = fallbacks
      BY <1>1
    <3> QED BY <3>1, <3>2, <3>3, <3>4 DEF ExecutedBy, HomeOf, Ended
  <2>3. CASE RemoteLost(t)
    <3>1. remote[t] # "none" /\ remote'[t] = "lost" /\ executions'[t] = executions[t]
          /\ task[t] = "round_trip"
      BY <2>3 DEF RemoteLost, Shape
    <3>2. executions[t] <= 1 /\ executions[t] <= 2 /\ plan[t] # HomeOf(t)
      BY <2>0, <3>1 DEF ExecutedBy, Ended
    <3>3. task'[t] = "round_trip" /\ plan'[t] = plan[t]
      BY <1>1, <3>1
    <3> QED BY <3>1, <3>2, <3>3 DEF ExecutedBy, Ended, HomeOf
  <2> QED BY <2>1, <2>2, <2>3 DEF PeerStep
<1>4. Queues' /\ Untouched'
  BY <1>1, SameQueues DEF Untouched
<1>5. Reported' /\ CountersExact'
  BY <1>1, NoTaskEnds, ReportedStays, SameColumns
<1> QED BY <1>2, <1>3, <1>4, <1>5

LEMMA OffloadInvariant == Spec => []IInv
<1>1. IInv /\ [Next]_vars => IInv'
  <2> SUFFICES ASSUME IInv, [Next]_vars PROVE IInv'
    OBVIOUS
  <2>1. CASE UNCHANGED vars
    <3>1. UNCHANGED <<sub, plan, executor, task, remote, completed, failed, fallbacks,
                      executions, result>>
      BY <2>1 DEF vars
    <3>2. Shape' /\ Queues' /\ Untouched' /\ Executed'
      <4>1. Shape' /\ Untouched'
        BY <3>1 DEF IInv, Shape, Untouched
      <4> QED BY <3>1, <4>1, SameQueues, AllExecuted DEF IInv
    <3> QED BY <3>1, <3>2, NoTaskEnds, ReportedStays, SameColumns DEF IInv
  <2>2. CASE Finished
    BY <2>1, <2>2 DEF Finished
  <2> QED BY <2>1, <2>2, SubmissionPreserves, ExecutorPreserves, PeerPreserves DEF Next
<1> QED BY OffloadInit, <1>1, PTL DEF Spec

(* However replies, timeouts and fallbacks race, the counters are exact. *)
THEOREM ExactCounters == Spec => []CountersExact
<1>1. IInv => CountersExact
  BY DEF IInv
<1> QED BY <1>1, OffloadInvariant, PTL

(* A submission that returns before its deadline has every task ended, and *)
(* those it reports as completed were executed.                            *)
THEOREM NothingLost == Spec => []NoTaskLost
<1>1. IInv => NoTaskLost
  <2> SUFFICES ASSUME IInv, NEW s \in Subs, sub[s] = "returned"
               PROVE  /\ \A t \in TasksOf(s) : task[t] \in {"completed", "failed"}
                      /\ result[s].completed <=
                            Cardinality({t \in TasksOf(s) : executions[t] > 0})
    BY DEF NoTaskLost
  <2> DEFINE X == {t \in TasksOf(s) : executions[t] > 0}
  <2>1. In(s, "completed") \subseteq X
    BY DEF IInv, Executed, ExecutedBy, In, TasksOf
  <2>2. IsFiniteSet(X)
    BY Finite, FS_Subset
  <2>3. Cardinality(In(s, "completed")) <= Cardinality(X)
    BY <2>1, <2>2, FS_Subset
  <2> QED BY <2>3 DEF IInv, Reported, Ended
<1> QED BY <1>1, OffloadInvariant, PTL

(* A task runs at most twice, the second time only as a fallback. *)
THEOREM AtMostOneRerun == Spec => []RerunOnlyByFallback
<1>1. IInv => RerunOnlyByFallback
  <2> SUFFICES ASSUME IInv, NEW t \in Tasks, executions[t] > 1
               PROVE  /\ executions[t] = 2 /\ plan[t] # HomeOf(t)
                      /\ fallbacks[SubOf[t]] > 0
    BY DEF RerunOnlyByFallback
  <2>1. executions[t] \in Nat /\ fallbacks[SubOf[t]] \in Nat
    BY OffloadAssumption DEF IInv, Shape
  <2>2. executions[t] = 2 /\ remote[t] # "none" /\ task[t] \in Ended
    BY <2>1 DEF IInv, Executed, ExecutedBy
  <2>3. fallbacks[SubOf[t]] # 0
    BY <2>1, <2>2 DEF IInv, Executed, ExecutedBy, Ended
  <2> QED BY <2>1, <2>2, <2>3 DEF IInv, Executed, ExecutedBy
<1> QED BY <1>1, OffloadInvariant, PTL
=============================================================================
