----------------------------- MODULE ThreadPool -----------------------------
(***************************************************************************)
(* executor/thread_pool.{hpp,cpp}: producers hand tasks to the workers     *)
(* through the ring (TicketQueue, which MpmcQueue implements) and a        *)
(* counting semaphore that holds one permit per finished enqueue(), and    *)
(* the destructor wakes every worker with one more permit each.            *)
(***************************************************************************)
EXTENDS Integers, Sequences, FiniteSets

CONSTANTS Producers, Workers, Tasks, NoTask, Capacity

ASSUME PoolAssumption ==
    /\ IsFiniteSet(Workers) /\ Workers # {}
    /\ Producers \cap Workers = {}
    /\ NoTask \notin Tasks
    /\ Capacity \in Nat \ {0}

VARIABLES
    enq, deq, item, ready, freed, holding, out,   \* task_queue_
    permits,     \* tasks_available_
    producer,    \* control point of each thread calling submit()
    task,        \* the task that thread is submitting
    worker,      \* control point of each worker_loop
    runs,        \* how often each task was executed
    stopped,     \* workers whose stop token was requested
    destructor   \* progress of ~ThreadPool

Queue == INSTANCE TicketQueue WITH
    Consumers <- Workers, Values <- Tasks, NoValue <- NoTask

queueVars == <<enq, deq, item, ready, freed, holding, out>>
vars == <<queueVars, permits, producer, task, worker, runs, stopped, destructor>>

Init ==
    /\ Queue!Init
    /\ permits = 0
    /\ producer = [p \in Producers |-> "idle"]
    /\ task = [p \in Producers |-> NoTask]
    /\ worker = [w \in Workers |-> "acquire"]
    /\ runs = [t \in Tasks |-> 0]
    /\ stopped = {}
    /\ destructor = "none"

-----------------------------------------------------------------------------
(* submit() and enqueue(): spin on try_push, then release one permit. *)

Submitted == {item[n] : n \in 1 .. Len(item)}
Submitting == {task[p] : p \in {q \in Producers : producer[q] = "push"}}

(* A pool is not destroyed while a thread is inside submit(), and no       *)
(* thread calls submit() on a pool under destruction.                      *)
Submit(p, t) ==
    /\ producer[p] = "idle" /\ destructor = "none"
    /\ t \notin Submitted \cup Submitting
    /\ producer' = [producer EXCEPT ![p] = "push"]
    /\ task' = [task EXCEPT ![p] = t]
    /\ UNCHANGED <<queueVars, permits, worker, runs, stopped, destructor>>

Push(p) ==
    /\ producer[p] = "push"
    /\ Queue!PushClaim(p, task[p])
    /\ producer' = [producer EXCEPT ![p] = "publish"]
    /\ UNCHANGED <<permits, task, worker, runs, stopped, destructor>>

Publish(p) ==
    /\ producer[p] = "publish"
    /\ Queue!PushPublish(p)
    /\ producer' = [producer EXCEPT ![p] = "release"]
    /\ UNCHANGED <<permits, task, worker, runs, stopped, destructor>>

(* Variant: the release after the push is forgotten. *)
ReleaseForgotten(p) ==
    /\ producer[p] = "release"
    /\ producer' = [producer EXCEPT ![p] = "idle"]
    /\ UNCHANGED <<queueVars, permits, task, worker, runs, stopped, destructor>>

Release(p) ==
    /\ producer[p] = "release"
    /\ permits' = permits + 1
    /\ producer' = [producer EXCEPT ![p] = "idle"]
    /\ UNCHANGED <<queueVars, task, worker, runs, stopped, destructor>>

-----------------------------------------------------------------------------
(* worker_loop() *)

Acquire(w) ==
    /\ worker[w] = "acquire" /\ permits > 0
    /\ permits' = permits - 1
    /\ worker' = [worker EXCEPT ![w] = "pop"]
    /\ UNCHANGED <<queueVars, producer, task, runs, stopped, destructor>>

Pop(w) ==
    /\ worker[w] = "pop"
    /\ Queue!PopClaim(w)
    /\ worker' = [worker EXCEPT ![w] = "free"]
    /\ UNCHANGED <<permits, producer, task, runs, stopped, destructor>>

(* Variant: the result of try_pop is ignored; the old task is run again. *)
PopResultIgnored(w) ==
    /\ worker[w] = "pop"
    /\ ~Queue!HeadReady
    /\ worker' = [worker EXCEPT ![w] = IF out[w] = NoTask THEN "check_stop" ELSE "run"]
    /\ UNCHANGED <<queueVars, permits, producer, task, runs, stopped, destructor>>

PopFails(w) ==
    /\ worker[w] = "pop"
    /\ ~Queue!HeadReady
    /\ worker' = [worker EXCEPT ![w] = "check_stop"]
    /\ UNCHANGED <<queueVars, permits, producer, task, runs, stopped, destructor>>

Free(w) ==
    /\ worker[w] = "free"
    /\ Queue!PopFree(w)
    /\ worker' = [worker EXCEPT ![w] = "run"]
    /\ UNCHANGED <<permits, producer, task, runs, stopped, destructor>>

(* The task ends, with a value or an exception the wrapper catches. *)
FinishTask(w) ==
    /\ worker[w] = "run"
    /\ runs' = [runs EXCEPT ![out[w]] = @ + 1]
    /\ worker' = [worker EXCEPT ![w] = "acquire"]
    /\ UNCHANGED <<queueVars, permits, producer, task, stopped, destructor>>

CheckStop(w) ==
    /\ worker[w] = "check_stop"
    /\ worker' = [worker EXCEPT ![w] = IF w \in stopped THEN "exited" ELSE "acquire"]
    /\ UNCHANGED <<queueVars, permits, producer, task, runs, stopped, destructor>>

-----------------------------------------------------------------------------
(* ~ThreadPool() *)

RequestStop(w) ==
    /\ destructor \in {"none", "stopping"} /\ w \notin stopped
    /\ \A p \in Producers : producer[p] = "idle"
    /\ stopped' = stopped \cup {w}
    /\ destructor' = "stopping"
    /\ UNCHANGED <<queueVars, permits, producer, task, worker, runs>>

(* Variant: one wake-up permit too few. *)
ReleaseOneShort ==
    /\ destructor = "stopping" /\ stopped = Workers
    /\ permits' = permits + Cardinality(Workers) - 1
    /\ destructor' = "joining"
    /\ UNCHANGED <<queueVars, producer, task, worker, runs, stopped>>

ReleaseAll ==
    /\ destructor = "stopping" /\ stopped = Workers
    /\ permits' = permits + Cardinality(Workers)
    /\ destructor' = "joining"
    /\ UNCHANGED <<queueVars, producer, task, worker, runs, stopped>>

Join ==
    /\ destructor = "joining"
    /\ \A w \in Workers : worker[w] = "exited"
    /\ destructor' = "joined"
    /\ UNCHANGED <<queueVars, permits, producer, task, worker, runs, stopped>>

Destroyed == destructor = "joined" /\ UNCHANGED vars

ProducerStep(p) == Push(p) \/ Publish(p) \/ Release(p)
WorkerStep(w) == Acquire(w) \/ Pop(w) \/ PopFails(w) \/ Free(w)
                   \/ FinishTask(w) \/ CheckStop(w)
DestructorStep == ReleaseAll \/ Join \/ \E w \in Workers : RequestStop(w)

Next ==
    \/ \E p \in Producers : ProducerStep(p) \/ \E t \in Tasks : Submit(p, t)
    \/ \E w \in Workers : WorkerStep(w)
    \/ DestructorStep
    \/ Destroyed

(* Threads are scheduled and tasks end; nobody is obliged to submit or to  *)
(* destroy the pool, but a destructor that started keeps running.          *)
Fairness ==
    /\ \A p \in Producers : WF_vars(ProducerStep(p))
    /\ \A w \in Workers : WF_vars(WorkerStep(w))
    /\ WF_vars(destructor # "none" /\ DestructorStep)

Spec == Init /\ [][Next]_vars
FairSpec == Spec /\ Fairness

-----------------------------------------------------------------------------
(* Properties *)

(* No task runs twice, whatever the interleaving of producers and workers, *)
(* and when the destructor has joined the workers every task submitted has *)
(* run: shutdown drains the queue instead of dropping it.                  *)
RunsExactlyOnce ==
    /\ \A t \in Tasks : runs[t] <= 1
    /\ destructor = "joined" => \A t \in Submitted : runs[t] = 1

InFlight == {p \in Producers : producer[p] \in {"publish", "release"}}
Popping == {w \in Workers : worker[w] = "pop"}

(* Every queued task has a permit, or a worker or producer that is still   *)
(* busy with it: the semaphore never falls behind the queue, so workers do *)
(* not sleep on a nonempty queue.                                          *)
PermitsCoverQueue ==
    enq - deq <= permits + Cardinality(Popping) + Cardinality(InFlight)

(* A submitted task is eventually executed. *)
SubmittedRuns ==
    \A t \in Tasks : t \in Submitted ~> runs[t] = 1

(* "One permit per worker so every sleeper wakes and observes the stop":   *)
(* the destructor returns.                                                 *)
DestructorReturns == destructor = "stopping" ~> destructor = "joined"
=============================================================================
