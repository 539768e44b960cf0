--------------------------- MODULE ExecutorProofs ---------------------------
(***************************************************************************)
(* The thread pool with a single producer, such as the reactor thread that *)
(* hops to the handler pool, for any number of workers, any tasks and any  *)
(* capacity.  One producer publishes in the order of its tickets, so a     *)
(* permit always stands for a published task: before the destructor        *)
(* releases its permits no try_pop fails.  (With two producers this is     *)
(* false, as run pool_join shows.)                                         *)
(*                                                                         *)
(* The arena that the pool's tasks take their memory from, for every       *)
(* number of threads, capacity, alignment and set of request sizes that    *)
(* does not wrap around size_t.                                            *)
(***************************************************************************)
EXTENDS ThreadPool, TaskArena, FiniteSetTheorems, TLAPS

OneProducer == \E p : Producers = {p}

Closing == destructor \in {"joining", "joined"}
Busy == {w \in Workers : worker[w] \in {"free", "run"}}

(* Tasks on the way from the claim of a ticket to its permit *)
Late == IF \E p \in Producers : producer[p] \in {"publish", "release"} THEN 1 ELSE 0

Shape ==
    /\ enq \in Nat /\ deq \in Nat /\ permits \in Nat
    /\ item \in Seq(Tasks) /\ Len(item) = enq
    /\ producer \in [Producers -> {"idle", "push", "publish", "release"}]
    /\ task \in [Producers -> Tasks \cup {NoTask}]
    /\ worker \in [Workers -> {"acquire", "pop", "free", "run", "check_stop", "exited"}]
    /\ DOMAIN out = Workers /\ Producers \cup Workers = DOMAIN holding
    /\ runs \in [Tasks -> {0, 1}]
    /\ destructor \in {"none", "stopping", "joining", "joined"}

(* Every ticket is published but the one its producer still holds. *)
Published ==
    \A p \in Producers :
        /\ producer[p] = "publish" => holding[p] = enq - 1 /\ ready = 0 .. enq - 2
                                        /\ enq > 0 /\ deq <= enq - 1
        /\ producer[p] # "publish" => ready = 0 .. enq - 1 /\ deq <= enq
        /\ producer[p] = "push" => task[p] \in Tasks \ Submitted
        /\ destructor # "none" => producer[p] = "idle"

(* Permits match the queue exactly until the destructor adds its own; only *)
(* then a worker can find the queue empty and leave.                       *)
Permits ==
    /\ ~Closing => /\ permits + Cardinality(Popping) = enq - deq - Late
                   /\ \A w \in Workers : worker[w] \notin {"check_stop", "exited"}
    /\ Closing => /\ enq - deq <= permits + Cardinality(Popping)
                  /\ \A w \in Workers : worker[w] \in {"check_stop", "exited"} => enq = deq

(* Each task taken from the queue has run or is held by one worker. *)
Execution ==
    /\ \A i, j \in 1 .. enq : item[i] = item[j] => i = j
    /\ \A w \in Busy : \E n \in 1 .. deq : out[w] = item[n] /\ runs[item[n]] = 0
    /\ \A v, w \in Busy : out[v] = out[w] => v = w
    /\ \A n \in 1 .. deq : runs[item[n]] = 1 \/ \E w \in Busy : out[w] = item[n]
    /\ \A n \in 1 .. enq : n > deq => runs[item[n]] = 0
    /\ \A t \in Tasks \ Submitted : runs[t] = 0
    /\ destructor = "joined" => \A w \in Workers : worker[w] = "exited"

IInv == Shape /\ Published /\ Permits /\ Execution

-----------------------------------------------------------------------------
(* Counting the workers between their permit and try_pop *)

LEMMA PoppingCount == Cardinality(Popping) \in Nat /\ IsFiniteSet(Popping)
<1>1. Popping \subseteq Workers /\ IsFiniteSet(Workers)
  BY PoolAssumption DEF Popping
<1>2. IsFiniteSet(Popping)
  BY <1>1, FS_Subset
<1> QED BY <1>2, FS_CardinalityType

LEMMA StartsPopping ==
    ASSUME Shape, NEW w \in Workers, worker[w] # "pop", worker' = [worker EXCEPT ![w] = "pop"]
    PROVE  Cardinality(Popping') = Cardinality(Popping) + 1
<1>1. Popping' = Popping \cup {w} /\ w \notin Popping
  BY DEF Popping, Shape
<1>2. Cardinality(Popping \cup {w}) = Cardinality(Popping) + 1
  BY <1>1, PoppingCount, FS_AddElement
<1> QED BY <1>1, <1>2

LEMMA StopsPopping ==
    ASSUME Shape, NEW w \in Workers, worker[w] = "pop",
           NEW l, l # "pop", worker' = [worker EXCEPT ![w] = l]
    PROVE  Cardinality(Popping') = Cardinality(Popping) - 1
<1>1. Popping' = Popping \ {w} /\ w \in Popping
  BY DEF Popping, Shape
<1>2. Cardinality(Popping \ {w}) = Cardinality(Popping) - 1
  BY <1>1, PoppingCount, FS_RemoveElement
<1> QED BY <1>1, <1>2

LEMMA SamePopping ==
    ASSUME Shape, NEW w \in Workers, worker[w] # "pop",
           NEW l, l # "pop", worker' = [worker EXCEPT ![w] = l]
    PROVE  Popping' = Popping
BY DEF Popping, Shape

LEMMA LateType == Late \in {0, 1}
BY DEF Late

LEMMA LateIsInFlight == OneProducer => Cardinality(InFlight) = Late
<1> SUFFICES ASSUME NEW p, Producers = {p} PROVE Cardinality(InFlight) = Late
  BY DEF OneProducer
<1>1. CASE producer[p] \in {"publish", "release"}
  <2>1. InFlight = {p} /\ Late = 1
    BY <1>1 DEF InFlight, Late
  <2> QED BY <2>1, FS_Singleton
<1>2. CASE producer[p] \notin {"publish", "release"}
  <2>1. InFlight = {} /\ Late = 0
    BY <1>2 DEF InFlight, Late
  <2> QED BY <2>1, FS_EmptySet
<1> QED BY <1>1, <1>2

-----------------------------------------------------------------------------
LEMMA PoolInit == Init => IInv
<1> SUFFICES ASSUME Init PROVE IInv
  OBVIOUS
<1> USE PoolAssumption DEF Init, Queue!Init, Queue!Threads
<1>1. Shape
  BY DEF Shape
<1>2. Published
  BY DEF Published
<1>3. Permits
  <2>1. Popping = {} /\ Late = 0
    BY DEF Popping, Late
  <2> QED BY <2>1, FS_EmptySet DEF Permits, Closing
<1>4. Execution
  <2>1. Busy = {}
    BY DEF Busy
  <2> QED BY <2>1 DEF Execution
<1> QED BY <1>1, <1>2, <1>3, <1>4 DEF IInv

(* submit() and enqueue() *)
LEMMA ProducerPreserves ==
    ASSUME OneProducer, IInv, NEW p \in Producers,
           ProducerStep(p) \/ \E t \in Tasks : Submit(p, t)
    PROVE  IInv'
<1>0. Producers = {p}
  BY DEF OneProducer
<1> USE <1>0, PoolAssumption DEF IInv, queueVars
<1>1. CASE \E t \in Tasks : Submit(p, t)
  <2>1. Popping' = Popping /\ Late' = Late /\ Busy' = Busy /\ Submitted' = Submitted
    BY <1>1 DEF Submit, Shape, Popping, Late, Busy, Submitted
  <2>2. Shape'
    BY <1>1 DEF Submit, Shape
  <2>3. Published'
    BY <1>1, <2>1 DEF Submit, Shape, Published
  <2>4. Permits'
    BY <1>1, <2>1 DEF Submit, Permits, Closing
  <2>5. Execution'
    BY <1>1, <2>1 DEF Submit, Execution
  <2> QED BY <2>2, <2>3, <2>4, <2>5
<1>2. CASE Push(p)
  <2> USE <1>2 DEF Push, Queue!PushClaim
  <2>1. /\ task[p] \in Tasks \ Submitted /\ ~Closing /\ destructor = "none"
        /\ ready = 0 .. enq - 1 /\ deq <= enq
    BY DEF Published, Closing
  <2>2. /\ Popping' = Popping /\ Busy' = Busy /\ Late = 0 /\ Late' = 1
    BY DEF Shape, Popping, Late, Busy
  <2>3. /\ item' \in Seq(Tasks) /\ Len(item') = enq + 1 /\ enq' = enq + 1
        /\ \A n \in 1 .. enq : item'[n] = item[n]
        /\ item'[enq + 1] = task[p]
    BY <2>1 DEF Shape
  <2>4. Submitted' = Submitted \cup {task[p]}
    BY <2>3 DEF Shape, Submitted
  <2>5. Shape'
    BY <2>3 DEF Shape
  <2>6. Published'
    BY <2>1 DEF Shape, Published
  <2>7. Permits'
    BY <2>1, <2>2, PoppingCount DEF Shape, Permits, Closing
  <2>8. Execution'
    <3>1. \A n \in 1 .. enq : item[n] \in Tasks /\ item[n] # task[p]
      BY <2>1 DEF Shape, Submitted
    <3>2. 1 .. enq' = (1 .. enq) \cup {enq + 1} /\ 1 .. deq \subseteq 1 .. enq
      BY <2>1, <2>3 DEF Shape
    <3>3. \A i, j \in 1 .. enq' : item'[i] = item'[j] => i = j
      BY <2>3, <3>1, <3>2 DEF Execution
    <3>4. UNCHANGED <<deq, runs, out, destructor, worker>>
      OBVIOUS
    <3> HIDE DEF Push
    <3>5. \A n \in 1 .. deq : item'[n] = item[n]
      BY <2>3, <3>2
    <3>6. \A w \in Busy : \E n \in 1 .. deq : out[w] = item'[n] /\ runs[item'[n]] = 0
      BY <3>5 DEF Execution
    <3>7. \A n \in 1 .. deq : runs[item'[n]] = 1 \/ \E w \in Busy : out[w] = item'[n]
      BY <3>5 DEF Execution
    <3>8. \A n \in 1 .. enq' : n > deq => runs[item'[n]] = 0
      BY <2>1, <2>3, <3>2 DEF Execution
    <3>9. \A t \in Tasks \ Submitted' : runs[t] = 0
      BY <2>4 DEF Execution
    <3> QED BY <2>1, <2>2, <3>3, <3>4, <3>6, <3>7, <3>8, <3>9 DEF Execution
  <2> QED BY <2>5, <2>6, <2>7, <2>8
<1>3. CASE Publish(p)
  <2> USE <1>3 DEF Publish, Queue!PushPublish
  <2>1. Popping' = Popping /\ Late' = Late /\ Busy' = Busy /\ Submitted' = Submitted
    BY DEF Shape, Popping, Late, Busy, Submitted
  <2>2. Shape'
    BY DEF Shape
  <2>3. Published'
    BY <2>1 DEF Shape, Published
  <2>4. Permits'
    BY <2>1 DEF Permits, Closing
  <2>5. Execution'
    BY <2>1 DEF Execution
  <2> QED BY <2>2, <2>3, <2>4, <2>5
<1>4. CASE Release(p)
  <2> USE <1>4 DEF Release
  <2>1. Popping' = Popping /\ Late = 1 /\ Late' = 0 /\ Busy' = Busy /\ Submitted' = Submitted
    BY DEF Shape, Popping, Late, Busy, Submitted
  <2>2. Shape'
    BY DEF Shape
  <2>3. Published'
    BY <2>1 DEF Shape, Published
  <2>4. Permits'
    <3>1. destructor = "none" /\ ~Closing /\ ~Closing'
      BY DEF Shape, Published, Closing
    <3>2. permits' + Cardinality(Popping') = enq' - deq' - Late'
      <4>1. permits + Cardinality(Popping) = enq - deq - 1
        BY <2>1, <3>1 DEF Permits
      <4>2. permits' = permits + 1 /\ enq' = enq /\ deq' = deq
        OBVIOUS
      <4>3. permits \in Nat /\ enq \in Nat /\ deq \in Nat
        BY DEF Shape
      <4> HIDE <1>4
      <4> QED BY <2>1, <4>1, <4>2, <4>3, PoppingCount
    <3> QED BY <2>1, <3>1, <3>2 DEF Permits
  <2>5. Execution'
    BY <2>1 DEF Execution
  <2> QED BY <2>2, <2>3, <2>4, <2>5
<1> QED BY <1>1, <1>2, <1>3, <1>4 DEF ProducerStep

(* worker_loop() *)
LEMMA WorkerPreserves ==
    ASSUME OneProducer, IInv, NEW w \in Workers, WorkerStep(w)
    PROVE  IInv'
<1>0. PICK p : Producers = {p}
  BY DEF OneProducer
<1> USE PoolAssumption DEF IInv, queueVars
<1>1. CASE Acquire(w)
  <2> USE <1>1 DEF Acquire
  <2>1. Late' = Late /\ Busy' = Busy /\ Submitted' = Submitted
    BY DEF Shape, Late, Busy, Submitted
  <2>2. Cardinality(Popping') = Cardinality(Popping) + 1
    BY StartsPopping
  <2>3. Shape'
    BY DEF Shape
  <2>4. Published'
    BY <2>1 DEF Published
  <2>5. Permits'
    <3>1. /\ Closing' <=> Closing
          /\ permits' + Cardinality(Popping') = permits + Cardinality(Popping)
      BY <2>2, PoppingCount DEF Shape, Closing
    <3> QED BY <2>1, <3>1 DEF Shape, Permits
  <2>6. Execution'
    BY <2>1 DEF Shape, Execution
  <2> QED BY <2>3, <2>4, <2>5, <2>6
<1>2. CASE Pop(w)
  <2>1. /\ deq' = deq + 1 /\ out' = [out EXCEPT ![w] = item[deq + 1]]
        /\ worker[w] = "pop" /\ worker' = [worker EXCEPT ![w] = "free"]
        /\ deq \in ready
        /\ UNCHANGED <<enq, item, ready, permits, producer, task, runs, stopped, destructor>>
        /\ DOMAIN holding' = DOMAIN holding
        /\ \A q \in Producers : holding'[q] = holding[q]
    BY <1>2 DEF Pop, Queue!PopClaim, Queue!HeadReady, Shape
  <2>2. /\ deq < enq /\ \A q \in Producers : producer[q] = "publish" => deq < enq - 1
    BY <1>0, <2>1 DEF Published, Shape
  <2>3. Cardinality(Popping') = Cardinality(Popping) - 1
    BY <2>1, StopsPopping
  <2>4. Late' = Late /\ Busy' = Busy \cup {w} /\ w \notin Busy /\ Submitted' = Submitted
    BY <2>1 DEF Shape, Late, Busy, Submitted
  <2>5. Shape'
    BY <2>1 DEF Shape
  <2>6. Published'
    BY <2>1, <2>2, <2>4 DEF Shape, Published
  <2>7. Permits'
    <3>1. /\ Closing' <=> Closing
          /\ \A v \in Workers : worker'[v] \in {"check_stop", "exited"} =>
                worker[v] \in {"check_stop", "exited"}
      BY <2>1 DEF Shape, Closing
    <3>2. ~Closing => permits' + Cardinality(Popping') = enq' - deq' - Late'
      <4>1. ~Closing => permits + Cardinality(Popping) = enq - deq - Late
        BY DEF Permits
      <4>2. permits \in Nat /\ enq \in Nat /\ deq \in Nat
        BY DEF Shape
      <4> QED BY <2>1, <2>3, <2>4, <4>1, <4>2, PoppingCount, LateType
    <3>3. Closing => enq' - deq' <= permits' + Cardinality(Popping')
      BY <2>1, <2>3, PoppingCount DEF Shape, Permits
    <3>4. Closing => \A v \in Workers : worker'[v] \notin {"check_stop", "exited"}
      BY <2>1, <2>2, <3>1 DEF Shape, Permits
    <3>5. ~Closing => \A v \in Workers : worker'[v] \notin {"check_stop", "exited"}
      BY <3>1 DEF Permits
    <3> QED BY <3>1, <3>2, <3>3, <3>4, <3>5 DEF Permits
  <2>8. Execution'
    <3>1. 1 .. deq' = (1 .. deq) \cup {deq + 1} /\ deq + 1 \in 1 .. enq /\ 1 .. deq \subseteq 1 .. enq
      BY <2>1, <2>2 DEF Shape
    <3>2. out'[w] = item[deq + 1] /\ \A v \in Busy : out'[v] = out[v]
      BY <2>1, <2>4 DEF Shape, Busy
    <3>3. runs[item[deq + 1]] = 0
      BY <3>1 DEF Shape, Execution
    <3>4. \A v \in Busy : out[v] # item[deq + 1]
      BY <3>1 DEF Shape, Execution
    <3>5. \A v \in Busy' : \E n \in 1 .. deq' : out'[v] = item[n] /\ runs[item[n]] = 0
      BY <2>4, <3>1, <3>2, <3>3 DEF Execution
    <3>6. \A u, v \in Busy' : out'[u] = out'[v] => u = v
      BY <2>4, <3>2, <3>4 DEF Execution
    <3>7. \A n \in 1 .. deq' : runs[item[n]] = 1 \/ \E v \in Busy' : out'[v] = item[n]
      BY <2>4, <3>1, <3>2 DEF Execution
    <3>8. \A n \in 1 .. enq : n > deq' => runs[item[n]] = 0
      BY <2>1 DEF Shape, Execution
    <3>9. destructor' = "joined" => \A v \in Workers : worker'[v] = "exited"
      BY <2>1 DEF Execution
    <3> QED BY <2>1, <2>4, <3>5, <3>6, <3>7, <3>8, <3>9 DEF Execution
  <2> QED BY <2>5, <2>6, <2>7, <2>8
<1>3. CASE PopFails(w)
  <2> USE <1>3 DEF PopFails, Queue!HeadReady
  <2>1. Late' = Late /\ Busy' = Busy /\ Submitted' = Submitted
    BY DEF Shape, Late, Busy, Submitted
  <2>2. Cardinality(Popping') = Cardinality(Popping) - 1
    BY StopsPopping
  <2>3. Closing /\ enq = deq /\ Cardinality(Popping) > 0
    <3>1. w \in Popping
      BY DEF Popping
    <3>2. Cardinality(Popping) > 0
      BY <3>1, PoppingCount, FS_EmptySet
    <3>3. producer[p] \in {"idle", "push", "publish", "release"}
      BY <1>0 DEF Shape
    <3>4. CASE ~Closing
      <4>1. enq - deq - Late > 0
        BY <3>2, <3>4, PoppingCount DEF Permits, Shape
      <4>2. Late = IF producer[p] \in {"publish", "release"} THEN 1 ELSE 0
        BY <1>0 DEF Late
      <4> QED BY <1>0, <3>3, <4>1, <4>2 DEF Published, Shape
    <3>5. CASE Closing
      BY <1>0, <3>2, <3>5 DEF Published, Shape, Closing
    <3> QED BY <3>2, <3>4, <3>5
  <2>4. Shape'
    BY DEF Shape
  <2>5. Published'
    BY <2>1 DEF Published
  <2>6. Permits'
    <3>1. /\ Closing' /\ enq' = deq'
          /\ permits' + Cardinality(Popping') >= 0
      BY <2>2, <2>3, PoppingCount DEF Shape, Closing
    <3> QED BY <3>1 DEF Shape, Permits
  <2>7. Execution'
    <3>1. destructor' # "joined" /\ UNCHANGED <<enq, deq, item, out, runs>>
      BY DEF Execution
    <3> QED BY <2>1, <3>1 DEF Execution
  <2> QED BY <2>4, <2>5, <2>6, <2>7
<1>4. CASE Free(w)
  <2>1. /\ worker[w] = "free" /\ worker' = [worker EXCEPT ![w] = "run"]
        /\ UNCHANGED <<enq, deq, item, ready, out, permits, producer, task, runs, stopped, destructor>>
        /\ DOMAIN holding' = DOMAIN holding
        /\ \A q \in Producers : holding'[q] = holding[q]
    BY <1>4 DEF Free, Queue!PopFree, Shape
  <2>2. Late' = Late /\ Busy' = Busy /\ Submitted' = Submitted
    BY <2>1 DEF Shape, Late, Busy, Submitted
  <2>3. Popping' = Popping
    BY <2>1, SamePopping
  <2>4. Shape'
    BY <2>1 DEF Shape
  <2>5. Published'
    BY <2>1, <2>2 DEF Published
  <2>6. Permits'
    BY <2>1, <2>2, <2>3 DEF Shape, Permits, Closing
  <2>7. Execution'
    BY <2>1, <2>2 DEF Shape, Execution
  <2> QED BY <2>4, <2>5, <2>6, <2>7
<1>5. CASE FinishTask(w)
  <2>1. /\ worker[w] = "run" /\ worker' = [worker EXCEPT ![w] = "acquire"]
        /\ runs' = [runs EXCEPT ![out[w]] = @ + 1]
        /\ UNCHANGED <<queueVars, permits, producer, task, stopped, destructor>>
    BY <1>5 DEF FinishTask
  <2>2. Late' = Late /\ Busy' = Busy \ {w} /\ w \in Busy /\ Submitted' = Submitted
    BY <2>1 DEF Shape, Late, Busy, Submitted
  <2>3. Popping' = Popping
    BY <2>1, SamePopping
  <2>4. deq <= enq
    BY <1>0 DEF Published, Shape
  <2>5. PICK n \in 1 .. deq : out[w] = item[n] /\ runs[item[n]] = 0
    BY <2>2 DEF Execution
  <2>6. n \in 1 .. enq /\ item[n] \in Tasks /\ item[n] \in Submitted
    BY <2>4, <2>5 DEF Shape, Submitted
  <2>7. runs' = [runs EXCEPT ![item[n]] = 1]
    BY <2>1, <2>5, <2>6 DEF Shape
  <2>8. Shape'
    BY <2>1, <2>6, <2>7 DEF Shape
  <2>9. Published'
    BY <2>1, <2>2 DEF Published
  <2>10. Permits'
    BY <2>1, <2>2, <2>3 DEF Shape, Permits, Closing
  <2>11. Execution'
    <3>1. 1 .. deq \subseteq 1 .. enq
      BY <2>4 DEF Shape
    <3>2. \A m \in 1 .. enq : /\ item[m] \in Tasks
                              /\ m # n => runs'[item[m]] = runs[item[m]]
      <4>1. ASSUME NEW m \in 1 .. enq
            PROVE  item[m] \in Tasks /\ (m # n => item[m] # item[n])
        BY <2>6 DEF Shape, Execution
      <4>2. runs \in [Tasks -> {0, 1}]
        BY DEF Shape
      <4> HIDE DEF IInv
      <4> QED BY <2>6, <2>7, <4>1, <4>2
    <3>3. runs'[item[n]] = 1
      BY <2>6, <2>7 DEF Shape
    <3>4. UNCHANGED <<enq, deq, item, out, destructor>>
      BY <2>1
    <3>5. \A v \in Busy' : \E m \in 1 .. deq : out[v] = item[m] /\ runs'[item[m]] = 0
      <4> TAKE v \in Busy'
      <4>1. v \in Busy /\ v # w
        BY <2>2
      <4>2. PICK m \in 1 .. deq : out[v] = item[m] /\ runs[item[m]] = 0
        BY <4>1 DEF Execution
      <4>3. m # n
        BY <2>2, <2>5, <4>1, <4>2 DEF Execution
      <4> QED BY <3>1, <3>2, <4>2, <4>3
    <3>6. \A u, v \in Busy' : out[u] = out[v] => u = v
      BY <2>2 DEF Execution
    <3>7. \A m \in 1 .. deq : runs'[item[m]] = 1 \/ \E v \in Busy' : out[v] = item[m]
      <4> TAKE m \in 1 .. deq
      <4>1. CASE m = n
        BY <3>3, <4>1
      <4>2. CASE m # n
        <5>1. item[m] # item[n]
          BY <2>6, <3>1, <4>2 DEF Execution
        <5>2. runs[item[m]] = 1 \/ \E v \in Busy \ {w} : out[v] = item[m]
          BY <2>5, <5>1 DEF Execution
        <5> QED BY <2>2, <3>1, <3>2, <4>2, <5>2
      <4> QED BY <4>1, <4>2
    <3>8. \A m \in 1 .. enq : m > deq => runs'[item[m]] = 0
      BY <2>5, <3>2 DEF Shape, Execution
    <3>9. \A t \in Tasks \ Submitted : runs'[t] = 0
      BY <2>6, <2>7 DEF Shape, Execution
    <3>10. destructor' = "joined" => \A v \in Workers : worker'[v] = "exited"
      BY <2>1 DEF Execution
    <3>11. enq' = enq /\ deq' = deq /\ item' = item /\ out' = out /\ Submitted' = Submitted
      BY <2>1, <2>2
    <3> HIDE <1>5
    <3>12. \A v \in Busy' : \E m \in 1 .. deq' : out'[v] = item'[m] /\ runs'[item'[m]] = 0
      BY <3>5, <3>11
    <3>13. \A u, v \in Busy' : out'[u] = out'[v] => u = v
      BY <3>6, <3>11
    <3>14. \A m \in 1 .. deq' : runs'[item'[m]] = 1 \/ \E v \in Busy' : out'[v] = item'[m]
      BY <3>7, <3>11
    <3>15. /\ \A m \in 1 .. enq' : m > deq' => runs'[item'[m]] = 0
           /\ \A t \in Tasks \ Submitted' : runs'[t] = 0
      BY <3>8, <3>9, <3>11
    <3>16. \A i, j \in 1 .. enq' : item'[i] = item'[j] => i = j
      BY <3>11 DEF Execution
    <3> QED BY Zenon, <3>10, <3>12, <3>13, <3>14, <3>15, <3>16 DEF Execution
  <2> QED BY <2>8, <2>9, <2>10, <2>11
<1>6. CASE CheckStop(w)
  <2> USE <1>6 DEF CheckStop
  <2>1. Late' = Late /\ Busy' = Busy /\ Submitted' = Submitted
    BY DEF Shape, Late, Busy, Submitted
  <2>2. Popping' = Popping
    BY DEF Shape, Popping
  <2>3. Shape'
    BY DEF Shape
  <2>4. Published'
    BY <2>1 DEF Published
  <2>5. Permits'
    BY <2>1, <2>2 DEF Shape, Permits, Closing
  <2>6. Execution'
    <3>1. /\ UNCHANGED <<enq, deq, item, out, runs, destructor>>
          /\ \A v \in Workers : worker[v] = "exited" => worker'[v] = "exited"
      BY DEF Shape
    <3> HIDE <1>6
    <3> QED BY <2>1, <3>1 DEF Execution
  <2> QED BY <2>3, <2>4, <2>5, <2>6
<1> QED BY <1>1, <1>2, <1>3, <1>4, <1>5, <1>6 DEF WorkerStep

(* ~ThreadPool() *)
LEMMA DestructorPreserves == ASSUME OneProducer, IInv, DestructorStep PROVE IInv'
<1>0. PICK p : Producers = {p}
  BY DEF OneProducer
<1> USE PoolAssumption DEF IInv, queueVars
<1>1. Popping' = Popping /\ Late' = Late /\ Busy' = Busy /\ Submitted' = Submitted
  BY DEF DestructorStep, ReleaseAll, Join, RequestStop, Popping, Late, Busy, Submitted
<1>2. CASE ReleaseAll
  <2> USE <1>2 DEF ReleaseAll
  <2>1. Cardinality(Workers) \in Nat
    BY FS_CardinalityType
  <2>2. Late = 0
    BY <1>0 DEF Late, Published
  <2>3. Shape' /\ Published'
    <3>1. permits \in Nat /\ permits' = permits + Cardinality(Workers)
      BY DEF Shape
    <3>2. permits' \in Nat
      BY <2>1, <3>1
    <3>3. Shape'
      BY <3>2 DEF Shape
    <3>4. Published'
      BY <1>1 DEF Published
    <3> QED BY <3>3, <3>4
  <2>4. Permits'
    <3>1. Closing' /\ ~Closing /\ permits' = permits + Cardinality(Workers)
      BY DEF Closing
    <3>2. /\ permits + Cardinality(Popping) = enq - deq
          /\ \A w \in Workers : worker[w] \notin {"check_stop", "exited"}
      BY <2>2, <3>1 DEF Shape, Permits
    <3>3. enq' - deq' <= permits' + Cardinality(Popping')
      BY <1>1, <2>1, <3>1, <3>2, PoppingCount DEF Shape
    <3> QED BY <3>1, <3>2, <3>3 DEF Permits
  <2>5. Execution'
    BY <1>1 DEF Execution
  <2> QED BY <2>3, <2>4, <2>5
<1>3. CASE Join
  <2>1. Shape' /\ Published'
    BY <1>1, <1>3 DEF Join, Shape, Published
  <2>2. Permits'
    BY <1>1, <1>3 DEF Join, Permits, Closing
  <2>3. Execution'
    BY <1>1, <1>3 DEF Join, Execution
  <2> QED BY <2>1, <2>2, <2>3
<1>4. CASE \E w \in Workers : RequestStop(w)
  <2>1. Shape' /\ Published'
    BY <1>1, <1>4 DEF RequestStop, Shape, Published
  <2>2. Permits'
    BY <1>1, <1>4 DEF RequestStop, Permits, Closing
  <2>3. Execution'
    BY <1>1, <1>4 DEF RequestStop, Execution
  <2> QED BY <2>1, <2>2, <2>3
<1> QED BY <1>2, <1>3, <1>4 DEF DestructorStep

LEMMA PoolStep == OneProducer /\ IInv /\ [Next]_vars => IInv'
<1> SUFFICES ASSUME OneProducer, IInv, [Next]_vars PROVE IInv'
  OBVIOUS
<1>1. CASE UNCHANGED vars
  <2>1. Popping' = Popping /\ Late' = Late /\ Busy' = Busy /\ Submitted' = Submitted
    BY <1>1 DEF vars, queueVars, Popping, Late, Busy, Submitted
  <2>2. Shape' /\ Published'
    BY <1>1, <2>1 DEF vars, queueVars, IInv, Shape, Published
  <2>3. Permits'
    BY <1>1, <2>1 DEF vars, queueVars, IInv, Permits, Closing
  <2>4. Execution'
    BY <1>1, <2>1 DEF vars, queueVars, IInv, Execution
  <2> QED BY <2>2, <2>3, <2>4 DEF IInv
<1>2. CASE Destroyed
  BY <1>1, <1>2 DEF Destroyed
<1> QED BY <1>1, <1>2, ProducerPreserves, WorkerPreserves, DestructorPreserves DEF Next

LEMMA PoolInvariant == OneProducer /\ Spec => []IInv
<1> SUFFICES ASSUME OneProducer PROVE Spec => []IInv
  OBVIOUS
<1>1. IInv /\ [Next]_vars => IInv'
  BY PoolStep
<1> QED BY PoolInit, <1>1, PTL DEF Spec

(* With one producer the semaphore never falls behind the queue, however   *)
(* many workers acquire, pop and exit at the same time.                    *)
THEOREM PermitsSuffice == OneProducer /\ Spec => []PermitsCoverQueue
<1> SUFFICES ASSUME OneProducer PROVE Spec => []PermitsCoverQueue
  OBVIOUS
<1>1. IInv => PermitsCoverQueue
  <2> SUFFICES ASSUME IInv PROVE PermitsCoverQueue
    OBVIOUS
  <2>1. Cardinality(InFlight) = Late /\ Late \in {0, 1}
    BY LateIsInFlight DEF Late
  <2>2. permits \in Nat /\ enq \in Nat /\ deq \in Nat
    BY DEF IInv, Shape
  <2>3. enq - deq <= permits + Cardinality(Popping) + Late
    <3>1. CASE Closing
      BY <2>1, <2>2, <3>1, PoppingCount DEF IInv, Permits
    <3>2. CASE ~Closing
      BY <2>1, <2>2, <3>2, PoppingCount DEF IInv, Permits
    <3> QED BY <3>1, <3>2
  <2> QED BY <2>1, <2>3 DEF PermitsCoverQueue
<1> QED BY <1>1, PoolInvariant, PTL

(* With one producer every task runs at most once, and a pool that has     *)
(* been destroyed has run every task submitted to it.                      *)
THEOREM ExactlyOnce == OneProducer /\ Spec => []RunsExactlyOnce
<1> SUFFICES ASSUME OneProducer PROVE Spec => []RunsExactlyOnce
  OBVIOUS
<1>1. IInv => RunsExactlyOnce
  <2> SUFFICES ASSUME IInv PROVE RunsExactlyOnce
    OBVIOUS
  <2>1. \A t \in Tasks : runs[t] <= 1
    BY DEF IInv, Shape
  <2>2. ASSUME destructor = "joined", NEW t \in Submitted PROVE runs[t] = 1
    <3>1. Busy = {} /\ enq = deq
      BY <2>2, PoolAssumption DEF IInv, Execution, Busy, Permits, Closing
    <3> QED BY <2>2, <3>1 DEF IInv, Shape, Execution, Submitted
  <2> QED BY <2>1, <2>2 DEF RunsExactlyOnce
<1> QED BY <1>1, PoolInvariant, PTL
-----------------------------------------------------------------------------
(* The arena *)

(* Euclidean division, the only fact about % the arithmetic rests on. *)
LEMMA DivMod ==
    ASSUME NEW a \in Int, NEW b \in Nat \ {0}
    PROVE  /\ a = (b * (a \div b)) + (a % b)
           /\ a \div b \in Int
           /\ a % b \in 0 .. (b - 1)
OBVIOUS

(* A multiple of b leaves no remainder. *)
LEMMA MultipleMod ==
    ASSUME NEW b \in Nat \ {0}, NEW k \in Int
    PROVE  (b * k) % b = 0
<1> DEFINE q == (b * k) \div b
           r == (b * k) % b
<1>1. b * k \in Int
  OBVIOUS
<1>2. b * k = (b * q) + r /\ q \in Int /\ r \in 0 .. (b - 1)
  BY <1>1, DivMod
<1> HIDE DEF q, r
<1>3. CASE q = k
  <2>1. b * q = b * k
    BY <1>3
  <2> QED BY <1>1, <1>2, <2>1 DEF r
<1>4. CASE q < k
  <2>1. (b * q) + b <= b * k
    BY <1>2, <1>4
  <2>2. b * q \in Int
    BY <1>2
  <2> QED BY <1>1, <1>2, <2>1, <2>2
<1>5. CASE k < q
  <2>1. (b * k) + b <= b * q
    BY <1>2, <1>5
  <2>2. b * q \in Int
    BY <1>2
  <2> QED BY <1>1, <1>2, <2>1, <2>2
<1> QED BY <1>2, <1>3, <1>4, <1>5

(* What allocate() computes by masking: the next multiple of the alignment. *)
LEMMA AlignUpFacts ==
    ASSUME NEW n \in Nat
    PROVE  /\ AlignUp(n) \in Nat
           /\ n <= AlignUp(n)
           /\ AlignUp(n) < n + Alignment
           /\ AlignUp(n) % Alignment = 0
<1> DEFINE q == (-n) \div Alignment
           r == (-n) % Alignment
<1>1. -n = (Alignment * q) + r /\ q \in Int /\ r \in 0 .. (Alignment - 1)
  BY DivMod, ArenaAssumption
<1>2. AlignUp(n) = n + r
  BY DEF AlignUp
<1> HIDE DEF q, r
<1>3. Alignment * q \in Int /\ Alignment * (0 - q) = 0 - (Alignment * q)
  BY <1>1, ArenaAssumption
<1>4. AlignUp(n) = Alignment * (0 - q)
  BY <1>1, <1>2, <1>3, ArenaAssumption
<1>5. (Alignment * (0 - q)) % Alignment = 0
  <2> DEFINE k == 0 - q
  <2>1. k \in Int
    BY <1>1
  <2> HIDE DEF k
  <2>2. (Alignment * k) % Alignment = 0
    BY <2>1, MultipleMod, ArenaAssumption
  <2> QED BY <2>2 DEF k
<1> QED BY <1>1, <1>2, <1>4, <1>5, ArenaAssumption

LEMMA SmallMod ==
    ASSUME NEW a \in Nat, NEW b \in Nat, a < b
    PROVE  a % b = a
OBVIOUS

-----------------------------------------------------------------------------
(* The inductive invariant.  BlocksDisjoint and BlocksInBounds survive a   *)
(* reset because nobody holds the lock shared then, and an allocation      *)
(* because every live block ends at or below the offset it starts from.    *)

Holds(r) == pc[r] \in {"load", "cas", "compute", "unlock"}

LockInv ==
    /\ sharedBy = {r \in Runners : Holds(r)}
    /\ \A t \in Threads : pc[t] \in {"reset", "release"} => exclusive = t
    /\ exclusive # NoThread => sharedBy = {}

RequestInv ==
    \A r \in Runners :
        /\ pc[r] \in {"lock", "load", "cas", "compute", "unlock"} => size[r] \in Sizes
        /\ current[r] <= ArenaCapacity

ArenaInv == TypeOK /\ LockInv /\ RequestInv /\ BlocksDisjoint /\ BlocksInBounds

(* A claim that passes the bounds check takes exactly the bytes from the   *)
(* aligned offset on, all of them below capacity_.                         *)
LEMMA ClaimFacts ==
    ASSUME ArenaInv, NEW r \in Runners, pc[r] = "cas"
    PROVE  /\ End(r) \in Nat
           /\ AlignUp(current[r]) \in Nat
           /\ current[r] <= AlignUp(current[r])
           /\ AlignUp(current[r]) % Alignment = 0
           /\ End(r) = AlignUp(current[r]) + size[r]
<1>1. current[r] \in Nat /\ current[r] <= ArenaCapacity /\ size[r] \in Sizes
  BY DEF ArenaInv, TypeOK, RequestInv
<1>2. size[r] \in Nat /\ ArenaCapacity + Alignment + size[r] < Word
  BY <1>1, ArenaAssumption, NoWrapAssumption
<1> DEFINE a == AlignUp(current[r])
<1>3. /\ a \in Nat /\ current[r] <= a
      /\ a < current[r] + Alignment /\ a % Alignment = 0
  BY <1>1, AlignUpFacts
<1> HIDE DEF a
<1>4. a + size[r] \in Nat /\ a + size[r] < Word
  BY <1>1, <1>2, <1>3, ArenaAssumption, NoWrapAssumption
<1>5. (a + size[r]) % Word = a + size[r]
  BY <1>4, SmallMod, NoWrapAssumption
<1>6. End(r) = a + size[r]
  BY <1>5 DEF End, a
<1> QED BY <1>3, <1>4, <1>6 DEF a

LEMMA InitInv == ArenaInit => ArenaInv
<1> SUFFICES ASSUME ArenaInit PROVE ArenaInv
  OBVIOUS
<1> USE DEF ArenaInit, Threads, Runners, RunPc, ResetPc
<1>1. orphanRan \in BOOLEAN
  BY Zenon
<1>2. TypeOK
  BY <1>1 DEF TypeOK
<1>3. LockInv /\ RequestInv /\ BlocksDisjoint /\ BlocksInBounds
  BY ArenaAssumption DEF LockInv, Holds, RequestInv, BlocksDisjoint, BlocksInBounds, Live
<1> QED BY <1>2, <1>3 DEF ArenaInv

LEMMA StepInv == ArenaInv /\ [ArenaNext]_arenaVars => ArenaInv'
<1> SUFFICES ASSUME ArenaInv, [ArenaNext]_arenaVars PROVE ArenaInv'
  OBVIOUS
<1>0. ASSUME NEW r \in Runners, AllocClaim(r)
      PROVE  /\ End(r) \in Nat /\ AlignUp(current[r]) \in Nat
             /\ current[r] <= AlignUp(current[r])
             /\ AlignUp(current[r]) % Alignment = 0
             /\ AlignUp(current[r]) <= End(r)
  <2>1. size[r] \in Nat
    BY <1>0, ArenaAssumption DEF ArenaInv, TypeOK, RequestInv, AllocClaim
  <2>2. pc[r] = "cas"
    BY <1>0 DEF AllocClaim
  <2>3. End(r) = AlignUp(current[r]) + size[r] /\ AlignUp(current[r]) \in Nat
    BY <2>2, ClaimFacts
  <2>4. AlignUp(current[r]) <= End(r)
    BY <2>1, <2>3
  <2> QED BY <2>2, <2>4, ClaimFacts
<1> USE DEF ArenaInv, TypeOK, LockInv, Holds, RequestInv, BlocksDisjoint,
            BlocksInBounds, Live, Threads, Runners, RunPc, ResetPc, arena, lock
<1>1. ASSUME NEW s \in Submitters, NEW ws \in SUBSET PoolThreads, StartWorkload(s, ws)
      PROVE  ArenaInv'
  BY <1>1, ThreadsAssumption, SMTT(60) DEF StartWorkload
<1>2. ASSUME NEW s \in Submitters, AllCounted(s) \/ Deadline(s)
      PROVE  ArenaInv'
  BY <1>2, ThreadsAssumption, SMTT(60) DEF AllCounted, Deadline
<1>3. ASSUME NEW h \in Handlers, OffloadArrives(h)
      PROVE  ArenaInv'
  BY <1>3, ThreadsAssumption, SMTT(60) DEF OffloadArrives
<1>4. ASSUME NEW r \in Runners, LockShared(r)
      PROVE  ArenaInv'
  BY <1>4, ThreadsAssumption, SMTT(60) DEF LockShared
<1>5. ASSUME NEW r \in Runners, AllocLoad(r) \/ AllocRetry(r)
      PROVE  ArenaInv'
  BY <1>5, ThreadsAssumption, SMTT(60) DEF AllocLoad, AllocRetry
<1>6. ASSUME NEW r \in Runners, AllocClaim(r)
      PROVE  ArenaInv'
  <2> DEFINE a == AlignUp(current[r])
             e == End(r)
  <2>1. /\ e \in Nat /\ a \in Nat /\ current[r] <= a
        /\ a % Alignment = 0 /\ a <= e
    BY <1>6, <1>0
  <2>2. /\ e <= ArenaCapacity /\ offset = current[r] /\ offset' = e /\ pc[r] = "cas"
        /\ lo' = [lo EXCEPT ![r] = a] /\ hi' = [hi EXCEPT ![r] = e]
        /\ pc' = [pc EXCEPT ![r] = "compute"]
        /\ UNCHANGED <<current, lock, size, owner, orphanRan>>
    BY <1>6 DEF AllocClaim
  <2> HIDE DEF a, e
  <2>3. TypeOK' /\ LockInv' /\ RequestInv'
    BY <2>1, <2>2
  <2>4. \A q \in Runners \ {r} :
           Live(q)' <=> Live(q) /\ lo'[q] = lo[q] /\ hi'[q] = hi[q]
    BY <2>2
  <2>5. lo'[r] = a /\ hi'[r] = e
    BY <2>2
  <2>6. BlocksInBounds'
    BY <2>1, <2>2, <2>5, ArenaAssumption
  <2>7. BlocksDisjoint'
    BY <2>1, <2>2, <2>5
  <2> QED BY <2>3, <2>6, <2>7
<1>7. ASSUME NEW r \in Runners, AllocFails(r) \/ Compute(r)
      PROVE  ArenaInv'
  BY <1>7, ThreadsAssumption, SMTT(60) DEF AllocFails, Compute
<1>8. ASSUME NEW r \in Runners, UnlockShared(r)
      PROVE  ArenaInv'
  <2>1. orphanRan' \in BOOLEAN
    BY <1>8, Zenon DEF UnlockShared
  <2>2. /\ pc[r] = "unlock" /\ sharedBy' = sharedBy \ {r}
        /\ pc' = [pc EXCEPT ![r] = IF r \in Handlers THEN "boundary" ELSE "idle"]
        /\ owner' = [w \in PoolThreads |-> IF w = r THEN NoThread ELSE owner[w]]
        /\ size' = [size EXCEPT ![r] = 0] /\ current' = [current EXCEPT ![r] = 0]
        /\ lo' = [lo EXCEPT ![r] = 0] /\ hi' = [hi EXCEPT ![r] = 0]
        /\ UNCHANGED <<offset, exclusive>>
    BY <1>8, Zenon DEF UnlockShared
  <2> QED BY <2>1, <2>2, ArenaAssumption, ThreadsAssumption, SMTT(60)
<1>9. ASSUME NEW t \in Handlers \cup Submitters, TryLock(t)
      PROVE  ArenaInv'
  BY <1>9, ThreadsAssumption, SMTT(60) DEF TryLock
<1>10. ASSUME NEW t \in Handlers \cup Submitters, Reset(t)
       PROVE  ArenaInv'
  <2>1. orphanRan' \in BOOLEAN
    BY <1>10, Zenon DEF Reset
  <2>2. /\ pc[t] = "reset" /\ offset' = 0
        /\ pc' = [pc EXCEPT ![t] = "release"]
        /\ UNCHANGED <<current, lo, hi, lock, size, owner>>
    BY <1>10, Zenon DEF Reset
  <2> QED BY <2>1, <2>2, ArenaAssumption, ThreadsAssumption, SMTT(60)
<1>11. ASSUME NEW t \in Handlers \cup Submitters, UnlockExclusive(t)
       PROVE  ArenaInv'
  BY <1>11, ThreadsAssumption, SMTT(60) DEF UnlockExclusive
<1>12. CASE UNCHANGED arenaVars
  BY <1>12 DEF arenaVars
<1> QED
  BY <1>1, <1>2, <1>3, <1>4, <1>5, <1>6, <1>7, <1>8, <1>9, <1>10, <1>11, <1>12
     DEF ArenaNext, RunTask, TryReset

(* The variables keep their types in every execution. *)
THEOREM TypeCorrect == ArenaSpec => []TypeOK
<1>1. ArenaInv => TypeOK
  BY DEF ArenaInv
<1> QED BY InitInv, StepInv, <1>1, PTL DEF ArenaSpec

(* No two running tasks share a byte of the arena (allocate() against      *)
(* allocate() and against reset()).                                        *)
THEOREM DisjointBlocks == ArenaSpec => []BlocksDisjoint
<1>1. ArenaInv => BlocksDisjoint
  BY DEF ArenaInv
<1> QED BY InitInv, StepInv, <1>1, PTL DEF ArenaSpec

(* Every running task's block is aligned and inside the arena, and the     *)
(* offset never passes capacity_.                                          *)
THEOREM BoundedBlocks == ArenaSpec => []BlocksInBounds
<1>1. ArenaInv => BlocksInBounds
  BY DEF ArenaInv
<1> QED BY InitInv, StepInv, <1>1, PTL DEF ArenaSpec

(* try_reset_arena never takes memory from under a running task: only      *)
(* Reset lowers the offset, and its thread holds the lock exclusively.     *)
THEOREM SafeReset == ArenaSpec => ResetOnlyWhenQuiescent
<1>1. ArenaInv /\ [ArenaNext]_arenaVars => [offset' < offset => \A r \in Runners : ~Live(r)]_arenaVars
  <2> SUFFICES ASSUME ArenaInv, [ArenaNext]_arenaVars, offset' < offset
               PROVE  \A r \in Runners : ~Live(r)
    OBVIOUS
  <2>1. offset \in Nat
    BY DEF ArenaInv, TypeOK
  <2>2. PICK t \in Handlers \cup Submitters : Reset(t)
    <3>1. ASSUME NEW r \in Runners, AllocClaim(r) PROVE offset <= offset'
      <4>1. size[r] \in Nat
        BY <3>1, ArenaAssumption DEF ArenaInv, RequestInv, AllocClaim
      <4>2. pc[r] = "cas" /\ offset = current[r] /\ offset' = End(r)
        BY <3>1 DEF AllocClaim
      <4>3. /\ End(r) = AlignUp(current[r]) + size[r]
            /\ AlignUp(current[r]) \in Nat /\ current[r] <= AlignUp(current[r])
        BY <4>2, ClaimFacts
      <4> QED BY <4>1, <4>2, <4>3, <2>1
    <3>2. CASE UNCHANGED arenaVars
      BY <3>2, <2>1 DEF arenaVars
    <3>3. ASSUME NEW s \in Submitters, NEW ws \in SUBSET PoolThreads,
                 StartWorkload(s, ws) \/ AllCounted(s) \/ Deadline(s)
          PROVE  offset' = offset
      BY <3>3, Zenon DEF StartWorkload, AllCounted, Deadline, arena
    <3>4. ASSUME NEW h \in Handlers, OffloadArrives(h) PROVE offset' = offset
      BY <3>4, Zenon DEF OffloadArrives, arena
    <3>5. ASSUME NEW r \in Runners, RunTask(r), ~AllocClaim(r) PROVE offset' = offset
      BY <3>5, Zenon DEF RunTask, LockShared, AllocLoad, AllocRetry, AllocFails,
                         Compute, UnlockShared, arena
    <3>6. ASSUME NEW t \in Handlers \cup Submitters, TryReset(t), ~Reset(t)
          PROVE  offset' = offset
      BY <3>6, Zenon DEF TryReset, TryLock, UnlockExclusive, arena
    <3>7. offset' # offset /\ ~(offset <= offset')
      <4>1. offset' \in Nat
        BY StepInv DEF ArenaInv, TypeOK
      <4> QED BY <2>1, <4>1
    <3> QED BY <3>1, <3>2, <3>3, <3>4, <3>5, <3>6, <3>7, Zenon DEF ArenaNext
  <2>3. sharedBy = {}
    BY <2>2, ThreadsAssumption DEF ArenaInv, LockInv, Reset, Threads, Runners
  <2> QED BY <2>3 DEF ArenaInv, LockInv, Holds, Live
<1> QED BY InitInv, StepInv, <1>1, PTL DEF ArenaSpec, ResetOnlyWhenQuiescent

-----------------------------------------------------------------------------
(* A boundary that finds the arena in use is caught up on.  Whoever leaves *)
(* the arena last has somebody behind it who will try to reset: itself     *)
(* after a peer's task, the submitter that waits for the worker's task, or *)
(* nobody, and then the task was an orphan.                                *)

OwnersWait == \A w \in PoolThreads : owner[w] # NoThread => pc[owner[w]] = "waiting"

LockedByResetter == exclusive # NoThread => pc[exclusive] \in {"reset", "release"}

EmptyAfterReset == \A t \in Threads : pc[t] = "release" => offset = 0

CatchUp == OwnersWait /\ LockedByResetter /\ EmptyAfterReset /\ QuiescentArenaEmpty

LEMMA CatchUpStep == ArenaInv /\ CatchUp /\ [ArenaNext]_arenaVars => CatchUp'
<1> SUFFICES ASSUME ArenaInv, CatchUp, [ArenaNext]_arenaVars PROVE CatchUp'
  OBVIOUS
<1>0. /\ pc \in [Threads -> RunPc \cup ResetPc \cup {"waiting"}]
      /\ owner \in [PoolThreads -> Submitters \cup {NoThread}]
      /\ exclusive \in Threads \cup {NoThread}
  BY DEF ArenaInv, TypeOK
<1> USE ThreadsAssumption DEF CatchUp, OwnersWait, LockedByResetter, EmptyAfterReset,
        QuiescentArenaEmpty, Threads, Runners, arena, lock
<1>1. ASSUME NEW s \in Submitters, NEW ws \in SUBSET PoolThreads, StartWorkload(s, ws)
      PROVE  CatchUp'
  BY <1>0, <1>1 DEF StartWorkload
<1>2. ASSUME NEW s \in Submitters, AllCounted(s)
      PROVE  CatchUp'
  BY <1>0, <1>2 DEF AllCounted
<1>3. ASSUME NEW s \in Submitters, Deadline(s)
      PROVE  CatchUp'
  BY <1>0, <1>3 DEF Deadline
<1>4. ASSUME NEW h \in Handlers, OffloadArrives(h)
      PROVE  CatchUp'
  BY <1>0, <1>4 DEF OffloadArrives
<1>5. ASSUME NEW r \in Runners,
             LockShared(r) \/ AllocLoad(r) \/ AllocRetry(r) \/ AllocFails(r) \/ Compute(r)
      PROVE  CatchUp'
  <2>1. /\ pc[r] \in {"lock", "load", "cas", "compute"}
        /\ pc' = pc \/ pc' \in {[pc EXCEPT ![r] = l] : l \in {"load", "cas", "unlock"}}
        /\ UNCHANGED <<offset, exclusive, owner, orphanRan>>
    BY <1>5 DEF LockShared, AllocLoad, AllocRetry, AllocFails, Compute
  <2> QED BY <1>0, <2>1
<1>6. ASSUME NEW r \in Runners, AllocClaim(r)
      PROVE  CatchUp'
  <2>1. exclusive = NoThread /\ \A t \in Threads : pc[t] # "release"
    BY <1>6 DEF AllocClaim, ArenaInv, LockInv, Holds
  <2>2. /\ pc[r] = "cas" /\ pc' = [pc EXCEPT ![r] = "compute"]
        /\ UNCHANGED <<exclusive, owner, orphanRan>>
    BY <1>6 DEF AllocClaim
  <2> QED BY <1>0, <2>1, <2>2
<1>7. ASSUME NEW r \in Runners, UnlockShared(r)
      PROVE  CatchUp'
  <2>1. /\ pc[r] = "unlock"
        /\ pc' = [pc EXCEPT ![r] = IF r \in Handlers THEN "boundary" ELSE "idle"]
        /\ owner' = [w \in PoolThreads |-> IF w = r THEN NoThread ELSE owner[w]]
        /\ UNCHANGED <<offset, exclusive>>
    BY <1>7, Zenon DEF UnlockShared
  <2>2. OwnersWait' /\ LockedByResetter' /\ EmptyAfterReset'
    BY <1>0, <2>1
  <2>3. CASE r \in Handlers
    <3>1. pc'[r] = "boundary"
      BY <1>0, <2>1, <2>3
    <3> QED BY <2>2, <3>1
  <2>4. CASE r \in PoolThreads /\ owner[r] = NoThread
    <3>1. orphanRan'
      BY <1>7, <2>4, Zenon DEF UnlockShared
    <3> QED BY <2>2, <3>1
  <2>5. CASE r \in PoolThreads /\ owner[r] # NoThread
    <3>1. owner[r] \in Threads /\ pc'[owner[r]] = "waiting"
      BY <1>0, <2>1, <2>5
    <3> QED BY <2>2, <3>1
  <2> QED BY <2>3, <2>4, <2>5
<1>8. ASSUME NEW t \in Handlers \cup Submitters, TryLock(t)
      PROVE  CatchUp'
  <2>1. pc[t] = "boundary" /\ UNCHANGED <<offset, owner, orphanRan>>
    BY <1>8 DEF TryLock
  <2>2. CASE exclusive' = t /\ pc' = [pc EXCEPT ![t] = "reset"]
    BY <1>0, <2>1, <2>2
  <2>3. CASE /\ sharedBy # {} \/ exclusive # NoThread
             /\ exclusive' = exclusive /\ pc' = [pc EXCEPT ![t] = "idle"]
    <3>1. OwnersWait' /\ LockedByResetter' /\ EmptyAfterReset'
      BY <1>0, <2>1, <2>3
    <3>2. PICK u \in Threads : pc[u] \notin {"idle", "boundary"}
      BY <1>0, <2>3 DEF ArenaInv, LockInv, Holds
    <3>3. pc'[u] # "idle"
      BY <1>0, <2>1, <2>3, <3>2
    <3> QED BY <3>1, <3>3
  <2> QED BY <1>8, <2>2, <2>3 DEF TryLock
<1>9. ASSUME NEW t \in Handlers \cup Submitters, Reset(t)
      PROVE  CatchUp'
  <2>1. /\ pc[t] = "reset" /\ pc' = [pc EXCEPT ![t] = "release"] /\ offset' = 0
        /\ UNCHANGED <<exclusive, owner>>
    BY <1>9, Zenon DEF Reset
  <2> QED BY <1>0, <2>1
<1>10. ASSUME NEW t \in Handlers \cup Submitters, UnlockExclusive(t)
       PROVE  CatchUp'
  BY <1>0, <1>10 DEF UnlockExclusive
<1>11. CASE UNCHANGED arenaVars
  BY <1>11 DEF arenaVars
<1> QED
  BY <1>1, <1>2, <1>3, <1>4, <1>5, <1>6, <1>7, <1>8, <1>9, <1>10, <1>11
     DEF ArenaNext, RunTask, TryReset

(* No deferred reset is forgotten, however run_task, try_reset_arena and   *)
(* the deadlines of submissions interleave: once every thread is idle the  *)
(* arena is empty, unless a task that outlived its deadline ran last.      *)
THEOREM NoForgottenReset == ArenaSpec => []QuiescentArenaEmpty
<1>1. ArenaInit => CatchUp
  BY ThreadsAssumption DEF ArenaInit, CatchUp, OwnersWait, LockedByResetter, EmptyAfterReset,
                           QuiescentArenaEmpty, Threads, Runners
<1>2. CatchUp => QuiescentArenaEmpty
  BY DEF CatchUp
<1> QED BY InitInv, StepInv, CatchUpStep, <1>1, <1>2, PTL DEF ArenaSpec
=============================================================================
