------------------------ MODULE OrchestratorProofs ------------------------
(***************************************************************************)
(* Lifetimes in the Orchestrator, for any number of starts and any         *)
(* environment: which threads can meet a destroyed member.                 *)
(***************************************************************************)
EXTENDS Orchestrator, FiniteSetTheorems, TLAPS

Tearing == {"metrics", "resource", "handler", "server", "peers", "discovery", "arena",
            "thread_pool", "latest", "monitor", "destroyed"}

Starting == {"prime", "spawn", "replace", "serve", "discover", "rejoin", "feed"}

(* The owner is at one of these points, or between start() and stop(). *)
UpOr(points) == pc \in points \/ (pc = "idle" /\ running)

Shape ==
    /\ running \in BOOLEAN
    /\ listening \in Places /\ current \in Places
    /\ DOMAIN discovery = Places /\ DOMAIN sampler = Places
    /\ \A p \in Places :
          /\ {"at", "stop"} \subseteq DOMAIN discovery[p] /\ discovery[p].stop \in BOOLEAN
          /\ {"at", "stop"} \subseteq DOMAIN sampler[p] /\ sampler[p].stop \in BOOLEAN
    /\ {"at", "stop"} \subseteq DOMAIN resource
    /\ gone # {} => pc \in Tearing
    /\ pc \in Starting => running

(* The resource thread lives from the end of start() to the join in stop(). *)
ResourceInv == Alive(resource) => UpOr({"join_resource"})

(* A discovery thread that was not asked to stop is the one that           *)
(* discovery_ holds, and stop() has not come to it yet.                    *)
DiscoveryInv ==
    \A p \in Places : Alive(discovery[p]) /\ ~ discovery[p].stop =>
        p = listening /\ UpOr({"rejoin", "feed", "join_resource"})

SamplerInv ==
    \A p \in Places : Alive(sampler[p]) /\ ~ sampler[p].stop =>
        /\ p = current
        /\ UpOr({"replace", "serve", "discover", "rejoin", "feed", "join_resource",
                 "stop_serving", "await_handlers", "stop_monitor"})

(* A connection without a reactor is one that stop_serving gave up on. *)
HandlerInv ==
    /\ serving \in BOOLEAN /\ replaced \in BOOLEAN /\ late \in BOOLEAN
    /\ serving => UpOr({"discover", "rejoin", "feed", "join_resource", "stop_serving"})
    /\ handler # "none" /\ ~ serving /\ pc # "await_handlers" => late
    /\ replaced => late /\ handler # "none"

(* A task that is not done has its submission waiting, or is an orphan. *)
TaskInv == task \in {"queued", "running"} => orphan \/ handler = "waiting"

IInv == Shape /\ ResourceInv /\ DiscoveryInv /\ SamplerInv /\ HandlerInv /\ TaskInv

-----------------------------------------------------------------------------
LEMMA LateUsers == IInv => OnlyLateUsers
<1> SUFFICES ASSUME IInv PROVE OnlyLateUsers
  OBVIOUS
<1>1. CASE gone = {}
  BY <1>1 DEF OnlyLateUsers, IInv, HandlerInv
<1>2. CASE gone # {}
  <2>1. pc \in Tearing
    BY <1>2 DEF IInv, Shape
  <2>2. ~ Alive(resource) /\ ~ serving /\ (handler # "none" => late)
    BY <2>1 DEF IInv, ResourceInv, HandlerInv, UpOr, Tearing
  <2>3. /\ \A p \in Places : Alive(discovery[p]) => discovery[p].stop
        /\ \A p \in Places : Alive(sampler[p]) => sampler[p].stop
    BY <2>1 DEF IInv, DiscoveryInv, SamplerInv, UpOr, Tearing
  <2>4. task = "running" => orphan \/ late
    BY <2>2 DEF IInv, TaskInv
  <2>5. DOMAIN Uses = {"sampler", "resource", "discovery", "handler", "task"}
    BY DEF Uses
  <2>6. Uses["resource"] = {}
    BY <2>2 DEF Uses
  <2>7. Uses["handler"] # {} => late
    BY <2>2 DEF Uses
  <2>8. Uses["task"] # {} => orphan \/ late
    BY <2>4 DEF Uses
  <2>9. replaced => late
    BY DEF IInv, HandlerInv
  <2> QED BY <2>3, <2>5, <2>6, <2>7, <2>8, <2>9 DEF OnlyLateUsers
<1> QED BY <1>1, <1>2

LEMMA LifeInit == Init => IInv
<1> SUFFICES ASSUME Init PROVE IInv
  OBVIOUS
<1> USE DEF Init, MonitorInit, NoThread, NoLoop, NoResource, Places, Alive
<1>1. Shape
  BY DEF Shape, Starting
<1>2. ResourceInv /\ DiscoveryInv /\ SamplerInv /\ HandlerInv /\ TaskInv
  BY DEF ResourceInv, DiscoveryInv, SamplerInv, HandlerInv, TaskInv
<1> QED BY <1>1, <1>2 DEF IInv

(* The destructor after stop(): it only moves on and takes members away. *)
LEMMA DestroyStep ==
    ASSUME NEW i \in 1 .. Len(Teardown) - 1, Destroy(i)
    PROVE  /\ pc \in Tearing /\ pc' \in Tearing
           /\ UNCHANGED <<monitorVars, running, resourceVars, discoveryVars, serverVars, taskVars>>
<1>1. Len(Teardown) = 11
  BY DEF Teardown
<1>2. \A j \in 1 .. 11 : Teardown[j].at \in Tearing
  BY DEF Teardown, Tearing
<1>3. i \in 1 .. 11 /\ i + 1 \in 1 .. 11
  BY <1>1
<1> QED BY <1>2, <1>3 DEF Destroy

(* start() *)
LEMMA StartPreserves ==
    ASSUME IInv, Start \/ StartMonitor \/ StartServer \/ StartDiscovery \/ StartResourceThread
    PROVE  IInv'
<1> USE DEF IInv, monitorVars, resourceVars, discoveryVars, serverVars, taskVars
<1>1. CASE Start
  BY <1>1 DEF Start, Shape, Tearing, Starting, ResourceInv, DiscoveryInv, SamplerInv, HandlerInv,
              TaskInv, UpOr
<1>2. CASE StartMonitor
  <2>1. UNCHANGED <<running, gone, resource, discovery, listening, serving, handler, replaced,
                    late, task, orphan>>
    BY <1>2 DEF StartMonitor
  <2>2. ResourceInv' /\ DiscoveryInv' /\ HandlerInv' /\ TaskInv'
    BY <1>2, <2>1 DEF StartMonitor, ResourceInv, DiscoveryInv, HandlerInv, TaskInv, UpOr
  <2>3. CASE pc = "spawn" /\ pc' = "replace" /\ SpawnSampler
    <3> DEFINE q == 1 - current
    <3>1. current \in {0, 1} /\ q \in {0, 1} /\ q # current
      BY DEF Shape, Places
    <3>2. /\ sampler'[q] = NewThread /\ current' = q /\ DOMAIN sampler' = Places
          /\ sampler'[current] = [sampler[current] EXCEPT !.stop = Alive(sampler[current])]
      BY <2>3, <3>1 DEF SpawnSampler, Shape, Places
    <3>3. /\ sampler'[current].at = sampler[current].at
          /\ sampler'[current].stop = Alive(sampler[current])
          /\ {"at", "stop"} \subseteq DOMAIN sampler'[current]
      BY <3>1, <3>2 DEF Shape, Places
    <3>4. {"at", "stop"} \subseteq DOMAIN sampler'[q] /\ sampler'[q].stop = FALSE
      BY <3>2 DEF NewThread, NoThread
    <3> HIDE DEF q
    <3>5. Shape'
      <4>1. sampler'[current].stop \in BOOLEAN /\ sampler'[q].stop \in BOOLEAN
        BY <3>3, <3>4 DEF Alive
      <4>2. \A p \in Places : {"at", "stop"} \subseteq DOMAIN sampler'[p] /\ sampler'[p].stop \in BOOLEAN
        BY <3>1, <3>3, <3>4, <4>1 DEF Places
      <4>3. current' \in Places /\ DOMAIN sampler' = Places
        BY <3>1, <3>2 DEF Places
      <4> QED BY <2>1, <2>3, <4>2, <4>3 DEF Shape, Tearing, Starting
    <3>6. SamplerInv'
      BY <2>3, <3>1, <3>2, <3>3 DEF SamplerInv, Places, Alive, UpOr
    <3> QED BY <2>2, <3>5, <3>6
  <2>4. CASE UNCHANGED <<sampler, current>>
    <3>0. pc \in Starting /\ pc' \in Starting
      BY <1>2 DEF StartMonitor, Starting
    <3>1. Shape'
      BY <2>1, <2>4, <3>0 DEF Shape, Tearing, Starting
    <3>2. SamplerInv'
      BY <1>2, <2>1, <2>4 DEF StartMonitor, SamplerInv, UpOr
    <3> QED BY <2>2, <3>1, <3>2
  <2> QED BY <1>2, <2>3, <2>4 DEF StartMonitor, Prime
<1>3. CASE StartServer
  <2>1. /\ pc = "serve" /\ pc' = "discover"
        /\ UNCHANGED <<running, gone, sampler, current, resource, discovery, listening,
                        handler, late, task, orphan>>
    BY <1>3 DEF StartServer
  <2>2. Shape' /\ ResourceInv' /\ DiscoveryInv' /\ SamplerInv' /\ TaskInv'
    BY <2>1 DEF Shape, Tearing, Starting, ResourceInv, DiscoveryInv, SamplerInv, TaskInv, UpOr
  <2>3. /\ ~ serving /\ (handler # "none" => late)
        /\ replaced' = (handler # "none") \/ (replaced' = replaced /\ serving' = serving)
    BY <1>3 DEF StartServer, HandlerInv, UpOr
  <2>4. HandlerInv'
    <3>1. CASE UNCHANGED <<serving, replaced>>
      BY <2>1, <2>3, <3>1 DEF HandlerInv, UpOr
    <3>2. CASE serving' = TRUE /\ replaced' = TRUE /\ handler # "none"
      BY <2>1, <2>3, <3>2 DEF HandlerInv, UpOr
    <3>3. CASE serving' = TRUE /\ replaced' = FALSE
      BY <2>1, <2>3, <3>3 DEF HandlerInv, UpOr
    <3> QED BY <1>3, <3>1, <3>2, <3>3 DEF StartServer
  <2> QED BY <2>2, <2>4
<1>4. CASE StartDiscovery
  <2>1. UNCHANGED <<running, gone, resource, sampler, current, serving, handler, replaced,
                    late, task, orphan>>
    BY <1>4 DEF StartDiscovery
  <2>2. ResourceInv' /\ SamplerInv' /\ HandlerInv' /\ TaskInv'
    BY <1>4, <2>1 DEF StartDiscovery, ResourceInv, SamplerInv, HandlerInv, TaskInv, UpOr
  <2>3. CASE UNCHANGED discoveryVars
    <3>1. Shape'
      BY <1>4, <2>1, <2>3 DEF StartDiscovery, Shape, Tearing, Starting
    <3>2. DiscoveryInv'
      BY <1>4, <2>1, <2>3 DEF StartDiscovery, DiscoveryInv, UpOr
    <3> QED BY <2>2, <3>1, <3>2
  <2>4. CASE /\ pc = "discover" /\ pc' = "rejoin" /\ listening' = 1 - listening
             /\ discovery' = [discovery EXCEPT ![1 - listening] = NewLoop,
                                               ![listening].stop = Alive(discovery[listening])]
    <3> DEFINE q == 1 - listening
    <3>1. listening \in {0, 1} /\ q \in {0, 1} /\ q # listening
      BY DEF Shape, Places
    <3>2. /\ discovery'[q] = NewLoop /\ listening' = q /\ DOMAIN discovery' = Places
          /\ discovery'[listening] =
                [discovery[listening] EXCEPT !.stop = Alive(discovery[listening])]
      BY <2>4, <3>1 DEF Shape, Places
    <3>3. /\ discovery'[listening].at = discovery[listening].at
          /\ discovery'[listening].stop = Alive(discovery[listening])
          /\ {"at", "stop"} \subseteq DOMAIN discovery'[listening]
      BY <3>1, <3>2 DEF Shape, Places
    <3>4. {"at", "stop"} \subseteq DOMAIN discovery'[q] /\ discovery'[q].stop = FALSE
      BY <3>2 DEF NewLoop
    <3> HIDE DEF q
    <3>5. Shape'
      BY <2>1, <2>4, <3>1, <3>2, <3>3, <3>4 DEF Shape, Places, Alive, Tearing, Starting
    <3>6. DiscoveryInv'
      BY <2>4, <3>1, <3>2, <3>3 DEF DiscoveryInv, Places, Alive, UpOr
    <3> QED BY <2>2, <3>5, <3>6
  <2> QED BY <1>4, <2>3, <2>4 DEF StartDiscovery
<1>5. CASE StartResourceThread
  <2>1. running
    BY <1>5 DEF StartResourceThread, Shape, Starting
  <2> QED BY <1>5, <2>1 DEF StartResourceThread, NoResource, Shape, Tearing, Starting, ResourceInv,
                            DiscoveryInv, SamplerInv, HandlerInv, TaskInv, UpOr
<1> QED BY <1>1, <1>2, <1>3, <1>4, <1>5

(* stop() and the destructor *)
LEMMA StopPreserves ==
    ASSUME IInv,
           \/ Stop \/ DestroyStopped \/ StopDiscovery \/ StopReactor \/ AwaitHandlers \/ StopMonitor
           \/ \E i \in 1 .. Len(Teardown) - 1 : Destroy(i)
    PROVE  IInv'
<1> USE DEF IInv, monitorVars, resourceVars, discoveryVars, serverVars, taskVars
<1>1. CASE Stop
  BY <1>1 DEF Stop, Shape, Tearing, Starting, Alive, ResourceInv, DiscoveryInv, SamplerInv, HandlerInv, TaskInv, UpOr
<1>2. CASE DestroyStopped
  BY <1>2 DEF DestroyStopped, Shape, Tearing, Starting, ResourceInv, DiscoveryInv, SamplerInv, HandlerInv,
              TaskInv, UpOr
<1>3. CASE StopDiscovery
  <2>1. /\ listening \in Places /\ DOMAIN discovery' = Places
        /\ \A p \in Places : p # listening => discovery'[p] = discovery[p]
        /\ discovery'[listening].at = discovery[listening].at
        /\ discovery'[listening].stop = Alive(discovery[listening])
        /\ {"at", "stop"} \subseteq DOMAIN discovery'[listening]
    BY <1>3 DEF StopDiscovery, Shape
  <2>2. Shape'
    BY <1>3, <2>1 DEF StopDiscovery, Shape, Tearing, Starting, Alive
  <2>3. DiscoveryInv'
    BY <1>3, <2>1 DEF StopDiscovery, DiscoveryInv, Alive, UpOr
  <2> QED BY <1>3, <2>2, <2>3 DEF StopDiscovery, ResourceInv, SamplerInv, HandlerInv, TaskInv, UpOr
<1>4. CASE StopReactor \/ AwaitHandlers
  <2>1. /\ pc \in {"stop_serving", "await_handlers"} /\ pc' \in {"await_handlers", "stop_monitor"}
        /\ UNCHANGED <<running, gone, sampler, current, resource, discovery, listening,
                        handler, replaced, task, orphan>>
    BY <1>4 DEF StopReactor, AwaitHandlers
  <2>2. Shape' /\ ResourceInv' /\ DiscoveryInv' /\ SamplerInv' /\ TaskInv'
    BY <2>1 DEF Shape, Tearing, Starting, ResourceInv, DiscoveryInv, SamplerInv, TaskInv, UpOr
  <2>3. ASSUME StopReactor PROVE HandlerInv'
    <3>1. serving' = FALSE /\ late' = late /\ pc' = "await_handlers"
      BY <2>3 DEF StopReactor
    <3> QED BY <2>1, <3>1 DEF HandlerInv, UpOr
  <2>4. ASSUME AwaitHandlers PROVE HandlerInv'
    <3>1. ~ serving' /\ serving' = serving /\ pc' = "stop_monitor"
      BY <2>4 DEF AwaitHandlers, HandlerInv, UpOr
    <3>2. CASE handler # "none"
      <4>1. late' = TRUE
        BY <2>4, <3>2 DEF AwaitHandlers
      <4> QED BY <2>1, <3>1, <4>1 DEF HandlerInv
    <3>3. CASE handler = "none"
      <4>1. late' = FALSE
        BY <2>4, <3>3 DEF AwaitHandlers
      <4> QED BY <2>1, <3>1, <3>3, <4>1 DEF HandlerInv
    <3> QED BY <3>2, <3>3
  <2> QED BY <1>4, <2>2, <2>3, <2>4
<1>5. CASE StopMonitor
  <2>1. /\ current \in Places /\ current' = current /\ DOMAIN sampler' = Places
        /\ \A p \in Places : p # current => sampler'[p] = sampler[p]
        /\ sampler'[current].at = sampler[current].at
        /\ sampler'[current].stop = Alive(sampler[current])
        /\ {"at", "stop"} \subseteq DOMAIN sampler'[current]
    BY <1>5 DEF StopMonitor, RequestSamplerStop, Shape
  <2>2. Shape'
    BY <1>5, <2>1 DEF StopMonitor, Shape, Tearing, Starting, Alive
  <2>3. SamplerInv'
    BY <1>5, <2>1 DEF StopMonitor, SamplerInv, Alive, UpOr
  <2> QED BY <1>5, <2>2, <2>3 DEF StopMonitor, ResourceInv, DiscoveryInv, HandlerInv, TaskInv, UpOr
<1>6. CASE \E i \in 1 .. Len(Teardown) - 1 : Destroy(i)
  <2>1. /\ pc \in Tearing /\ pc' \in Tearing
        /\ UNCHANGED <<monitorVars, running, resourceVars, discoveryVars, serverVars, taskVars>>
    BY <1>6, DestroyStep
  <2> QED BY <2>1 DEF Shape, Tearing, Starting, ResourceInv, DiscoveryInv, SamplerInv, HandlerInv, TaskInv, UpOr
<1> QED BY <1>1, <1>2, <1>3, <1>4, <1>5, <1>6

(* The threads the members own *)
LEMMA ThreadsPreserve ==
    ASSUME IInv, UNCHANGED lifeVars,
           \/ ResourceStep \/ \E p \in Places : DiscoveryRound(p)
           \/ /\ Jiffy \/ \E p \in Places : SamplerStep(p)
              /\ UNCHANGED <<resourceVars, discoveryVars, serverVars, taskVars>>
           \/ \E kind \in {"offload", "submission"} : HandleMessage(kind)
           \/ SubmitTask \/ HandlerReturns \/ RunTask
    PROVE  IInv'
<1> USE DEF IInv, lifeVars, monitorVars, resourceVars, discoveryVars, serverVars, taskVars
<1>1. CASE ResourceStep
  <2>1. /\ UNCHANGED <<monitorVars, discoveryVars, serverVars, taskVars>>
        /\ Alive(resource)
    BY <1>1 DEF ResourceStep, ResourceRead, ResourceUpdate, Alive
  <2>2. {"at", "stop"} \subseteq DOMAIN resource'
    <3>1. \/ resource' \in {NoResource, resource}
          \/ resource' = [resource EXCEPT !.at = "update", !.cpu = <<latest[1].cpu>>]
          \/ resource' = [resource EXCEPT !.at = "check", !.cpu = <<>>]
      BY <1>1 DEF ResourceStep, ResourceRead, ResourceUpdate
    <3>2. {"at", "stop"} \subseteq DOMAIN NoResource /\ {"at", "stop"} \subseteq DOMAIN resource
      BY DEF NoResource, Shape
    <3> QED BY <3>1, <3>2
  <2>3. Shape'
    BY <2>1, <2>2 DEF Shape
  <2> QED BY <2>1, <2>3 DEF ResourceInv, DiscoveryInv, SamplerInv, HandlerInv, TaskInv, UpOr
<1>2. CASE \E p \in Places : DiscoveryRound(p)
  <2> PICK p \in Places : DiscoveryRound(p)
    BY <1>2
  <2>1. /\ DOMAIN discovery' = Places /\ discovery[p].at # "none"
        /\ \A q \in Places : q # p => discovery'[q] = discovery[q]
        /\ {"at", "stop"} \subseteq DOMAIN discovery'[p] /\ discovery'[p].stop \in BOOLEAN
        /\ discovery'[p].at = "none" \/ discovery'[p].stop = discovery[p].stop
    <3>1. CASE discovery[p].at = "check" /\ discovery[p].stop
      <4>1. discovery' = [discovery EXCEPT ![p] = NoLoop]
        BY <3>1 DEF DiscoveryRound
      <4> QED BY <3>1, <4>1 DEF Shape, NoLoop
    <3>2. CASE discovery[p].at = "check" /\ ~ discovery[p].stop
      <4>1. discovery' = [discovery EXCEPT ![p] = [discovery[p] EXCEPT !.at = "round"]]
        BY <3>2 DEF DiscoveryRound
      <4> QED BY <3>2, <4>1 DEF Shape
    <3>3. CASE discovery[p].at = "round"
      BY <3>3 DEF DiscoveryRound, Shape
    <3> QED BY <3>1, <3>2, <3>3 DEF DiscoveryRound
  <2>2. UNCHANGED <<monitorVars, resourceVars, listening, serverVars, taskVars>>
    BY DEF DiscoveryRound
  <2>3. Shape'
    BY <2>1, <2>2 DEF Shape
  <2>4. DiscoveryInv'
    BY <2>1, <2>2 DEF DiscoveryInv, Alive, UpOr
  <2> QED BY <2>2, <2>3, <2>4 DEF ResourceInv, SamplerInv, HandlerInv, TaskInv, UpOr
<1>3. CASE Jiffy /\ UNCHANGED <<resourceVars, discoveryVars, serverVars, taskVars>>
  BY <1>3 DEF Jiffy, Shape, ResourceInv, DiscoveryInv, SamplerInv, HandlerInv, TaskInv, UpOr
<1>4. CASE /\ \E p \in Places : SamplerStep(p)
           /\ UNCHANGED <<resourceVars, discoveryVars, serverVars, taskVars>>
  <2> PICK p \in Places : SamplerStep(p)
    BY <1>4
  <2>1. /\ DOMAIN sampler' = Places /\ sampler[p].at # "none" /\ current' = current
        /\ \A q \in Places : q # p => sampler'[q] = sampler[q]
        /\ {"at", "stop"} \subseteq DOMAIN sampler'[p] /\ sampler'[p].stop \in BOOLEAN
        /\ sampler'[p].at = "none" \/ sampler'[p].stop = sampler[p].stop
    <3>1. CASE SamplerTest(p)
      BY <3>1 DEF SamplerTest, Shape, NoThread
    <3>2. CASE ComputeSample(p)
      BY <3>2 DEF ComputeSample, Shape
    <3>3. CASE SampleWithoutStat(p)
      BY <3>3 DEF SampleWithoutStat, Shape
    <3>4. CASE Publish(p)
      BY <3>4 DEF Publish, Shape
    <3> QED BY <3>1, <3>2, <3>3, <3>4 DEF SamplerStep
  <2>2. Shape'
    BY <1>4, <2>1 DEF Shape
  <2>3. SamplerInv'
    BY <1>4, <2>1 DEF SamplerInv, Alive, UpOr
  <2> QED BY <1>4, <2>2, <2>3 DEF ResourceInv, DiscoveryInv, HandlerInv, TaskInv, UpOr
<1>5. CASE \/ \E kind \in {"offload", "submission"} : HandleMessage(kind)
           \/ SubmitTask \/ HandlerReturns \/ RunTask
  <2>1. UNCHANGED <<monitorVars, resourceVars, discoveryVars, serving>>
    BY <1>5 DEF HandleMessage, SubmitTask, HandlerReturns, RunTask
  <2>2. Shape' /\ ResourceInv' /\ DiscoveryInv' /\ SamplerInv'
    BY <2>1 DEF Shape, ResourceInv, DiscoveryInv, SamplerInv, UpOr
  <2>3. HandlerInv'
    <3>1. CASE \E kind \in {"offload", "submission"} : HandleMessage(kind)
      <4>1. serving /\ handler = "none" /\ UNCHANGED <<pc, running, replaced, late>>
        BY <3>1 DEF HandleMessage
      <4> QED BY <2>1, <4>1 DEF HandlerInv, UpOr
    <3>2. CASE SubmitTask
      <4>1. /\ handler # "none" /\ handler' # "none"
            /\ UNCHANGED <<pc, running, replaced, late>>
        BY <3>2 DEF SubmitTask
      <4> QED BY <2>1, <4>1 DEF HandlerInv, UpOr
    <3>3. CASE HandlerReturns
      <4>1. /\ handler' = "none" /\ replaced' = FALSE /\ late' = FALSE
            /\ UNCHANGED <<pc, running>>
        BY <3>3 DEF HandlerReturns
      <4>2. serving' => UpOr({"discover", "rejoin", "feed", "join_resource", "stop_serving"})'
        BY <2>1, <4>1 DEF HandlerInv, UpOr
      <4>3. ~ replaced' /\ replaced' \in BOOLEAN /\ late' \in BOOLEAN /\ serving' \in BOOLEAN
        BY <2>1, <4>1 DEF HandlerInv
      <4> QED BY <4>1, <4>2, <4>3 DEF HandlerInv
    <3>4. CASE RunTask
      <4>1. UNCHANGED <<pc, running, handler, replaced, late>>
        BY <3>4 DEF RunTask
      <4> QED BY <2>1, <4>1 DEF HandlerInv, UpOr
    <3> QED BY <1>5, <3>1, <3>2, <3>3, <3>4
  <2>4. TaskInv'
    BY <1>5 DEF HandleMessage, SubmitTask, HandlerReturns, RunTask, TaskInv
  <2> QED BY <2>2, <2>3, <2>4
<1> QED BY <1>1, <1>2, <1>3, <1>4, <1>5

(* Over any number of starts and stops, only a connection that             *)
(* stop_serving gave up on, a task it or an expired submission left, and a *)
(* discovery or sampling thread already asked to stop can meet a destroyed *)
(* member.                                                                 *)
THEOREM OnlyLateUsersMeetDestruction == Spec => []OnlyLateUsers
<1>1. IInv /\ [Next]_vars => IInv'
  <2> SUFFICES ASSUME IInv, [Next]_vars PROVE IInv'
    OBVIOUS
  <2>1. CASE UNCHANGED vars
    BY <2>1 DEF vars, lifeVars, monitorVars, resourceVars, discoveryVars, serverVars, taskVars,
                IInv, Shape, ResourceInv, DiscoveryInv, SamplerInv, HandlerInv, TaskInv, UpOr
  <2>2. CASE Start \/ Stop \/ DestroyStopped \/ OwnerStep
    BY <2>2, StartPreserves, StopPreserves DEF OwnerStep
  <2>3. CASE \/ ResourceStep \/ \E p \in Places : DiscoveryRound(p)
             \/ \E kind \in {"offload", "submission"} : HandleMessage(kind)
             \/ SubmitTask \/ HandlerReturns \/ RunTask
    <3>1. UNCHANGED lifeVars
      BY <2>3 DEF ResourceStep, ResourceRead, ResourceUpdate, DiscoveryRound, HandleMessage,
                  SubmitTask, HandlerReturns, RunTask
    <3> QED BY <2>3, <3>1, ThreadsPreserve
  <2>4. CASE /\ Jiffy \/ \E p \in Places : SamplerStep(p)
             /\ UNCHANGED <<lifeVars, resourceVars, discoveryVars, serverVars, taskVars>>
    BY <2>4, ThreadsPreserve
  <2> QED BY <2>1, <2>2, <2>3, <2>4 DEF Next
<1> QED BY LifeInit, LateUsers, <1>1, PTL DEF Spec

-----------------------------------------------------------------------------
(* What the monitor publishes *)

(* What /proc/stat can have said when n jiffies had passed *)
BusyIn(n) == Cardinality(Busy \cap (1 .. n))
Readings(n) == {r \in [total : 0 .. n, active : Nat] : r.active = BusyIn(r.total)}
Snapshots(n) == [cpu : Int, from : Readings(n), to : Readings(n)]
Published(n) == {<<>>} \cup {<<s>> : s \in Snapshots(n)}

SamplerAt(n) ==
    {t \in [at : {"none", "check", "compute", "publish"}, stop : BOOLEAN,
            curr : Readings(n), snap : Published(n)] :
        t.at # "publish" => t.snap = <<>>}

CounterInv ==
    /\ proc.total \in 0 .. MaxJiffies
    /\ proc \in Readings(proc.total) /\ prev \in Readings(proc.total)
    /\ latest \in Published(proc.total)
    /\ current \in Places /\ sampler \in [Places -> SamplerAt(proc.total)]
    /\ began \in Nat /\ clean \in BOOLEAN

(* The snapshot s is about an interval since start(), after the last       *)
(* published one, and exact.                                               *)
Exact(s) ==
    s.cpu # 0 =>
        /\ began <= s.from.total
        /\ latest # <<>> => latest[1].to.total <= s.from.total
        /\ 0 < s.to.total - s.from.total
        /\ s.cpu = (100 * (s.to.active - s.from.active)) \div (s.to.total - s.from.total)

(* The sampling thread t goes on where prev_cpu_times_ is. *)
Follows(t) ==
    /\ t.at = "compute" => prev.total <= t.curr.total
    /\ t.snap # <<>> => t.snap[1].to.total <= prev.total /\ Exact(t.snap[1])

(* A start() that found no thread has one thread sampling: its intervals   *)
(* follow each other from the counters that start() has read.              *)
CleanInv ==
    clean =>
        /\ \A p, q \in Places : Alive(sampler[p]) /\ Alive(sampler[q]) => p = q
        /\ pc = "spawn" => NoSampler
        /\ began <= prev.total
        /\ latest # <<>> => latest[1].to.total <= prev.total
        /\ \A p \in Places : Follows(sampler[p])

LEMMA BusyBounds ==
    ASSUME NEW m \in Nat, NEW n \in Nat, m <= n
    PROVE  BusyIn(m) \in Nat /\ BusyIn(n) \in Nat /\ BusyIn(m) <= BusyIn(n) /\ BusyIn(n) <= n
<1>1. IsFiniteSet(1 .. n) /\ Cardinality(1 .. n) = n
  BY FS_Interval
<1>2. Busy \cap (1 .. m) \subseteq Busy \cap (1 .. n) /\ Busy \cap (1 .. n) \subseteq 1 .. n
  OBVIOUS
<1>3. IsFiniteSet(Busy \cap (1 .. n)) /\ Cardinality(Busy \cap (1 .. n)) <= n
  BY <1>1, <1>2, FS_Subset
<1>4. IsFiniteSet(Busy \cap (1 .. m)) /\ Cardinality(Busy \cap (1 .. m)) <= Cardinality(Busy \cap (1 .. n))
  BY <1>2, <1>3, FS_Subset
<1>5. BusyIn(m) \in Nat /\ BusyIn(n) \in Nat
  BY <1>3, <1>4, FS_CardinalityType DEF BusyIn
<1> QED BY <1>3, <1>4, <1>5 DEF BusyIn

LEMMA ZeroReading ==
    ASSUME NEW n \in Nat PROVE Zero \in Readings(n)
<1>1. BusyIn(0) = 0
  BY BusyBounds
<1> QED BY <1>1 DEF Zero, Readings

(* Once possible, always possible *)
LEMMA ReadingsGrow ==
    ASSUME NEW m \in Nat, NEW n \in Nat, m <= n
    PROVE  /\ Readings(m) \subseteq Readings(n) /\ Published(m) \subseteq Published(n)
           /\ SamplerAt(m) \subseteq SamplerAt(n)
<1>1. Readings(m) \subseteq Readings(n)
  BY DEF Readings
<1>2. Published(m) \subseteq Published(n)
  BY <1>1 DEF Published, Snapshots
<1> QED BY <1>1, <1>2 DEF SamplerAt

LEMMA PublishedForm ==
    ASSUME NEW n \in Nat, NEW x \in Published(n), x # <<>>
    PROVE  DOMAIN x = {1} /\ x[1] \in Snapshots(n)
BY DEF Published

(* With both readings in order no difference wraps. *)
LEMMA ExactShare ==
    ASSUME NEW n \in 0 .. MaxJiffies, NEW old \in Readings(n), NEW new \in Readings(n),
           old.total <= new.total
    PROVE  /\ ComputeCpuPercent(old, new) \in Int
           /\ ComputeCpuPercent(old, new) # 0 =>
                 /\ 0 < new.total - old.total
                 /\ ComputeCpuPercent(old, new)
                      = (100 * (new.active - old.active)) \div (new.total - old.total)
<1> DEFINE t == new.total - old.total
           a == new.active - old.active
<1>1. /\ old.total \in 0 .. n /\ new.total \in 0 .. n
      /\ old.active = BusyIn(old.total) /\ new.active = BusyIn(new.total)
  BY DEF Readings
<1>2. old.total \in Nat /\ new.total \in Nat
  BY <1>1
<1>3. /\ old.active \in Nat /\ new.active \in Nat
      /\ old.active <= new.active /\ new.active <= new.total
  BY <1>1, <1>2, BusyBounds
<1>4. t \in 0 .. Word - 1 /\ a \in 0 .. Word - 1 /\ Word \in Nat \ {0}
  BY <1>1, <1>3, MonitorAssumption
<1> HIDE DEF t, a
<1>5. (t % Word) = t /\ (a % Word) = a
  BY <1>4
<1>6. ComputeCpuPercent(old, new) = IF t = 0 THEN 0 ELSE (100 * a) \div t
  BY <1>5 DEF ComputeCpuPercent, t, a
<1>7. t # 0 => (100 * a) \div t \in Int
  BY <1>4
<1> QED BY <1>4, <1>6, <1>7 DEF t, a

LEMMA PercentType ==
    ASSUME NEW n \in Nat, NEW old \in Readings(n), NEW new \in Readings(n)
    PROVE  ComputeCpuPercent(old, new) \in Int
<1> DEFINE t == (new.total - old.total) % Word
           a == (new.active - old.active) % Word
<1>1. /\ new.total - old.total \in Int /\ new.active - old.active \in Int
      /\ Word \in Nat \ {0}
  BY MonitorAssumption DEF Readings
<1>2. t \in Nat /\ a \in Nat
  BY <1>1
<1> HIDE DEF t, a
<1>3. t # 0 => (100 * a) \div t \in Int
  BY <1>2
<1> QED BY <1>3 DEF ComputeCpuPercent, t, a

LEMMA SamplerQuiet ==
    ASSUME NEW n, NEW at \in {"none", "check", "compute"}, NEW stop \in BOOLEAN,
           NEW curr \in Readings(n)
    PROVE  [at |-> at, stop |-> stop, curr |-> curr, snap |-> <<>>] \in SamplerAt(n)
BY DEF SamplerAt, Published

LEMMA SamplerPublishes ==
    ASSUME NEW n, NEW stop \in BOOLEAN, NEW curr \in Readings(n), NEW snap \in Published(n)
    PROVE  [at |-> "publish", stop |-> stop, curr |-> curr, snap |-> snap] \in SamplerAt(n)
BY DEF SamplerAt

LEMMA SamplerParts ==
    ASSUME NEW n, NEW t \in SamplerAt(n)
    PROVE  /\ t = [at |-> t.at, stop |-> t.stop, curr |-> t.curr, snap |-> t.snap]
           /\ t.curr \in Readings(n) /\ t.snap \in Published(n) /\ t.stop \in BOOLEAN
           /\ t.at # "publish" => t.snap = <<>>
BY DEF SamplerAt

(* How the orchestrator drives its monitor *)
LEMMA MonitorDriver ==
    ASSUME [Next]_vars
    PROVE  \/ UNCHANGED monitorVars /\ (pc' = "spawn" => pc = "spawn")
           \/ pc' = "spawn" /\ \E readable \in BOOLEAN : Prime(readable)
           \/ pc = "spawn" /\ pc' # "spawn" /\ SpawnSampler
           \/ pc' # "spawn" /\ RequestSamplerStop
           \/ pc' = pc /\ Jiffy
           \/ pc' = pc /\ \E p \in Places : SamplerStep(p)
<1>1. CASE \/ Start \/ Stop \/ DestroyStopped \/ StartServer \/ StartDiscovery \/ StartResourceThread
           \/ StopDiscovery \/ StopReactor \/ AwaitHandlers
  BY <1>1 DEF Start, Stop, DestroyStopped, StartServer, StartDiscovery, StartResourceThread,
              StopDiscovery, StopReactor, AwaitHandlers
<1>2. CASE StartMonitor
  BY <1>2 DEF StartMonitor
<1>3. CASE StopMonitor
  BY <1>3 DEF StopMonitor
<1>4. CASE \E i \in 1 .. Len(Teardown) - 1 : Destroy(i)
  <2>1. UNCHANGED monitorVars /\ pc' \in Tearing
    BY <1>4, DestroyStep
  <2> QED BY <2>1 DEF Tearing
<1>5. CASE \/ ResourceStep \/ \E p \in Places : DiscoveryRound(p)
           \/ \E kind \in {"offload", "submission"} : HandleMessage(kind)
           \/ SubmitTask \/ HandlerReturns \/ RunTask
  BY <1>5 DEF ResourceStep, ResourceRead, ResourceUpdate, DiscoveryRound, HandleMessage,
              SubmitTask, HandlerReturns, RunTask, lifeVars
<1>6. CASE /\ Jiffy \/ \E p \in Places : SamplerStep(p)
           /\ UNCHANGED <<lifeVars, resourceVars, discoveryVars, serverVars, taskVars>>
  BY <1>6 DEF lifeVars
<1>7. CASE UNCHANGED vars
  BY <1>7 DEF vars, lifeVars
<1> QED BY <1>1, <1>2, <1>3, <1>4, <1>5, <1>6, <1>7 DEF Next, OwnerStep

LEMMA CountersStep == CounterInv /\ [Next]_vars => CounterInv'
<1> SUFFICES ASSUME CounterInv, [Next]_vars PROVE CounterInv'
  OBVIOUS
<1> DEFINE n == proc.total
<1>0. n \in 0 .. MaxJiffies /\ n \in Nat /\ MaxJiffies \in Nat
  BY MonitorAssumption DEF CounterInv
<1>z. Zero \in Readings(n) /\ NoThread \in SamplerAt(n) /\ NewThread \in SamplerAt(n)
  <2>1. Zero \in Readings(n)
    BY <1>0, ZeroReading
  <2>2. NoThread \in SamplerAt(n)
    BY <2>1, SamplerQuiet DEF NoThread
  <2>3. NewThread \in SamplerAt(n)
    <3>1. /\ NoThread.stop \in BOOLEAN /\ NoThread.curr = Zero /\ NoThread.snap = <<>>
          /\ NoThread = [at |-> NoThread.at, stop |-> NoThread.stop, curr |-> NoThread.curr,
                         snap |-> NoThread.snap]
      BY DEF NoThread
    <3>2. NewThread = [at |-> "check", stop |-> NoThread.stop, curr |-> Zero, snap |-> <<>>]
      BY <3>1 DEF NewThread
    <3> QED BY <2>1, <3>1, <3>2, SamplerQuiet
  <2> QED BY <2>1, <2>2, <2>3
<1>1. CASE UNCHANGED monitorVars
  BY <1>1 DEF monitorVars, CounterInv
<1>2. CASE \E readable \in BOOLEAN : Prime(readable)
  BY <1>0, <1>2, <1>z DEF Prime, CounterInv
<1>3. CASE SpawnSampler
  <2>1. current \in Places /\ 1 - current \in Places /\ current # 1 - current
    BY DEF CounterInv, Places
  <2>2. [sampler[current] EXCEPT !.stop = Alive(sampler[current])] \in SamplerAt(n)
    BY <2>1 DEF CounterInv, SamplerAt, Alive
  <2>3. sampler' \in [Places -> SamplerAt(n)]
    BY <1>3, <1>z, <2>1, <2>2 DEF SpawnSampler, CounterInv
  <2> QED BY <1>3, <2>1, <2>3 DEF SpawnSampler, CounterInv
<1>4. CASE RequestSamplerStop
  <2>1. [sampler[current] EXCEPT !.stop = Alive(sampler[current])] \in SamplerAt(n)
    BY DEF CounterInv, SamplerAt, Alive
  <2>2. sampler' \in [Places -> SamplerAt(n)]
    BY <1>4, <2>1 DEF RequestSamplerStop, CounterInv
  <2> QED BY <1>4, <2>2 DEF RequestSamplerStop, CounterInv
<1>5. CASE Jiffy
  <2>1. n + 1 \in 0 .. MaxJiffies /\ n + 1 \in Nat /\ n <= n + 1
    BY <1>0, <1>5 DEF Jiffy
  <2>2. proc'.total = n + 1 /\ proc' \in Readings(n + 1)
    <3>1. BusyIn(n + 1) \in Nat
      BY <2>1, BusyBounds
    <3>2. proc' = [total |-> n + 1, active |-> BusyIn(n + 1)]
      BY <1>5 DEF Jiffy, BusyIn
    <3> QED BY <2>1, <3>1, <3>2 DEF Readings
  <2>3. /\ Readings(n) \subseteq Readings(n + 1) /\ Published(n) \subseteq Published(n + 1)
        /\ SamplerAt(n) \subseteq SamplerAt(n + 1)
    BY <1>0, <2>1, ReadingsGrow
  <2>4. UNCHANGED <<prev, latest, sampler, current, began, clean>>
    BY <1>5 DEF Jiffy
  <2> QED BY <2>1, <2>2, <2>3, <2>4 DEF CounterInv
<1>6. CASE \E p \in Places : SamplerStep(p)
  <2> PICK p \in Places : SamplerStep(p)
    BY <1>6
  <2>1. sampler[p] \in SamplerAt(n)
    BY DEF CounterInv
  <2> DEFINE t == sampler[p]
  <2>p. /\ t = [at |-> t.at, stop |-> t.stop, curr |-> t.curr, snap |-> t.snap]
        /\ t.curr \in Readings(n) /\ t.snap \in Published(n) /\ t.stop \in BOOLEAN
        /\ t.at # "publish" => t.snap = <<>>
    BY <2>1, SamplerParts
  <2>2. /\ sampler' = [sampler EXCEPT ![p] = sampler'[p]]
        /\ UNCHANGED <<proc, current, began, clean>>
    BY DEF SamplerStep, SamplerTest, ComputeSample, SampleWithoutStat, Publish, CounterInv
  <2>3. prev' \in Readings(n) /\ latest' \in Published(n)
    BY <2>1 DEF SamplerStep, SamplerTest, ComputeSample, SampleWithoutStat, Publish, CounterInv,
                SamplerAt
  <2>4. sampler'[p] \in SamplerAt(n)
    <3>1. CASE SamplerTest(p)
      <4>1. CASE sampler[p].stop
        <5>1. sampler'[p] = NoThread
          BY <3>1, <4>1 DEF SamplerTest, CounterInv
        <5> QED BY <1>z, <5>1
      <4>2. CASE ~ sampler[p].stop
        <5>1. sampler'[p] = [t EXCEPT !.at = "compute", !.curr = proc] /\ t.snap = <<>>
          BY <2>p, <3>1, <4>2 DEF SamplerTest, CounterInv
        <5>2. sampler'[p] = [at |-> "compute", stop |-> t.stop, curr |-> proc, snap |-> <<>>]
          BY <2>p, <5>1
        <5> QED BY <2>p, <5>2, SamplerQuiet DEF CounterInv
      <4> QED BY <4>1, <4>2
    <3>2. CASE ComputeSample(p)
      <4> DEFINE snap == [cpu |-> ComputeCpuPercent(prev, sampler[p].curr), from |-> prev,
                          to |-> sampler[p].curr]
      <4>1. sampler[p].curr \in Readings(n) /\ prev \in Readings(n)
        BY <2>1 DEF SamplerAt, CounterInv
      <4>2. ComputeCpuPercent(prev, sampler[p].curr) \in Int
        BY <1>0, <4>1, PercentType
      <4>3. <<snap>> \in Published(n)
        <5>1. snap \in Snapshots(n)
          BY <4>1, <4>2 DEF Snapshots
        <5> HIDE DEF snap
        <5> QED BY <5>1 DEF Published
      <4>4. sampler'[p] = [t EXCEPT !.at = "publish", !.curr = Zero, !.snap = <<snap>>]
        BY <3>2 DEF ComputeSample, CounterInv
      <4> HIDE DEF snap
      <4>5. sampler'[p] = [at |-> "publish", stop |-> t.stop, curr |-> Zero, snap |-> <<snap>>]
        BY <2>p, <4>4
      <4> QED BY <1>z, <2>p, <4>3, <4>5, SamplerPublishes
    <3>3. CASE SampleWithoutStat(p)
      <4> DEFINE snap == [cpu |-> 0, from |-> Zero, to |-> Zero]
      <4>1. snap \in Snapshots(n)
        BY <1>z DEF Snapshots
      <4>2. sampler'[p] = [t EXCEPT !.at = "publish", !.curr = Zero, !.snap = <<snap>>]
        BY <3>3 DEF SampleWithoutStat, CounterInv
      <4> HIDE DEF snap
      <4>3. <<snap>> \in Published(n)
        BY <4>1 DEF Published
      <4>4. sampler'[p] = [at |-> "publish", stop |-> t.stop, curr |-> Zero, snap |-> <<snap>>]
        BY <2>p, <4>2
      <4> QED BY <1>z, <2>p, <4>3, <4>4, SamplerPublishes
    <3>4. CASE Publish(p)
      <4>1. sampler'[p] = [t EXCEPT !.at = "check", !.snap = <<>>]
        BY <3>4 DEF Publish, CounterInv
      <4>2. sampler'[p] = [at |-> "check", stop |-> t.stop, curr |-> t.curr, snap |-> <<>>]
        BY <2>p, <4>1
      <4> QED BY <2>p, <4>2, SamplerQuiet
    <3> QED BY <3>1, <3>2, <3>3, <3>4 DEF SamplerStep
  <2>5. sampler' \in [Places -> SamplerAt(n)]
    BY <2>2, <2>4 DEF CounterInv
  <2> QED BY <2>2, <2>3, <2>5 DEF CounterInv
<1> QED BY <1>1, <1>2, <1>3, <1>4, <1>5, <1>6, MonitorDriver

(* One step of a sampling thread, when it is the only one *)
LEMMA CleanSample ==
    ASSUME CounterInv, CleanInv, clean, NEW p \in Places, SamplerStep(p), pc' = pc
    PROVE  CleanInv'
<1> DEFINE t == sampler[p]
<1>0. /\ t \in SamplerAt(proc.total) /\ Follows(t) /\ DOMAIN sampler = Places
      /\ proc.total \in 0 .. MaxJiffies /\ proc.total \in Nat
      /\ prev \in Readings(proc.total) /\ proc \in Readings(proc.total)
  BY MonitorAssumption DEF CounterInv, CleanInv
<1>1. /\ t = [at |-> t.at, stop |-> t.stop, curr |-> t.curr, snap |-> t.snap]
      /\ t.curr \in Readings(proc.total) /\ t.snap \in Published(proc.total)
      /\ t.at # "publish" => t.snap = <<>>
  BY <1>0, SamplerParts
<1>2. Alive(t) /\ UNCHANGED <<began, clean>> /\ \A q \in Places : q # p => sampler'[q] = sampler[q]
  BY <1>0 DEF SamplerStep, SamplerTest, ComputeSample, SampleWithoutStat, Publish, Alive
<1>3. /\ pc # "spawn" /\ \A q \in Places : q # p => ~ Alive(sampler'[q])
      /\ \A q \in Places : q # p => sampler'[q].at # "compute" /\ sampler'[q].snap = <<>>
  <2>1. \A q \in Places : q # p => sampler[q].at = "none" /\ sampler[q] \in SamplerAt(proc.total)
    BY <1>2 DEF CleanInv, CounterInv, Alive
  <2>2. \A q \in Places : q # p => sampler[q].snap = <<>>
    BY <2>1 DEF SamplerAt
  <2> QED BY <1>2, <2>1, <2>2 DEF CleanInv, NoSampler, Alive
<1>4. SUFFICES /\ began <= prev'.total
               /\ latest' # <<>> => latest'[1].to.total <= prev'.total
               /\ Follows(t)'
  <2>1. \A q \in Places : Follows(sampler[q])'
    BY <1>3, <1>4 DEF Follows
  <2> QED BY <1>2, <1>3, <1>4, <2>1 DEF CleanInv
<1>5. began <= prev.total /\ (latest # <<>> => latest[1].to.total <= prev.total)
  BY DEF CleanInv
<1>6. CASE SamplerTest(p)
  <2>1. UNCHANGED <<prev, latest>> /\ t.snap = <<>> /\ prev.total <= proc.total
    BY <1>0, <1>1, <1>6 DEF SamplerTest, Readings
  <2>2. CASE t.stop
    <3>1. t' = NoThread
      BY <1>0, <1>6, <2>2 DEF SamplerTest
    <3> QED BY <1>5, <2>1, <3>1 DEF Follows, NoThread
  <2>3. CASE ~ t.stop
    <3>1. t' = [t EXCEPT !.at = "compute", !.curr = proc]
      BY <1>0, <1>6, <2>3 DEF SamplerTest
    <3>2. t'.curr = proc /\ t'.snap = <<>>
      BY <1>1, <2>1, <3>1
    <3> QED BY <1>5, <2>1, <3>2 DEF Follows
  <2> QED BY <2>2, <2>3
<1>7. CASE ComputeSample(p)
  <2> DEFINE snap == [cpu |-> ComputeCpuPercent(prev, t.curr), from |-> prev, to |-> t.curr]
  <2>1. /\ t' = [t EXCEPT !.at = "publish", !.curr = Zero, !.snap = <<snap>>]
        /\ prev' = t.curr /\ latest' = latest /\ t.at = "compute"
    BY <1>0, <1>7 DEF ComputeSample
  <2>2. snap.cpu = ComputeCpuPercent(prev, t.curr) /\ snap.from = prev /\ snap.to = t.curr
    OBVIOUS
  <2>3. prev.total <= t.curr.total
    BY <1>0, <2>1 DEF Follows
  <2>4. Exact(snap)
    <3>1. ComputeCpuPercent(prev, t.curr) # 0 =>
             /\ 0 < t.curr.total - prev.total
             /\ ComputeCpuPercent(prev, t.curr)
                  = (100 * (t.curr.active - prev.active)) \div (t.curr.total - prev.total)
      BY <1>0, <1>1, <2>3, ExactShare
    <3> HIDE DEF snap
    <3> QED BY <1>5, <2>2, <3>1 DEF Exact
  <2> HIDE DEF snap
  <2>5. PICK s : s = snap
    OBVIOUS
  <2>6. t'.at = "publish" /\ t'.snap = <<s>> /\ t'.snap[1] = s
    BY <1>1, <2>1, <2>5
  <2>7. Follows(t)'
    <3>1. Exact(s)'
      BY <1>2, <2>1, <2>4, <2>5 DEF Exact
    <3>2. Exact(t.snap[1])'
      BY <2>6, <3>1 DEF Exact
    <3>3. t'.snap[1].to.total <= prev'.total
      BY <1>1, <2>1, <2>2, <2>5, <2>6 DEF Readings
    <3> QED BY <2>6, <3>2, <3>3 DEF Follows
  <2>8. prev.total \in Nat /\ t.curr.total \in Nat /\ began \in Nat
    BY <1>0, <1>1 DEF Readings, CounterInv
  <2>9. latest # <<>> => latest[1].to.total \in Nat
    BY <1>0, PublishedForm DEF CounterInv, Snapshots, Readings
  <2> QED BY <1>5, <2>1, <2>3, <2>7, <2>8, <2>9
<1>8. CASE SampleWithoutStat(p)
  <2> DEFINE snap == [cpu |-> 0, from |-> Zero, to |-> Zero]
  <2>1. /\ t' = [t EXCEPT !.at = "publish", !.curr = Zero, !.snap = <<snap>>]
        /\ UNCHANGED <<prev, latest>>
    BY <1>0, <1>8 DEF SampleWithoutStat
  <2>2. snap.cpu = 0 /\ snap.to.total = 0
    BY DEF Zero
  <2> HIDE DEF snap
  <2>3. t'.at = "publish" /\ t'.snap[1] = snap
    BY <1>1, <2>1
  <2>4. 0 <= prev.total
    BY <1>0 DEF Readings
  <2> QED BY <1>5, <2>1, <2>2, <2>3, <2>4 DEF Follows, Exact
<1>9. CASE Publish(p)
  <2>1. /\ t' = [t EXCEPT !.at = "check", !.snap = <<>>]
        /\ prev' = prev /\ latest' = t.snap
    BY <1>0, <1>9 DEF Publish
  <2>2. t'.at = "check" /\ t'.snap = <<>>
    BY <1>1, <2>1
  <2>3. latest' # <<>> => latest'[1].to.total <= prev.total
    BY <1>0, <2>1 DEF Follows
  <2> QED BY <1>5, <2>1, <2>2, <2>3 DEF Follows
<1> QED BY <1>6, <1>7, <1>8, <1>9 DEF SamplerStep

LEMMA CleanStep == CounterInv /\ CleanInv /\ [Next]_vars => CleanInv'
<1> SUFFICES ASSUME CounterInv, CleanInv, [Next]_vars, clean' PROVE CleanInv'
  BY DEF CleanInv
<1>0. /\ \A p \in Places : sampler[p] \in SamplerAt(proc.total)
      /\ DOMAIN sampler = Places /\ current \in Places
      /\ proc \in Readings(proc.total) /\ prev \in Readings(proc.total) /\ proc.total \in Nat
  BY DEF CounterInv
<1>1. CASE UNCHANGED monitorVars /\ (pc' = "spawn" => pc = "spawn")
  BY <1>1 DEF monitorVars, CleanInv, NoSampler, Follows, Exact
<1>2. CASE \E readable \in BOOLEAN : Prime(readable)
  <2>1. \A p \in Places : ~ Alive(sampler[p])
    BY <1>2 DEF Prime
  <2>2. prev' = proc /\ began' = proc.total /\ UNCHANGED <<sampler, latest>>
    BY <1>2 DEF Prime
  <2>3. \A p \in Places : sampler[p].at = "none" /\ sampler[p].snap = <<>>
    BY <1>0, <2>1 DEF Alive, SamplerAt
  <2>4. latest # <<>> => latest[1].to.total <= proc.total
    BY <1>0, PublishedForm DEF CounterInv, Snapshots, Readings
  <2>5. \A p \in Places : Follows(sampler[p])'
    BY <2>2, <2>3 DEF Follows
  <2>6. began' <= prev'.total
    BY <1>0, <2>2
  <2> QED BY <2>1, <2>2, <2>4, <2>5, <2>6 DEF CleanInv, NoSampler
<1>3. CASE pc = "spawn" /\ pc' # "spawn" /\ SpawnSampler
  <2> DEFINE q == 1 - current
  <2>1. /\ clean /\ UNCHANGED <<began, latest, prev>>
        /\ \A p \in Places : ~ Alive(sampler[p])
    BY <1>3 DEF SpawnSampler, CleanInv, NoSampler
  <2>2. \A p \in Places : sampler[p].at = "none" /\ sampler[p].snap = <<>>
    BY <1>0, <2>1 DEF Alive, SamplerAt
  <2>3. q \in Places /\ q # current /\ \A p \in Places : p = q \/ p = current
    BY <1>0 DEF Places
  <2> HIDE DEF q
  <2>4. /\ sampler'[q] = NewThread
        /\ sampler'[current] = [sampler[current] EXCEPT !.stop = Alive(sampler[current])]
    BY <1>0, <1>3, <2>3 DEF SpawnSampler, q
  <2>5. NewThread.at = "check" /\ NewThread.snap = <<>>
    BY DEF NewThread, NoThread
  <2>6. sampler'[current].at = "none" /\ sampler'[current].snap = <<>>
    <3>1. sampler[current] = [at |-> sampler[current].at, stop |-> sampler[current].stop,
                              curr |-> sampler[current].curr, snap |-> sampler[current].snap]
      BY <1>0, SamplerParts
    <3> QED BY <1>0, <2>2, <2>4, <3>1
  <2>7. \A p \in Places : Follows(sampler[p])'
    BY <2>3, <2>4, <2>5, <2>6 DEF Follows
  <2>8. \A p \in Places : Alive(sampler'[p]) => p = q
    BY <2>3, <2>6 DEF Alive
  <2> QED BY <1>3, <2>1, <2>7, <2>8 DEF CleanInv
<1>4. CASE pc' # "spawn" /\ RequestSamplerStop
  <2>1. /\ clean /\ UNCHANGED <<began, latest, prev>>
        /\ sampler' = [sampler EXCEPT ![current] = [sampler[current] EXCEPT !.stop = Alive(sampler[current])]]
    BY <1>4 DEF RequestSamplerStop
  <2>2. /\ sampler'[current].at = sampler[current].at
        /\ sampler'[current].snap = sampler[current].snap
        /\ sampler'[current].curr = sampler[current].curr
    <3>1. sampler[current] = [at |-> sampler[current].at, stop |-> sampler[current].stop,
                              curr |-> sampler[current].curr, snap |-> sampler[current].snap]
      BY <1>0, SamplerParts
    <3>2. sampler'[current] = [sampler[current] EXCEPT !.stop = Alive(sampler[current])]
      BY <1>0, <2>1
    <3> QED BY <3>1, <3>2
  <2>3. \A p \in Places : /\ sampler'[p].at = sampler[p].at /\ sampler'[p].snap = sampler[p].snap
                          /\ sampler'[p].curr = sampler[p].curr
    BY <1>0, <2>1, <2>2
  <2>4. ASSUME NEW p \in Places PROVE Follows(sampler[p])'
    <3>1. Follows(sampler[p])
      BY <2>1 DEF CleanInv
    <3>2. sampler'[p].at = sampler[p].at /\ sampler'[p].curr = sampler[p].curr
      BY <2>3
    <3>3. PICK s : s = sampler[p].snap /\ s = sampler'[p].snap
      BY <2>3
    <3>4. Exact(s[1])' <=> Exact(s[1])
      BY <2>1 DEF Exact
    <3> QED BY <2>1, <3>1, <3>2, <3>3, <3>4 DEF Follows
  <2> QED BY <1>4, <2>1, <2>3, <2>4 DEF CleanInv, Alive
<1>5. CASE pc' = pc /\ Jiffy
  BY <1>5 DEF Jiffy, CleanInv, NoSampler, Follows, Exact
<1>6. CASE pc' = pc /\ \E p \in Places : SamplerStep(p)
  <2>1. clean
    BY <1>6 DEF SamplerStep, SamplerTest, ComputeSample, SampleWithoutStat, Publish
  <2> QED BY <1>6, <2>1, CleanSample
<1> QED BY <1>1, <1>2, <1>3, <1>4, <1>5, <1>6, MonitorDriver

(* Over any number of starts and stops: if start() found the previous      *)
(* sampling thread gone, each usage figure that is published is the exact  *)
(* share of busy time in an interval that began at start() or later and    *)
(* not before the end of the previous one.                                 *)
THEOREM UsageMeasuredSinceStart == Spec => []UsageSinceStart
<1>1. Init => CounterInv /\ CleanInv
  <2> SUFFICES ASSUME Init PROVE CounterInv /\ ~ clean
    BY DEF CleanInv
  <2>1. 0 \in Nat /\ Zero \in Readings(0) /\ Zero.total = 0 /\ 0 \in 0 .. MaxJiffies
    BY MonitorAssumption, ZeroReading DEF Zero
  <2>2. NoThread \in SamplerAt(0)
    BY <2>1, SamplerQuiet DEF NoThread
  <2> QED BY <2>1, <2>2 DEF Init, MonitorInit, CounterInv, Places, Published
<1>2. CounterInv /\ CleanInv => UsageSinceStart
  <2> SUFFICES ASSUME CounterInv, CleanInv, clean, NEW p \in Places, NEW i \in DOMAIN sampler[p].snap
               PROVE  Exact(sampler[p].snap[i])
    BY DEF UsageSinceStart, Exact
  <2>1. sampler[p].snap \in Published(proc.total) /\ proc.total \in Nat
    BY SamplerParts DEF CounterInv
  <2>2. sampler[p].snap # <<>>
    OBVIOUS
  <2>3. i = 1
    BY <2>1, <2>2, PublishedForm
  <2> QED BY <2>2, <2>3 DEF CleanInv, Follows
<1> QED BY <1>1, <1>2, CountersStep, CleanStep, PTL DEF Spec
=============================================================================
