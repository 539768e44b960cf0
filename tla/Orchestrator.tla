---------------------------- MODULE Orchestrator ----------------------------
(***************************************************************************)
(* The life of an Orchestrator (orchestrator/orchestrator.hpp): start,     *)
(* stop, start again and destruction, against the threads that its members *)
(* own.  The monitor is ResourceMonitor.  Of the others only what matters  *)
(* to a lifetime is kept: whether a thread exists, was asked to stop, and  *)
(* is in code that uses members of the orchestrator.                       *)
(*                                                                         *)
(* One discovery thread stands for listener and eviction thread, which run *)
(* callbacks, and the broadcaster, which runs none.  One connection, one   *)
(* task and one executor thread stand for any number.                      *)
(***************************************************************************)
EXTENDS ResourceMonitor, Sequences

CONSTANTS
    MaxStarts,     \* bound: how often start() is called
    Environments   \* bound: what can go on around the node, one at a time

ASSUME LifeAssumption ==
    /\ MaxStarts \in Nat
    /\ Environments \subseteq [jiffies : 0 .. MaxJiffies, sockets : BOOLEAN]

VARIABLES
    env,         \* the environment of this behaviour
    pc,          \* where the owner of the orchestrator is in start, stop, ~
    dying,       \* the owner is in the destructor
    starts,      \* calls of start() so far
    running,     \* running_
    gone,        \* members destroyed so far
    resource,    \* resource_thread_: [at, stop, cpu]
    advertised,  \* discovery_'s local_resources_: <<>> or <<cpu>>
    discovery,   \* discovery threads, in two places used in turn
    listening,   \* the place of the thread that discovery_ holds
    serving,     \* the reactor of offload_server_ runs
    handler,     \* the connection a handler thread is working for
    replaced,    \* serve() has replaced handler_ under that connection
    late,        \* stop_serving() gave up waiting for that connection
    task,        \* a task of a submission in the executor
    orphan       \* the submission that task belongs to has returned

lifeVars == <<env, pc, dying, starts, running, gone>>
discoveryVars == <<discovery, listening>>
resourceVars == <<resource, advertised>>
serverVars == <<serving, handler, replaced, late>>
taskVars == <<task, orphan>>
vars == <<monitorVars, lifeVars, resourceVars, discoveryVars, serverVars, taskVars>>

NoResource == [at |-> "none", stop |-> FALSE, cpu |-> <<>>]
NoLoop == [at |-> "none", stop |-> FALSE]
NewLoop == [at |-> "check", stop |-> FALSE]

Init ==
    /\ MonitorInit
    /\ env \in Environments
    /\ pc = "idle" /\ dying = FALSE /\ starts = 0 /\ running = FALSE
    /\ gone = {}
    /\ resource = NoResource /\ advertised = <<>>
    /\ discovery = [p \in Places |-> NoLoop] /\ listening = 0
    /\ serving = FALSE /\ handler = "none" /\ replaced = FALSE /\ late = FALSE
    /\ task = "none" /\ orphan = FALSE

-----------------------------------------------------------------------------
(* start() *)

Start ==
    /\ pc = "idle" /\ ~ running /\ starts < MaxStarts
    /\ pc' = "prime" /\ running' = TRUE /\ starts' = starts + 1
    /\ UNCHANGED <<monitorVars, env, dying, gone, resourceVars, discoveryVars,
                   serverVars, taskVars>>

StartMonitor ==
    /\ UNCHANGED <<env, dying, starts, running, gone, resourceVars, discoveryVars,
                   serverVars, taskVars>>
    /\ \/ pc = "prime" /\ pc' = "spawn" /\ \E readable \in BOOLEAN : Prime(readable)
       \/ pc = "spawn" /\ pc' = "replace" /\ SpawnSampler
       \/ pc = "replace" /\ pc' = "serve" /\ OldSamplerJoined /\ UNCHANGED monitorVars

(* listen and serve.  A failed listen is logged and start() goes on. *)
StartServer ==
    /\ pc = "serve" /\ pc' = "discover"
    /\ \/ /\ env.sockets /\ serving' = TRUE
          /\ replaced' = (handler # "none")
       \/ UNCHANGED <<serving, replaced>>
    /\ UNCHANGED <<monitorVars, env, dying, starts, running, gone, resourceVars,
                   discoveryVars, handler, late, taskVars>>

(* PeerDiscovery::start.  When a socket cannot be created or bound it      *)
(* returns without threads and without saying so.                          *)
StartDiscovery ==
    /\ UNCHANGED <<monitorVars, env, dying, starts, running, gone, resourceVars,
                   serverVars, taskVars>>
    /\ \/ /\ pc = "discover" /\ pc' = "rejoin" /\ env.sockets
          /\ discovery' = [discovery EXCEPT ![1 - listening] = NewLoop,
                                            ![listening].stop = Alive(discovery[listening])]
          /\ listening' = 1 - listening
       \/ pc = "discover" /\ pc' = "feed" /\ UNCHANGED discoveryVars
       \/ /\ pc = "rejoin" /\ pc' = "feed"
          /\ ~ Alive(discovery[1 - listening])
          /\ UNCHANGED discoveryVars

StartResourceThread ==
    /\ pc = "feed" /\ pc' = "idle"
    /\ resource' = [NoResource EXCEPT !.at = "check"]
    /\ UNCHANGED <<monitorVars, env, dying, starts, running, gone, advertised,
                   discoveryVars, serverVars, taskVars>>

-----------------------------------------------------------------------------
(* stop(), called by the owner or first thing in the destructor *)

(* Variant: the resource thread is not asked to stop. *)
StopForgetsRequest ==
    /\ pc = "idle" /\ running
    /\ dying' \in BOOLEAN
    /\ pc' = "join_resource" /\ running' = FALSE
    /\ UNCHANGED <<monitorVars, env, starts, gone, resourceVars, discoveryVars,
                   serverVars, taskVars>>

Stop ==
    /\ pc = "idle" /\ running
    /\ dying' \in BOOLEAN
    /\ pc' = "join_resource" /\ running' = FALSE
    /\ resource' = [resource EXCEPT !.stop = Alive(resource)]
    /\ UNCHANGED <<monitorVars, env, starts, gone, advertised, discoveryVars,
                   serverVars, taskVars>>

(* Variant: stop() forgets discovery. *)
StopWithoutDiscovery ==
    /\ pc = "join_resource" /\ pc' = "stop_serving"
    /\ ~ Alive(resource)
    /\ UNCHANGED <<monitorVars, env, dying, starts, running, gone, resourceVars,
                   discoveryVars, serverVars, taskVars>>

(* The join, then PeerDiscovery::stop, which does not join. *)
StopDiscovery ==
    /\ pc = "join_resource" /\ pc' = "stop_serving"
    /\ ~ Alive(resource)
    /\ discovery' = [discovery EXCEPT ![listening].stop = Alive(discovery[listening])]
    /\ UNCHANGED <<monitorVars, env, dying, starts, running, gone, resourceVars,
                   listening, serverVars, taskVars>>

(* stop_serving: the reactor is joined, then up to two seconds are spent   *)
(* on connections whose handler is still running.                          *)
StopReactor ==
    /\ pc = "stop_serving" /\ pc' = "await_handlers"
    /\ serving' = FALSE
    /\ UNCHANGED <<monitorVars, env, dying, starts, running, gone, resourceVars,
                   discoveryVars, handler, replaced, late, taskVars>>

AwaitHandlers ==
    /\ pc = "await_handlers" /\ pc' = "stop_monitor"
    /\ late' = (handler # "none")
    /\ UNCHANGED <<monitorVars, env, dying, starts, running, gone, resourceVars,
                   discoveryVars, serving, handler, replaced, taskVars>>

StopMonitor ==
    /\ pc = "stop_monitor" /\ pc' = IF dying THEN "metrics" ELSE "idle"
    /\ RequestSamplerStop
    /\ UNCHANGED <<env, dying, starts, running, gone, resourceVars, discoveryVars,
                   serverVars, taskVars>>

-----------------------------------------------------------------------------
(* Destruction.  Members go in reverse order of declaration, and those     *)
(* that own a thread join it on the way: after their later members, such   *)
(* as callbacks and published values, are gone.                            *)

DestroyStopped ==
    /\ pc = "idle" /\ ~ running
    /\ pc' = "metrics" /\ dying' = TRUE
    /\ UNCHANGED <<monitorVars, env, starts, running, gone, resourceVars,
                   discoveryVars, serverVars, taskVars>>

NoDiscovery == \A p \in Places : ~ Alive(discovery[p])
NoSampler == \A p \in Places : ~ Alive(sampler[p])

(* Where the destructor is, what it waits for there, what is gone then *)
Teardown ==
    << [at |-> "metrics",     joined |-> TRUE,               goes |-> {"metrics_"}],
       [at |-> "resource",    joined |-> ~ Alive(resource),  goes |-> {}],
       [at |-> "handler",     joined |-> TRUE,               goes |-> {"handler_"}],
       [at |-> "server",      joined |-> handler = "none",   goes |-> {"offload_server_"}],
       [at |-> "peers",       joined |-> TRUE,               goes |-> {"known_peers_"}],
       [at |-> "discovery",   joined |-> NoDiscovery,          goes |-> {"cluster_mgr_"}],
       [at |-> "arena",       joined |-> TRUE,
          goes |-> {"arena_mutex_", "task_runner_", "memory_pool_"}],
       [at |-> "thread_pool", joined |-> task = "none",      goes |-> {"thread_pool_"}],
       [at |-> "latest",      joined |-> TRUE,               goes |-> {"latest_"}],
       [at |-> "monitor",     joined |-> NoSampler,          goes |-> {"logger_"}],
       [at |-> "destroyed",   joined |-> FALSE,              goes |-> {}] >>

Destroy(i) ==
    /\ pc = Teardown[i].at /\ Teardown[i].joined
    /\ pc' = Teardown[i + 1].at
    /\ gone' = gone \cup Teardown[i].goes
    /\ UNCHANGED <<monitorVars, env, dying, starts, running, resourceVars,
                   discoveryVars, serverVars, taskVars>>

OwnerStep ==
    \/ StartMonitor \/ StartServer \/ StartDiscovery \/ StartResourceThread
    \/ StopDiscovery \/ StopReactor \/ AwaitHandlers \/ StopMonitor
    \/ \E i \in 1 .. Len(Teardown) - 1 : Destroy(i)

-----------------------------------------------------------------------------
(* resource_update_loop *)

(* Variant: a node that has advertised once never reads again. *)
ResourceReadOnce ==
    /\ resource.at = "check"
    /\ resource' = IF resource.stop THEN NoResource
                   ELSE IF latest = <<>> \/ advertised # <<>> THEN resource
                   ELSE [resource EXCEPT !.at = "update", !.cpu = <<latest[1].cpu>>]
    /\ UNCHANGED <<monitorVars, lifeVars, advertised, discoveryVars, serverVars, taskVars>>

(* The loop's test and monitor_.read(), which fails until the first sample *)
ResourceRead ==
    /\ resource.at = "check"
    /\ resource' = IF resource.stop THEN NoResource
                   ELSE IF latest = <<>> THEN resource
                   ELSE [resource EXCEPT !.at = "update", !.cpu = <<latest[1].cpu>>]
    /\ UNCHANGED <<monitorVars, lifeVars, advertised, discoveryVars, serverVars, taskVars>>

ResourceUpdate ==
    /\ resource.at = "update"
    /\ advertised' = resource.cpu
    /\ resource' = [resource EXCEPT !.at = "check", !.cpu = <<>>]
    /\ UNCHANGED <<monitorVars, lifeVars, discoveryVars, serverVars, taskVars>>

ResourceStep == ResourceRead \/ ResourceUpdate

-----------------------------------------------------------------------------
(* The loops of discovery: a round works on the peer table and may end in  *)
(* the callbacks that start() registered.                                  *)

DiscoveryRound(p) ==
    /\ \/ /\ discovery[p].at = "check"
          /\ discovery' = [discovery EXCEPT ![p] =
                             IF @.stop THEN NoLoop ELSE [@ EXCEPT !.at = "round"]]
       \/ /\ discovery[p].at = "round"
          /\ discovery' = [discovery EXCEPT ![p].at = "check"]
    /\ UNCHANGED <<monitorVars, lifeVars, resourceVars, listening, serverVars, taskVars>>

-----------------------------------------------------------------------------
(* handle_message on a handler thread, and the executor *)

HandleMessage(kind) ==
    /\ serving /\ handler = "none"
    /\ handler' = kind
    /\ UNCHANGED <<monitorVars, lifeVars, resourceVars, discoveryVars, serving,
                   replaced, late, taskVars>>

(* submit_workload has a plan and hands its task to the executor. *)
SubmitTask ==
    /\ handler = "submission" /\ task = "none"
    /\ handler' = "waiting" /\ task' = "queued" /\ orphan' = FALSE
    /\ UNCHANGED <<monitorVars, lifeVars, resourceVars, discoveryVars, serving,
                   replaced, late>>

(* The handler is done: with an offloaded task, with a submission that     *)
(* could not be planned, with one whose task has finished, or with one     *)
(* that has reached its deadline.                                          *)
HandlerReturns ==
    /\ \/ handler \in {"offload", "submission"} /\ UNCHANGED taskVars
       \/ handler = "waiting" /\ task = "done" /\ task' = "none" /\ UNCHANGED orphan
       \/ handler = "waiting" /\ task # "done" /\ orphan' = TRUE /\ UNCHANGED task
    /\ handler' = "none" /\ replaced' = FALSE /\ late' = FALSE
    /\ UNCHANGED <<monitorVars, lifeVars, resourceVars, discoveryVars, serving>>

RunTask ==
    /\ \/ task = "queued" /\ task' = "running"
          /\ UNCHANGED orphan
       \/ task = "running" /\ task' = (IF orphan THEN "none" ELSE "done")
          /\ orphan' = FALSE
    /\ UNCHANGED <<monitorVars, lifeVars, resourceVars, discoveryVars, serverVars>>

-----------------------------------------------------------------------------
Next ==
    \/ Start \/ Stop \/ DestroyStopped \/ OwnerStep
    \/ ResourceStep \/ \E p \in Places : DiscoveryRound(p)
    \/ /\ \/ proc.total < env.jiffies /\ Jiffy
          \/ \E p \in Places : SamplerStep(p)
       /\ UNCHANGED <<lifeVars, resourceVars, discoveryVars, serverVars, taskVars>>
    \/ \E kind \in {"offload", "submission"} : HandleMessage(kind)
    \/ SubmitTask \/ HandlerReturns \/ RunTask

(* Every thread gets to run.  When to start and stop, and what arrives,    *)
(* is up to the environment.                                               *)
Fairness ==
    /\ WF_vars(OwnerStep) /\ WF_vars(ResourceStep)
    /\ \A p \in Places :
          /\ WF_vars(DiscoveryRound(p))
          /\ WF_vars(SamplerStep(p) /\ UNCHANGED <<lifeVars, resourceVars,
                                      discoveryVars, serverVars, taskVars>>)
    /\ WF_vars(HandlerReturns) /\ WF_vars(RunTask)

Spec == Init /\ [][Next]_vars
FairSpec == Spec /\ Fairness

-----------------------------------------------------------------------------
(* Properties *)

(* "The first sample therefore measures 'since start()'": if start() found *)
(* the previous sampling thread gone, a snapshot that is about to be       *)
(* published covers an interval that began at start() or later, follows    *)
(* the one before it, and has the exact share of busy time.  (When the old *)
(* thread is still there it can sample with the counters that start() has  *)
(* just read, and both ends of the interval are anybody's.)                *)
UsageSinceStart ==
    clean => \A p \in Places : \A i \in DOMAIN sampler[p].snap :
        LET s == sampler[p].snap[i]
            elapsed == s.to.total - s.from.total
            busy == s.to.active - s.from.active
        IN  s.cpu # 0 =>
              /\ began <= s.from.total
              /\ latest # <<>> => latest[1].to.total <= s.from.total
              /\ 0 < elapsed /\ s.cpu = (100 * busy) \div elapsed

(* The members of the orchestrator that a thread is using where it is *)
Uses ==
    [sampler |-> IF \E p \in Places : sampler[p].at \in {"compute", "publish"}
                 THEN {"latest_"} ELSE {},
     resource |-> IF Alive(resource) THEN {"latest_", "known_peers_"} ELSE {},
     discovery |-> IF \E p \in Places : discovery[p].at = "round"
                   THEN {"known_peers_", "cluster_mgr_", "logger_", "metrics_"} ELSE {},
     handler |-> CASE handler = "none" -> {}
                   [] handler = "offload" ->
                        {"handler_", "arena_mutex_", "task_runner_", "memory_pool_",
                         "metrics_", "logger_"}
                   [] OTHER ->
                        {"handler_", "latest_", "cluster_mgr_", "thread_pool_",
                         "arena_mutex_", "memory_pool_", "metrics_", "logger_"},
     task |-> IF task = "running"
              THEN {"arena_mutex_", "task_runner_", "memory_pool_", "cluster_mgr_",
                    "metrics_", "logger_"}
              ELSE {}]

(* Who may meet a destroyed member: a connection that stop_serving gave up *)
(* on, a task whose submission is that connection's or has passed its      *)
(* deadline, and a discovery or sampling thread in the round in which      *)
(* stop() found it.  Nobody else; never the resource thread, which stop()  *)
(* joins before anything it reads or writes is gone.  A restart replaces   *)
(* handler_ only under a connection of the first kind.                     *)
OnlyLateUsers ==
    /\ replaced => late
    /\ \A t \in DOMAIN Uses : Uses[t] \cap gone # {} =>
        CASE t = "handler" -> late
          [] t = "task" -> orphan \/ late
          [] t = "discovery" -> \A p \in Places : Alive(discovery[p]) => discovery[p].stop
          [] t = "sampler" -> \A p \in Places : Alive(sampler[p]) => sampler[p].stop
          [] OTHER -> FALSE

(* "Keep the advertised resource picture fresh": while the node runs, what *)
(* it advertises keeps catching up with what the monitor has published.    *)
AdvertKeepsUp ==
    []<>(running /\ latest # <<>> => advertised = <<latest[1].cpu>>)

(* Destruction comes to an end, whatever the threads were doing when it    *)
(* began: nobody waits for a thread that waits in turn.                    *)
DestructionEnds == dying ~> pc = "destroyed"
=============================================================================
