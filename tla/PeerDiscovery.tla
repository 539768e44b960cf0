--------------------------- MODULE PeerDiscovery ---------------------------
(***************************************************************************)
(* network/peer_discovery.cpp together with the callbacks that             *)
(* Orchestrator::start registers and the ClusterViewManager they update,   *)
(* seen from one node, Self.  Every node broadcasts adverts over UDP       *)
(* (lost, duplicated and reordered at will); Self's listener thread and    *)
(* its eviction thread share known_peers_ under a mutex but run the        *)
(* callbacks after releasing it.  Discovery on Self can be stopped and     *)
(* started again.  stop() does not join; start() creates each new thread   *)
(* before it joins its predecessor, so old and new threads overlap.        *)
(*                                                                         *)
(* Time is counted in ticks.  The listener is not stalled for a whole peer *)
(* timeout between inserting a peer and running its callback.  Adverts     *)
(* that fail the size, magic or version check change nothing and are left  *)
(* out.                                                                    *)
(***************************************************************************)
EXTENDS Integers, FiniteSets

CONSTANTS
    Nodes, Self,
    WireIds,       \* node ids as they read after a trip through an advert
    Wire,          \* build_advert / parse_advert: keeps 31 characters
    Loads,         \* resource readings a scheduler can tell apart
    NoReading,     \* the zeroes of a default-constructed ResourceSnapshot
    PeerTimeout,   \* peer_timeout_ms, in ticks
    MaxAir         \* bound: different adverts in flight at a time

Ids == Nodes \cup WireIds

ASSUME DiscoveryAssumption ==
    /\ Self \in Nodes
    /\ Wire \in [Nodes -> WireIds]
    /\ NoReading \notin Loads
    /\ PeerTimeout \in Nat
    /\ MaxAir \in Nat

VARIABLES
    up,          \* nodes that are running and in radio range
    resources,   \* local_resources_ of each node
    air,         \* adverts in flight
    known,       \* known_peers_: id -> [load, age]
    view,        \* ClusterViewManager::peers_: id -> load
    owner,       \* where Self's owner is in start() and stop()
    place,       \* which of two places the threads of the last start() have
    listen,      \* life of the listener threads
    evict,       \* life of the eviction threads
    listener,    \* <<>>, or <<the advert>> whose callback is still to run
    evicted      \* peers erased by an eviction thread, callbacks to run

network == <<up, resources, air>>
life == <<owner, place, listen, evict>>
vars == <<network, known, view, life, listener, evicted>>

(* A thread that was asked to stop may still finish one round ("stopping"  *)
(* until it begins one, "last" after).                                     *)
Places == {0, 1}

Readings == Loads \cup {NoReading}
Adverts == [id : WireIds, load : Readings]

Without(f, S) == [i \in DOMAIN f \ S |-> f[i]]
With(f, i, v) == [j \in DOMAIN f \cup {i} |-> IF j = i THEN v ELSE f[j]]

Init ==
    /\ up = Nodes
    /\ resources = [n \in Nodes |-> NoReading]
    /\ air = {}
    /\ known = <<>>
    /\ view = <<>>
    /\ owner = "stopped" /\ place = 0
    /\ listen = [p \in Places |-> "none"]
    /\ evict = [p \in Places |-> "none"]
    /\ listener = [p \in Places |-> <<>>]
    /\ evicted = [p \in Places |-> {}]

-----------------------------------------------------------------------------
(* The environment: nodes come and go, time passes, UDP loses adverts. *)

Fail(n) ==
    /\ n \in up /\ n # Self
    /\ up' = up \ {n}
    /\ UNCHANGED <<resources, air, known, view, life, listener, evicted>>

Recover(n) ==
    /\ n \notin up
    /\ up' = up \cup {n}
    /\ UNCHANGED <<resources, air, known, view, life, listener, evicted>>

Lose(m) ==
    /\ m \in air
    /\ air' = air \ {m}
    /\ UNCHANGED <<up, resources, known, view, life, listener, evicted>>

(* The peers whose callback a listener is about to run *)
Announced == UNION {{listener[p][i].id : i \in DOMAIN listener[p]} : p \in Places}

(* Ages saturate just above the timeout.  The callback for a new peer ends *)
(* before the peer is overdue: it inserts into a map, the timeout is       *)
(* seconds.                                                                *)
Tick ==
    /\ \A i \in Announced \cap DOMAIN known : known[i].age < PeerTimeout
    /\ known' = [i \in DOMAIN known |->
                    [known[i] EXCEPT !.age = IF @ > PeerTimeout THEN @ ELSE @ + 1]]
    /\ UNCHANGED <<network, view, life, listener, evicted>>

-----------------------------------------------------------------------------
(* Every node: resource updates and the broadcast loop *)

UpdateLocalResources(n, load) ==
    /\ resources[n] # load
    /\ resources' = [resources EXCEPT ![n] = load]
    /\ UNCHANGED <<up, air, known, view, life, listener, evicted>>

Broadcast(n) ==
    /\ n \in up
    /\ Cardinality(air) < MaxAir
    /\ air' = air \cup {[id |-> Wire[n], load |-> resources[n]]}
    /\ UNCHANGED <<up, resources, known, view, life, listener, evicted>>

-----------------------------------------------------------------------------
(* start() and stop() on Self *)

Ask(thread) == IF thread = "run" THEN "stopping" ELSE thread

(* A socket that cannot be created or bound ends start() without threads. *)
StartFails ==
    /\ owner = "stopped" /\ owner' = "deaf"
    /\ UNCHANGED <<network, known, view, place, listen, evict, listener, evicted>>

StartListener ==
    /\ owner = "stopped" /\ owner' = "join_listener"
    /\ place' = 1 - place
    /\ listen' = [listen EXCEPT ![1 - place] = "run", ![place] = Ask(@)]
    /\ UNCHANGED <<network, known, view, evict, listener, evicted>>

(* The old listener is joined, then the eviction thread is replaced. *)
StartEviction ==
    /\ owner = "join_listener" /\ owner' = "join_eviction"
    /\ listen[1 - place] = "none"
    /\ evict' = [evict EXCEPT ![place] = "run", ![1 - place] = Ask(@)]
    /\ UNCHANGED <<network, known, view, place, listen, listener, evicted>>

Started ==
    /\ owner = "join_eviction" /\ owner' = "started"
    /\ evict[1 - place] = "none"
    /\ UNCHANGED <<network, known, view, place, listen, evict, listener, evicted>>

Stop ==
    /\ owner \in {"started", "deaf"} /\ owner' = "stopped"
    /\ listen' = [listen EXCEPT ![place] = Ask(@)]
    /\ evict' = [evict EXCEPT ![place] = Ask(@)]
    /\ UNCHANGED <<network, known, view, place, listener, evicted>>

-----------------------------------------------------------------------------
(* The listen loop of the thread in place p.  An advert may be delivered   *)
(* again later; one that carries Self's own id is skipped.                 *)

Receive(p, m) ==
    /\ listen[p] \in {"run", "stopping"} /\ listener[p] = <<>>
    /\ m \in air /\ m.id # Self
    /\ known' = With(known, m.id, [load |-> m.load, age |-> 0])
    /\ listener' = [listener EXCEPT ![p] = IF m.id \in DOMAIN known THEN <<>> ELSE <<m>>]
    /\ listen' = [listen EXCEPT ![p] = IF @ = "stopping" THEN "last" ELSE @]
    /\ UNCHANGED <<network, view, owner, place, evict, evicted>>

(* notify_discovered -> ClusterViewManager::update_peer *)
NotifyDiscovered(p) ==
    /\ listener[p] # <<>>
    /\ view' = With(view, listener[p][1].id, listener[p][1].load)
    /\ listener' = [listener EXCEPT ![p] = <<>>]
    /\ UNCHANGED <<network, known, life, evicted>>

(* Variant: the loop ends on a closed socket only. *)
ListenerEndsUnlessReopened(p) ==
    /\ listen[p] \in {"stopping", "last"} /\ listener[p] = <<>>
    /\ owner = "stopped"
    /\ listen' = [listen EXCEPT ![p] = "none"]
    /\ UNCHANGED <<network, known, view, owner, place, evict, listener, evicted>>

ListenerEnds(p) ==
    /\ listen[p] \in {"stopping", "last"} /\ listener[p] = <<>>
    /\ listen' = [listen EXCEPT ![p] = "none"]
    /\ UNCHANGED <<network, known, view, owner, place, evict, listener, evicted>>

-----------------------------------------------------------------------------
(* The eviction loop of the thread in place p *)

Expired == {i \in DOMAIN known : known[i].age > PeerTimeout}

(* Variant: expired peers are erased without being collected. *)
SweepSilently(p) ==
    /\ evict[p] \in {"run", "stopping"} /\ evicted[p] = {} /\ Expired # {}
    /\ known' = Without(known, Expired)
    /\ UNCHANGED <<network, view, life, listener, evicted>>

Sweep(p) ==
    /\ evict[p] \in {"run", "stopping"} /\ evicted[p] = {} /\ Expired # {}
    /\ known' = Without(known, Expired)
    /\ evicted' = [evicted EXCEPT ![p] = Expired]
    /\ evict' = [evict EXCEPT ![p] = IF @ = "stopping" THEN "last" ELSE @]
    /\ UNCHANGED <<network, view, owner, place, listen, listener>>

(* Variant: remove_peer is not called. *)
NotifyLostKeepsPeer(p, i) ==
    /\ i \in evicted[p]
    /\ evicted' = [evicted EXCEPT ![p] = @ \ {i}]
    /\ UNCHANGED <<network, known, view, life, listener>>

(* notify_lost -> ClusterViewManager::remove_peer *)
NotifyLost(p, i) ==
    /\ i \in evicted[p]
    /\ view' = Without(view, {i})
    /\ evicted' = [evicted EXCEPT ![p] = @ \ {i}]
    /\ UNCHANGED <<network, known, life, listener>>

EvictionEnds(p) ==
    /\ evict[p] \in {"stopping", "last"} /\ evicted[p] = {}
    /\ evict' = [evict EXCEPT ![p] = "none"]
    /\ UNCHANGED <<network, known, view, owner, place, listen, listener, evicted>>

Next ==
    \/ \E n \in Nodes : \/ Fail(n) \/ Recover(n) \/ Broadcast(n)
                        \/ \E l \in Loads : UpdateLocalResources(n, l)
    \/ Tick
    \/ StartFails \/ StartListener \/ StartEviction \/ Started \/ Stop
    \/ \E m \in air : Lose(m) \/ \E p \in Places : Receive(p, m)
    \/ \E p \in Places : \/ NotifyDiscovered(p) \/ ListenerEnds(p)
                         \/ Sweep(p) \/ EvictionEnds(p)
                         \/ \E i \in WireIds : NotifyLost(p, i)

(* The threads keep running, start() gets through, time passes.  Adverts   *)
(* of a dead node do not stay in the air for ever.                         *)
Fairness ==
    /\ WF_vars(Tick) /\ WF_vars(StartEviction) /\ WF_vars(Started)
    /\ \A p \in Places :
          /\ WF_vars(NotifyDiscovered(p)) /\ WF_vars(ListenerEnds(p))
          /\ WF_vars(Sweep(p)) /\ WF_vars(EvictionEnds(p))
          /\ \A i \in WireIds : WF_vars(NotifyLost(p, i))
    /\ \A m \in Adverts : SF_vars(Lose(m))

Spec == Init /\ [][Next]_vars
FairSpec == Spec /\ Fairness

-----------------------------------------------------------------------------
(* Properties *)

(* No ghost peers: a peer the scheduler can see is known to discovery, or  *)
(* its removal is already on an eviction thread's list.  A peer a listener *)
(* is about to announce is still known, so the callback never resurrects   *)
(* one, and the node itself is never known ("Ignore our own broadcasts").  *)
(* All of this also while old and new threads overlap in a restart.        *)
NoGhostPeers ==
    /\ DOMAIN view \subseteq DOMAIN known \cup UNION {evicted[p] : p \in Places}
    /\ Announced \subseteq DOMAIN known
    /\ Self \notin DOMAIN known

(* A peer that falls silent for good leaves the cluster view for good,     *)
(* once discovery is started for good: also when it fell silent while      *)
(* discovery was stopped.                                                  *)
SilentPeerForgotten ==
    \A n \in Nodes :
        <>[](n \notin up /\ owner = "started") => <>[](Wire[n] \notin DOMAIN view)

(* start() returns although it waits for the threads of the last start():  *)
(* they see that they are to stop, even where the socket they poll has     *)
(* been opened anew.                                                       *)
RestartReturns == owner = "join_listener" ~> owner = "started"

Settled == \A p \in Places : listener[p] = <<>> /\ evicted[p] = {}

(* "Integrates with ClusterViewManager to maintain a consistent cluster    *)
(* view": with no callback outstanding, discovery and view agree on who is *)
(* in the cluster.                                                         *)
ViewIsConsistent == Settled => DOMAIN view = DOMAIN known
=============================================================================
