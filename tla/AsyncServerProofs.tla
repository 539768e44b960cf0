------------------------- MODULE AsyncServerProofs -------------------------
(***************************************************************************)
(* The reactor and the server on top of it, for any number of connections  *)
(* and handler threads.  The proof follows the composition: what Reactor   *)
(* guarantees is proved of ReactorSpec alone, the server is shown to be a  *)
(* refinement of it, and the guarantee carries over.                       *)
(***************************************************************************)
EXTENDS AsyncServer, FiniteSetTheorems, TLAPS

(* run() fills the batch only when the last one is used up, and events are *)
(* looked at in the round that fetched them.                               *)
RoundInv ==
    /\ ExactlyOnePlace
    /\ loop \notin {"resume", "drain_resume"} => batch = {}
    /\ loop # "collect" => events = {}

LEMMA ReactorStep == RoundInv /\ [ReactorNext]_reactorVars => RoundInv'
<1> SUFFICES ASSUME RoundInv, [ReactorNext]_reactorVars PROVE RoundInv'
  OBVIOUS
<1> USE DEF RoundInv, ExactlyOnePlace
<1>1. CASE \E c \in Coros : Park(c)
  BY <1>1 DEF Park
<1>2. CASE \E c \in Coros : Refuse(c) \/ Detach(c) \/ Expire(c)
  BY <1>2 DEF Refuse, Detach, Expire
<1>3. CASE CheckStop
  BY <1>3 DEF CheckStop
<1>4. CASE Collect
  BY <1>4 DEF Collect
<1>5. CASE EndBatch
  BY <1>5 DEF EndBatch
<1>6. CASE Drain
  BY <1>6 DEF Drain
<1>7. CASE \E fds \in SUBSET waiters : EpollWait(fds)
  BY <1>7 DEF EpollWait
<1>8. CASE \E c \in Coros : Resume(c)
  BY <1>8 DEF Resume
<1>9. CASE RequestStop
  BY <1>9 DEF RequestStop
<1>10. CASE UNCHANGED reactorVars
  BY <1>10 DEF reactorVars
<1> QED BY <1>1, <1>2, <1>3, <1>4, <1>5, <1>6, <1>7, <1>8, <1>9, <1>10 DEF ReactorNext, Run

LEMMA ReactorRounds == ReactorSpec => []RoundInv
<1>1. ReactorInit => RoundInv
  BY DEF ReactorInit, RoundInv, ExactlyOnePlace
<1> QED BY <1>1, ReactorStep, PTL DEF ReactorSpec

(* Whatever runs on the reactor, from however many threads: a suspended    *)
(* coroutine is in the waiter table or in the batch and not in both, so it *)
(* is resumed exactly once per suspension.                                 *)
THEOREM ReactorCorrect == ReactorSpec => []ExactlyOnePlace
<1>1. RoundInv => ExactlyOnePlace
  BY DEF RoundInv
<1> QED BY <1>1, ReactorRounds, PTL

-----------------------------------------------------------------------------
LEMMA ServerStepIsReactorStep == [Next]_vars => [ReactorNext]_reactorVars
<1> SUFFICES ASSUME [Next]_vars PROVE [ReactorNext]_reactorVars
  OBVIOUS
<1> USE ServerAssumption
<1>1. CASE \E c \in Coros : DeadlinePasses(c)
  BY <1>1 DEF DeadlinePasses, ReactorNext
<1>2. CASE ReactorThread
  BY <1>2 DEF ReactorThread, ReactorNext
<1>3. CASE AcceptLoop
  <2>1. Acceptor \in Coros
    OBVIOUS
  <2> QED BY <1>3, <2>1 DEF AcceptLoop, AcceptAwait, AcceptResumed, AcceptDrained, Accept, ReactorNext
<1>4. CASE \E c \in Conns : Connect(c) \/ HandleConnection(c) \/ HandlerReturns(c)
  <2> PICK c \in Conns : Connect(c) \/ HandleConnection(c) \/ HandlerReturns(c)
    BY <1>4
  <2>1. c \in Coros
    OBVIOUS
  <2>2. CASE IoAwait(c)
    BY <2>1, <2>2 DEF IoAwait, ReactorNext
  <2>3. CASE Hop(c) \/ Close(c)
    BY <2>1, <2>3 DEF Hop, Close, ReactorNext
  <2>4. CASE Connect(c) \/ IoDone(c) \/ IoFails(c) \/ IoResumed(c) \/ HandlerReturns(c)
    BY <2>4 DEF Connect, IoDone, IoFails, IoResumed, HandlerReturns
  <2> QED BY <2>2, <2>3, <2>4 DEF HandleConnection
<1>5. CASE StopReactor
  BY <1>5 DEF StopReactor, ReactorNext
<1>6. CASE \/ \E h \in Handlers : TakeHop(h)
           \/ StopServing \/ JoinReactor \/ StopReturns \/ JoinPool \/ DestroyHandler \/ Gone
  BY <1>6 DEF TakeHop, StopServing, JoinReactor, StopReturns, JoinPool, DestroyHandler, Gone, vars
<1>7. CASE UNCHANGED vars
  BY <1>7 DEF vars
<1> QED BY <1>1, <1>2, <1>3, <1>4, <1>5, <1>6, <1>7 DEF Next, Teardown

(* Every step of accept_loop, of a connection, of the pool and of the      *)
(* teardown is a step of the reactor or leaves it alone.                   *)
THEOREM ServerUsesReactor == Spec => UsesReactor
<1>1. Init => ReactorInit
  BY DEF Init
<1> QED BY <1>1, ServerStepIsReactorStep, PTL DEF Spec, UsesReactor, ReactorSpec

(* Hence the server's coroutines are resumed exactly once as well. *)
THEOREM ServerResumesOnce == Spec => []ExactlyOnePlace
BY ServerUsesReactor, ReactorCorrect, PTL DEF UsesReactor

-----------------------------------------------------------------------------
(* One thread per connection *)

Idle(c) == cur # c /\ nested # c /\ \A h \in Handlers : by[h] # c
Queued(c) == \E i \in 1 .. Len(hops) : hops[i] = c

Kinds ==
    /\ hops \in Seq(Conns)
    /\ by \in [Handlers -> Conns \cup {NoCoro}]
    /\ DOMAIN conn = Conns
    /\ \A i, j \in 1 .. Len(hops) : hops[i] = hops[j] => i = j

(* Where a connection can be, by its control point *)
Placed ==
    \A c \in Conns :
        /\ cur = c => nested # c /\ \A h \in Handlers : by[h] # c
        /\ nested = c => \A h \in Handlers : by[h] # c
        /\ \A g, h \in Handlers : by[g] = c /\ by[h] = c => g = h
        /\ c \in parked => cur # c /\ conn[c] \in {"read_wait", "write_wait"}
        /\ Queued(c) => conn[c] = "queued"
        /\ conn[c] \in {"none", "backlog", "queued"} => Idle(c)
        /\ conn[c] \in {"read_wait", "write_wait"} =>
              nested # c /\ \A h \in Handlers : by[h] # c

ThreadInv == RoundInv /\ Kinds /\ Placed

LEMMA PlacedImpliesOneThread == ThreadInv => OneThreadPerConnection
<1> SUFFICES ASSUME ThreadInv, NEW c \in Conns
             PROVE  /\ Cardinality(RunnersOf(c)) <= 1
                    /\ c \in parked \cup {hops[i] : i \in 1 .. Len(hops)} => RunnersOf(c) = {}
  BY DEF OneThreadPerConnection
<1>1. RunnersOf(c) = {} \/ \E r : RunnersOf(c) = {r}
  <2>1. CASE cur = c
    <3>1. RunnersOf(c) = {"reactor"}
      BY <2>1 DEF ThreadInv, Placed, RunnersOf
    <3> QED BY <3>1
  <2>2. CASE nested = c
    <3>1. RunnersOf(c) = {"accept_loop"}
      BY <2>2 DEF ThreadInv, Placed, RunnersOf
    <3> QED BY <3>1
  <2>3. CASE \E h \in Handlers : by[h] = c
    <3> PICK h \in Handlers : by[h] = c
      BY <2>3
    <3>1. RunnersOf(c) = {h}
      BY DEF ThreadInv, Placed, RunnersOf
    <3> QED BY <3>1
  <2>4. CASE Idle(c)
    BY <2>4 DEF Idle, RunnersOf
  <2> QED BY <2>1, <2>2, <2>3, <2>4 DEF Idle
<1>2. Cardinality(RunnersOf(c)) <= 1
  <2>1. Cardinality({}) = 0
    BY FS_EmptySet
  <2>2. \A r : Cardinality({r}) = 1
    BY FS_Singleton
  <2>3. CASE RunnersOf(c) = {}
    BY <2>1, <2>3
  <2>4. CASE \E r : RunnersOf(c) = {r}
    BY <2>2, <2>4
  <2> QED BY <1>1, <2>3, <2>4
<1>3. ASSUME c \in parked \cup {hops[i] : i \in 1 .. Len(hops)} PROVE RunnersOf(c) = {}
  <2>1. c \in parked \/ Queued(c)
    BY <1>3 DEF Queued
  <2>2. Idle(c)
    BY <2>1 DEF ThreadInv, Placed, Idle
  <2> QED BY <2>2 DEF Idle, RunnersOf
<1> QED BY <1>2, <1>3

LEMMA ThreadInit == Init => Kinds /\ Placed
<1> SUFFICES ASSUME Init PROVE Kinds /\ Placed
  OBVIOUS
<1> USE NoCoroAssumption, ServerAssumption
<1>1. Kinds
  BY DEF Init, Kinds
<1>2. \A c \in Conns : Idle(c) /\ ~Queued(c) /\ c \notin parked /\ conn[c] = "none"
  BY DEF Init, ReactorInit, Idle, Queued
<1> QED BY <1>1, <1>2 DEF Placed, Idle

LEMMA ThreadStep == ThreadInv /\ [Next]_vars => (Kinds /\ Placed)'
<1> SUFFICES ASSUME ThreadInv, [Next]_vars PROVE Kinds' /\ Placed'
  OBVIOUS
<1> USE NoCoroAssumption, ServerAssumption
<1> USE DEF ThreadInv
<1>0. ASSUME UNCHANGED hops, NEW c \in Conns PROVE Queued(c)' <=> Queued(c)
  BY <1>0 DEF Queued
<1>1. CASE \E c \in Coros : DeadlinePasses(c)
  BY <1>0, <1>1 DEF DeadlinePasses, Expire, serverVars, Kinds, Placed, Idle
<1>2. CASE ReactorThread
  <2>1. CASE CheckStop \/ EndBatch \/ \E fds \in SUBSET waiters : EpollWait(fds)
    BY <1>0, <1>2, <2>1 DEF ReactorThread, CheckStop, EndBatch, EpollWait, serverVars, Kinds, Placed, Idle
  <2>2. CASE Collect
    BY <1>0, <1>2, <2>2 DEF ReactorThread, Collect, serverVars, Kinds, Placed, Idle
  <2>3. CASE Drain
    BY <1>0, <1>2, <2>3 DEF ReactorThread, Drain, serverVars, Kinds, Placed, Idle
  <2>4. CASE \E c \in Coros : Resume(c)
    <3> PICK c \in Coros : Resume(c)
      BY <2>4
    <3>1. c \in parked
      BY DEF Resume, RoundInv, ExactlyOnePlace
    <3>2. c \in Conns => ~Queued(c) /\ conn[c] \in {"read_wait", "write_wait"}
      BY <3>1 DEF Placed
    <3> QED BY <1>0, <1>2, <3>2 DEF ReactorThread, Resume, serverVars, Kinds, Placed, Idle
  <2> QED BY <1>2, <2>1, <2>2, <2>3, <2>4 DEF ReactorThread, Run
<1>3. CASE AcceptAwait
  BY <1>0, <1>3 DEF AcceptAwait, Park, Refuse, Leave, Kinds, Placed, Idle
<1>4. CASE AcceptResumed \/ AcceptDrained
  BY <1>0, <1>4 DEF AcceptResumed, AcceptDrained, Detach, reactorVars, Kinds, Placed, Idle
<1>5. CASE \E c \in Conns : Accept(c) \/ Connect(c)
  BY <1>0, <1>5 DEF Accept, Connect, reactorVars, Kinds, Placed, Idle
<1>6. CASE \E c \in Conns : IoDone(c) \/ IoFails(c) \/ IoResumed(c) \/ HandlerReturns(c)
  <2> PICK c \in Conns : IoDone(c) \/ IoFails(c) \/ IoResumed(c) \/ HandlerReturns(c)
    BY <1>6
  <2>1. /\ conn[c] \in {"read", "write", "handler", "read_wait", "write_wait"}
        /\ conn[c] \in {"read_wait", "write_wait"} => cur = c
        /\ conn' \in {[conn EXCEPT ![c] = l] : l \in {"got_request", "close", "read", "write"}}
    BY DEF IoDone, IoFails, IoResumed, HandlerReturns
  <2>2. UNCHANGED <<reactorVars, nested, hops, by>>
    BY DEF IoDone, IoFails, IoResumed, HandlerReturns
  <2> QED BY <1>0, <2>1, <2>2 DEF reactorVars, Kinds, Placed, Idle
<1>7. CASE \E c \in Conns : IoAwait(c)
  <2> PICK c \in Conns : IoAwait(c)
    BY <1>7
  <2>0. conn[c] \in {"read", "write"} /\ hops' = hops /\ ~Queued(c)
    BY DEF IoAwait, Placed
  <2>1. CASE /\ Park(c) /\ LeaveThread(c)
             /\ conn' = [conn EXCEPT ![c] = IF @ = "read" THEN "read_wait" ELSE "write_wait"]
    <3>1. /\ cur' = IF cur = c THEN NoCoro ELSE cur
          /\ parked' = parked \cup {c}
          /\ conn'[c] \in {"read_wait", "write_wait"}
          /\ DOMAIN conn' = Conns /\ \A d \in Conns : d # c => conn'[d] = conn[d]
      BY <2>0, <2>1 DEF Park, Leave, Kinds
    <3>2. Kinds'
      BY <2>0, <2>1, <3>1 DEF LeaveThread, Kinds
    <3>3. Placed'
      BY <1>0, <2>0, <2>1, <3>1 DEF LeaveThread, Kinds, Placed, Idle
    <3> QED BY <3>2, <3>3
  <2>2. CASE /\ Refuse(c) /\ conn' = [conn EXCEPT ![c] = "close"]
             /\ UNCHANGED <<nested, by>>
    BY <1>0, <2>0, <2>2 DEF Refuse, Kinds, Placed, Idle
  <2> QED BY <2>1, <2>2 DEF IoAwait
<1>8. CASE \E c \in Conns : Hop(c)
  <2> PICK c \in Conns : Hop(c)
    BY <1>8
  <2>1. CASE stopping
    BY <1>0, <2>1 DEF Hop, reactorVars, Kinds, Placed, Idle
  <2>2. CASE ~stopping
    <3>1. ~Queued(c) /\ c \notin parked
      BY DEF Hop, Placed
    <3>2. /\ Len(hops') = Len(hops) + 1 /\ hops' \in Seq(Conns)
          /\ \A i \in 1 .. Len(hops') : hops'[i] = IF i <= Len(hops) THEN hops[i] ELSE c
      <4>1. hops' = Append(hops, c) /\ hops \in Seq(Conns)
        BY <2>2 DEF Hop, Kinds
      <4> QED BY <4>1
    <3>3. \A d \in Conns : Queued(d)' <=> Queued(d) \/ d = c
      BY <3>2 DEF Queued, Kinds
    <3>4. Kinds'
      BY <2>2, <3>1, <3>2 DEF Hop, LeaveThread, Kinds, Queued
    <3>5. /\ cur' = IF cur = c THEN NoCoro ELSE cur
          /\ parked' = parked /\ LeaveThread(c)
          /\ conn' = [conn EXCEPT ![c] = "queued"]
      BY <2>2 DEF Hop, Detach, reactorVars
    <3>6. Placed'
      BY <3>1, <3>3, <3>5 DEF LeaveThread, Kinds, Placed, Idle
    <3> QED BY <3>4, <3>6
  <2> QED BY <2>1, <2>2
<1>9. CASE \E h \in Handlers : TakeHop(h)
  <2> PICK h \in Handlers : TakeHop(h)
    BY <1>9
  <2>0. PICK c : c = Head(hops)
    OBVIOUS
  <2>1. c \in Conns /\ c = hops[1] /\ Len(hops) \in Nat \ {0}
    BY <2>0 DEF TakeHop, Kinds
  <2>2. /\ Len(hops') = Len(hops) - 1 /\ hops' \in Seq(Conns)
        /\ \A i \in 1 .. Len(hops') : hops'[i] = hops[i + 1]
    BY DEF TakeHop, Kinds
  <2>3. Queued(c) /\ conn[c] = "queued" /\ Idle(c)
    BY <2>1 DEF Queued, Placed
  <2>4. \A i \in 1 .. Len(hops') : i + 1 \in 1 .. Len(hops) /\ hops'[i] = hops[i + 1] /\ i + 1 # 1
    BY <2>1, <2>2
  <2>5. \A d \in Conns : Queued(d)' => Queued(d)
    BY <2>4 DEF Queued
  <2>6. ~Queued(c)'
    <3>1. \A i \in 1 .. Len(hops') : hops'[i] # hops[1]
      <4>1. 1 \in 1 .. Len(hops)
        BY <2>1
      <4> QED BY <2>4, <4>1 DEF Kinds
    <3> QED BY <2>1, <3>1 DEF Queued
  <2>7. Kinds'
    <3>1. \A i, j \in 1 .. Len(hops') : hops'[i] = hops'[j] => i = j
      BY <2>1, <2>2 DEF Kinds
    <3> QED BY <2>1, <2>2, <3>1 DEF TakeHop, Kinds
  <2>8. /\ UNCHANGED <<cur, nested, parked>>
        /\ by' = [by EXCEPT ![h] = c] /\ by[h] = NoCoro
        /\ conn' = [conn EXCEPT ![c] = "handler"]
    BY <2>0 DEF TakeHop, reactorVars
  <2>9. Placed'
    BY <2>1, <2>3, <2>5, <2>6, <2>8 DEF Kinds, Placed, Idle
  <2> QED BY <2>7, <2>9
<1>10. CASE \E c \in Conns : Close(c)
  <2> PICK c \in Conns : Close(c)
    BY <1>10
  <2>1. /\ cur' = IF cur = c THEN NoCoro ELSE cur
        /\ parked' = parked /\ LeaveThread(c) /\ hops' = hops
        /\ conn' = [conn EXCEPT ![c] = "none"] /\ conn[c] = "close"
    BY DEF Close, Detach, reactorVars
  <2> QED BY <1>0, <2>1 DEF LeaveThread, Kinds, Placed, Idle
<1>11. CASE StopReturns
  BY <1>0, <1>11 DEF StopReturns, reactorVars, Kinds, Placed, Idle
<1>12. CASE StopReactor
  BY <1>0, <1>12 DEF StopReactor, RequestStop, Kinds, Placed, Idle
<1>13. CASE StopServing \/ JoinReactor \/ JoinPool \/ DestroyHandler \/ Gone \/ UNCHANGED vars
  BY <1>0, <1>13 DEF StopServing, JoinReactor, JoinPool, DestroyHandler, Gone, vars, serverVars,
                     reactorVars, Kinds, Placed, Idle
<1> QED BY <1>1, <1>2, <1>3, <1>4, <1>5, <1>6, <1>7, <1>8, <1>9, <1>10, <1>11, <1>12, <1>13
        DEF Next, AcceptLoop, HandleConnection, Teardown

LEMMA ServerThreads == Spec => []ThreadInv
<1>1. Spec => []RoundInv
  BY ServerUsesReactor, ReactorRounds, PTL DEF UsesReactor
<1>2. RoundInv /\ (Kinds /\ Placed) /\ [Next]_vars => (Kinds /\ Placed)'
  BY ThreadStep DEF ThreadInv
<1>3. RoundInv /\ (Kinds /\ Placed) => ThreadInv
  BY DEF ThreadInv
<1> QED BY <1>1, <1>2, <1>3, ThreadInit, PTL DEF Spec

(* A connection's coroutine never runs on two threads at once, whatever    *)
(* the order of readiness, deadlines, hops to the pool and the teardown;   *)
(* one that is suspended or queued runs nowhere.                           *)
THEOREM ConnectionOnOneThread == Spec => []OneThreadPerConnection
BY ServerThreads, PlacedImpliesOneThread, PTL

-----------------------------------------------------------------------------
(* The reactor's exit leaves nobody behind *)

(* run() leaves its loop only when stop was requested, and its drain only  *)
(* with an empty waiter table; the reactor thread runs a coroutine only    *)
(* inside a round, and not while it is suspended.                          *)
LoopInv ==
    /\ DOMAIN ready = Coros
    /\ loop \in {"drain", "drain_resume", "exited"} => stop
    /\ loop = "exited" => waiters = {}
    /\ cur # NoCoro => loop \in {"resume", "drain_resume"} /\ cur \notin parked

(* accept4 is called on the reactor thread only: a registration that was   *)
(* refused on the thread of serve() is not ready.                          *)
AcceptInv ==
    /\ nested # NoCoro => acceptor = "accept"
    /\ acceptor = "accept" => cur = Acceptor
    /\ acceptor = "resumed" => ~ ready[Acceptor]
    /\ Acceptor \in parked => acceptor = "waiting"

Located(c) ==
    \/ conn[c] \in {"none", "backlog", "queued"}
    \/ conn[c] \in {"read", "got_request", "handler", "write", "close"} /\ Runs(c)
    \/ conn[c] \in {"read_wait", "write_wait"} /\ (c \in parked \/ cur = c)

LEMMA LoopStep == RoundInv /\ LoopInv /\ [ReactorNext]_reactorVars => LoopInv'
<1> SUFFICES ASSUME RoundInv, LoopInv, [ReactorNext]_reactorVars PROVE LoopInv'
  OBVIOUS
<1> USE DEF LoopInv
<1>1. CASE \E c \in Coros : Park(c)
  BY <1>1 DEF Park, Leave
<1>2. CASE \E c \in Coros : Refuse(c) \/ Detach(c) \/ Expire(c)
  BY <1>2 DEF Refuse, Detach, Expire
<1>3. CASE CheckStop
  BY <1>3 DEF CheckStop
<1>4. CASE Collect
  BY <1>4 DEF Collect
<1>5. CASE EndBatch
  BY <1>5 DEF EndBatch
<1>6. CASE Drain
  BY <1>6 DEF Drain
<1>7. CASE \E fds \in SUBSET waiters : EpollWait(fds)
  BY <1>7 DEF EpollWait
<1>8. CASE \E c \in Coros : Resume(c)
  BY <1>8 DEF Resume
<1>9. CASE RequestStop
  BY <1>9 DEF RequestStop
<1>10. CASE UNCHANGED reactorVars
  BY <1>10 DEF reactorVars
<1> QED BY <1>1, <1>2, <1>3, <1>4, <1>5, <1>6, <1>7, <1>8, <1>9, <1>10 DEF ReactorNext, Run

LEMMA AcceptStep == ThreadInv /\ LoopInv /\ AcceptInv /\ [Next]_vars => AcceptInv'
<1> SUFFICES ASSUME ThreadInv, LoopInv, AcceptInv, [Next]_vars PROVE AcceptInv'
  OBVIOUS
<1> USE NoCoroAssumption, ServerAssumption DEF AcceptInv
<1>0. Acceptor \in Coros /\ Acceptor # NoCoro /\ Acceptor \notin Conns
  OBVIOUS
<1>1. CASE \E c \in Coros : DeadlinePasses(c)
  BY <1>1 DEF DeadlinePasses, Expire, serverVars
<1>2. CASE ReactorThread
  <2>0. UNCHANGED <<nested, acceptor>>
    BY <1>2 DEF ReactorThread, serverVars
  <2>1. CASE CheckStop \/ EndBatch \/ \E fds \in SUBSET waiters : EpollWait(fds)
    BY <2>0, <2>1 DEF CheckStop, EndBatch, EpollWait
  <2>2. CASE Collect \/ Drain
    <3>1. UNCHANGED <<cur, parked>>
      BY <2>2 DEF Collect, Drain
    <3>2. Acceptor \notin waiters => ready'[Acceptor] = ready[Acceptor]
      BY <1>0, <2>2 DEF Collect, Drain
    <3>3. Acceptor \in waiters => acceptor = "waiting"
      BY DEF ThreadInv, RoundInv, ExactlyOnePlace
    <3> QED BY <2>0, <3>1, <3>2, <3>3
  <2>3. CASE \E c \in Coros : Resume(c)
    BY <2>0, <2>3 DEF Resume
  <2> QED BY <1>2, <2>1, <2>2, <2>3 DEF ReactorThread, Run
<1>3. CASE AcceptAwait
  BY <1>0, <1>3 DEF AcceptAwait, Park, Refuse, LoopInv
<1>4. CASE AcceptResumed
  <2>1. UNCHANGED <<nested, ready, parked>> /\ (~stopping => cur' = cur)
    BY <1>4 DEF AcceptResumed, Detach, reactorVars
  <2>2. Acceptor \in parked => acceptor = "waiting" /\ cur # Acceptor
    <3>1. acceptor = "waiting" /\ cur = Acceptor => Acceptor \notin parked
      BY <1>0 DEF LoopInv
    <3> QED BY <3>1
  <2> QED BY <1>4, <2>1, <2>2 DEF AcceptResumed
<1>5. CASE AcceptDrained
  BY <1>5 DEF AcceptDrained, Detach, reactorVars
<1>6. CASE \E c \in Conns : Accept(c) \/ Connect(c)
  BY <1>6 DEF Accept, Connect, reactorVars
<1>7. CASE \E c \in Conns : HandleConnection(c) \/ HandlerReturns(c)
  <2> PICK c \in Conns : HandleConnection(c) \/ HandlerReturns(c)
    BY <1>7
  <2>1. /\ acceptor' = acceptor
        /\ nested' \in {nested, NoCoro}
        /\ cur' = cur \/ cur = c
        /\ ready' = ready \/ ready' = [ready EXCEPT ![c] = FALSE]
        /\ parked' \subseteq parked \cup {c}
    <3>1. CASE IoAwait(c)
      BY <3>1 DEF IoAwait, LeaveThread, Park, Leave, Refuse
    <3>2. CASE Hop(c) \/ Close(c)
      BY <3>2 DEF Hop, Close, LeaveThread, Detach, reactorVars
    <3>3. CASE IoDone(c) \/ IoFails(c) \/ IoResumed(c) \/ HandlerReturns(c)
      BY <3>3 DEF IoDone, IoFails, IoResumed, HandlerReturns, reactorVars
    <3> QED BY <3>1, <3>2, <3>3 DEF HandleConnection
  <2> QED BY <1>0, <2>1 DEF LoopInv
<1>8. CASE \E h \in Handlers : TakeHop(h)
  BY <1>8 DEF TakeHop, reactorVars
<1>9. CASE StopReactor
  BY <1>9 DEF StopReactor, RequestStop
<1>10. CASE StopServing \/ JoinReactor \/ StopReturns \/ JoinPool \/ DestroyHandler \/ Gone \/ UNCHANGED vars
  BY <1>10 DEF StopServing, JoinReactor, StopReturns, JoinPool, DestroyHandler, Gone, vars,
               serverVars, reactorVars
<1> QED BY <1>1, <1>2, <1>3, <1>4, <1>5, <1>6, <1>7, <1>8, <1>9, <1>10
        DEF Next, AcceptLoop, Teardown

LEMMA LocatedStep ==
    ASSUME ThreadInv, LoopInv, AcceptInv, [Next]_vars, \A c \in Conns : Located(c)
    PROVE  \A c \in Conns : Located(c)'
<1> USE NoCoroAssumption, ServerAssumption
<1>0. Kinds /\ Placed /\ Conns \subseteq Coros /\ NoCoro \notin Conns
  BY DEF ThreadInv
<1> SUFFICES ASSUME NEW d \in Conns PROVE Located(d)'
  OBVIOUS
<1>d. Located(d)
  OBVIOUS
<1>s. ASSUME UNCHANGED <<conn, parked, cur, nested, by>> PROVE Located(d)'
  BY <1>d, <1>s DEF Located, Runs
<1>1. CASE \E c \in Coros : DeadlinePasses(c)
  BY <1>s, <1>1 DEF DeadlinePasses, Expire, serverVars
<1>2. CASE ReactorThread
  <2>0. UNCHANGED <<conn, nested, by>>
    BY <1>2 DEF ReactorThread, serverVars
  <2>1. CASE CheckStop \/ Collect \/ EndBatch \/ Drain \/ \E fds \in SUBSET waiters : EpollWait(fds)
    BY <1>s, <2>0, <2>1 DEF CheckStop, Collect, EndBatch, Drain, EpollWait
  <2>2. CASE \E c \in Coros : Resume(c)
    BY <1>0, <1>d, <2>0, <2>2 DEF Resume, Located, Runs
  <2> QED BY <1>2, <2>1, <2>2 DEF ReactorThread, Run
<1>3. CASE AcceptAwait
  BY <1>0, <1>d, <1>3 DEF AcceptAwait, Park, Leave, Refuse, Located, Runs
<1>4. CASE AcceptResumed \/ AcceptDrained
  BY <1>0, <1>d, <1>4 DEF AcceptResumed, AcceptDrained, Detach, reactorVars, Located, Runs
<1>5. CASE \E c \in Conns : Accept(c) \/ Connect(c)
  <2> PICK c \in Conns : Accept(c) \/ Connect(c)
    BY <1>5
  <2>1. UNCHANGED <<parked, cur, by>>
    BY DEF Accept, Connect, reactorVars
  <2>2. CASE d = c
    BY <1>0, <2>1, <2>2 DEF Accept, Connect, Located, Runs, Kinds
  <2>3. CASE d # c
    <3>1. conn'[d] = conn[d] /\ (nested = NoCoro \/ nested' = nested)
      BY <1>0, <2>3 DEF Accept, Connect, Kinds
    <3> QED BY <1>0, <1>d, <2>1, <3>1 DEF Located, Runs
  <2> QED BY <2>2, <2>3
<1>6. CASE \E c \in Conns : IoDone(c) \/ IoFails(c) \/ IoResumed(c) \/ HandlerReturns(c)
  <2> PICK c \in Conns : IoDone(c) \/ IoFails(c) \/ IoResumed(c) \/ HandlerReturns(c)
    BY <1>6
  <2>1. UNCHANGED <<parked, cur, nested, by>>
    BY DEF IoDone, IoFails, IoResumed, HandlerReturns, reactorVars
  <2>2. Located(c)
    OBVIOUS
  <2>3. Runs(c) /\ conn' \in {[conn EXCEPT ![c] = l] : l \in {"got_request", "close", "read", "write"}}
    BY <2>2 DEF IoDone, IoFails, IoResumed, HandlerReturns, Runs, Located
  <2>4. Runs(c)' /\ (Runs(d)' <=> Runs(d))
    BY <2>1, <2>3 DEF Runs
  <2>5. CASE d = c
    BY <1>0, <2>3, <2>4, <2>5 DEF Located, Kinds
  <2>6. CASE d # c
    BY <1>0, <1>d, <2>1, <2>3, <2>4, <2>6 DEF Located, Kinds
  <2> QED BY <2>5, <2>6
<1>7. CASE \E c \in Conns : IoAwait(c)
  <2> PICK c \in Conns : IoAwait(c)
    BY <1>7
  <2>1. CASE /\ Park(c) /\ LeaveThread(c)
             /\ conn' = [conn EXCEPT ![c] = IF @ = "read" THEN "read_wait" ELSE "write_wait"]
    <3>1. c \in parked' /\ conn'[c] \in {"read_wait", "write_wait"}
      BY <1>0, <2>1 DEF Park, Kinds
    <3>2. ASSUME d # c PROVE Located(d)'
      <4>1. conn'[d] = conn[d] /\ (cur = d <=> cur' = d) /\ (nested = d <=> nested' = d)
        BY <1>0, <2>1, <3>2 DEF Park, Leave, LeaveThread, Kinds
      <4>2. \A h \in Handlers : by[h] = d => by'[h] = d
        BY <1>0, <2>1, <3>2 DEF LeaveThread
      <4> QED BY <1>d, <2>1, <4>1, <4>2 DEF Located, Runs, Park
    <3> QED BY <3>1, <3>2 DEF Located
  <2>2. CASE /\ Refuse(c) /\ conn' = [conn EXCEPT ![c] = "close"]
             /\ UNCHANGED <<nested, by>>
    BY <1>0, <1>d, <2>2 DEF IoAwait, Refuse, Located, Runs, Kinds
  <2> QED BY <2>1, <2>2 DEF IoAwait
<1>8. CASE \E c \in Conns : Hop(c) \/ Close(c)
  <2> PICK c \in Conns : Hop(c) \/ Close(c)
    BY <1>8
  <2>1. CASE Hop(c) /\ stopping
    BY <1>0, <1>d, <2>1 DEF Hop, reactorVars, Located, Runs, Kinds
  <2>2. CASE Close(c) \/ (Hop(c) /\ ~ stopping)
    <3>1. /\ parked' = parked /\ LeaveThread(c) /\ (cur' = cur \/ (cur = c /\ cur' = NoCoro))
          /\ conn' = [conn EXCEPT ![c] = "none"] \/ conn' = [conn EXCEPT ![c] = "queued"]
      BY <2>2 DEF Hop, Close, Detach, reactorVars
    <3>2. ASSUME d # c PROVE Located(d)'
      <4>1. conn'[d] = conn[d] /\ (cur = d <=> cur' = d) /\ (nested = d <=> nested' = d)
        BY <1>0, <3>1, <3>2 DEF LeaveThread, Kinds
      <4>2. \A h \in Handlers : by[h] = d => by'[h] = d
        BY <1>0, <3>1, <3>2 DEF LeaveThread
      <4> QED BY <1>d, <3>1, <4>1, <4>2 DEF Located, Runs
    <3>3. conn'[c] \in {"none", "queued"}
      BY <1>0, <3>1 DEF Kinds
    <3> QED BY <3>2, <3>3 DEF Located
  <2> QED BY <2>1, <2>2
<1>9. CASE \E h \in Handlers : TakeHop(h)
  <2> PICK h \in Handlers : TakeHop(h)
    BY <1>9
  <2>1. UNCHANGED <<parked, cur, nested>> /\ by[h] = NoCoro /\ Head(hops) \in Conns
    BY <1>0 DEF TakeHop, reactorVars, Kinds
  <2>2. CASE d = Head(hops)
    <3>1. conn'[d] = "handler" /\ by'[h] = d
      BY <1>0, <2>2 DEF TakeHop, Kinds
    <3> QED BY <3>1 DEF Located, Runs
  <2>3. CASE d # Head(hops)
    <3>1. conn'[d] = conn[d] /\ \A g \in Handlers : by[g] = d => by'[g] = d
      BY <1>0, <2>1, <2>3 DEF TakeHop, Kinds
    <3> QED BY <1>d, <2>1, <3>1 DEF Located, Runs
  <2> QED BY <2>2, <2>3
<1>10. CASE StopReturns
  <2>1. UNCHANGED <<parked, cur, nested, by>> /\ conn'[d] \in {conn[d], "none"}
    BY <1>10 DEF StopReturns, reactorVars
  <2> QED BY <1>d, <2>1 DEF Located, Runs
<1>11. CASE StopReactor
  BY <1>s, <1>11 DEF StopReactor, RequestStop
<1>12. CASE StopServing \/ JoinReactor \/ JoinPool \/ DestroyHandler \/ Gone \/ UNCHANGED vars
  BY <1>s, <1>12 DEF StopServing, JoinReactor, JoinPool, DestroyHandler, Gone, vars, serverVars,
                     reactorVars
<1> QED BY <1>1, <1>2, <1>3, <1>4, <1>5, <1>6, <1>7, <1>8, <1>9, <1>10, <1>11, <1>12
        DEF Next, AcceptLoop, HandleConnection, Teardown

ExitInv == LoopInv /\ AcceptInv /\ \A c \in Conns : Located(c)

(* Once run() has returned every connection that is still alive belongs to *)
(* the handler pool, queued there or held by one of its threads: whoever   *)
(* raced the drain with co_await was resumed or refused.                   *)
THEOREM NobodyStranded == Spec => []OnlyPoolSurvivesStop
<1> USE NoCoroAssumption, ServerAssumption
<1>1. Init => ExitInv
  <2> SUFFICES ASSUME Init PROVE ExitInv
    OBVIOUS
  <2>1. LoopInv /\ AcceptInv
    BY DEF Init, ReactorInit, LoopInv, AcceptInv
  <2>2. \A c \in Conns : Located(c)
    BY DEF Init, Located
  <2> QED BY <2>1, <2>2 DEF ExitInv
<1>2. ThreadInv /\ ExitInv /\ [Next]_vars => ExitInv'
  <2> SUFFICES ASSUME ThreadInv, ExitInv, [Next]_vars PROVE ExitInv'
    OBVIOUS
  <2>1. LoopInv'
    BY ServerStepIsReactorStep, LoopStep DEF ThreadInv, ExitInv
  <2>2. AcceptInv'
    BY AcceptStep DEF ExitInv
  <2>3. \A c \in Conns : Located(c)'
    BY LocatedStep DEF ExitInv
  <2> QED BY <2>1, <2>2, <2>3 DEF ExitInv
<1>3. ThreadInv /\ ExitInv => OnlyPoolSurvivesStop
  <2> SUFFICES ASSUME ThreadInv, ExitInv, loop = "exited"
               PROVE  /\ parked = {}
                      /\ \A c \in Active : conn[c] = "queued" \/ \E h \in Handlers : by[h] = c
    BY DEF OnlyPoolSurvivesStop
  <2>1. parked = {}
    BY DEF ThreadInv, RoundInv, ExactlyOnePlace, ExitInv, LoopInv
  <2>2. cur = NoCoro /\ nested = NoCoro
    BY DEF ExitInv, LoopInv, AcceptInv
  <2>3. ASSUME NEW c \in Active PROVE conn[c] = "queued" \/ \E h \in Handlers : by[h] = c
    BY <2>1, <2>2, <2>3 DEF Active, ExitInv, Located, Runs
  <2> QED BY <2>1, <2>3
<1> QED BY <1>1, <1>2, <1>3, ServerThreads, PTL DEF Spec
=============================================================================
