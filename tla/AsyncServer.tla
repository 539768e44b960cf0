---------------------------- MODULE AsyncServer ----------------------------
(***************************************************************************)
(* network/async_transport.{hpp,cpp} on top of the Reactor: the accept     *)
(* coroutine, one coroutine per connection (read a request, hop to the     *)
(* handler pool, run the handler, write the response, close), and the      *)
(* teardown of stop_serving and the destructor.                            *)
(*                                                                         *)
(* A connection stands for its file descriptor, which is used again after  *)
(* close.  Reading the header and then the payload is one read loop, and   *)
(* so is writing them: each may suspend any number of times.  The handler  *)
(* pool is a FIFO, which ThreadPool guarantees for a single producer: the  *)
(* reactor thread is the only one that hops.                               *)
(***************************************************************************)
EXTENDS Reactor, Sequences

CONSTANTS
    Conns,         \* client file descriptors
    Submissions,   \* those whose request is a workload submission
    Handlers,      \* threads of handler_pool_
    Acceptor       \* the accept_loop coroutine

ASSUME ServerAssumption ==
    /\ Submissions \subseteq Conns
    /\ Acceptor \notin Conns /\ Coros = Conns \cup {Acceptor}

VARIABLES
    acceptor,   \* control point of accept_loop
    nested,     \* connection that runs inside the accept coroutine's resume
    conn,       \* control point of each handle_connection
    hops,       \* connections queued for the handler pool
    by,         \* connection a handler thread runs
    stopping,   \* stopping_
    teardown    \* progress of stop_serving and the destructor

serverVars == <<acceptor, nested, conn, hops, by, stopping, teardown>>
vars == <<reactorVars, serverVars>>

(* serve() has started the reactor and runs accept_loop to its first       *)
(* co_await on the caller's thread.                                        *)
Init ==
    /\ ReactorInit
    /\ acceptor = "await"
    /\ nested = NoCoro
    /\ conn = [c \in Conns |-> "none"]
    /\ hops = <<>>
    /\ by = [h \in Handlers |-> NoCoro]
    /\ stopping = FALSE
    /\ teardown = "serving"

-----------------------------------------------------------------------------
(* accept_loop *)

AcceptAwait ==
    /\ acceptor = "await" /\ cur \in {Acceptor, NoCoro}
    /\ \/ /\ Park(Acceptor)
          /\ acceptor' = "waiting"
       \/ /\ Refuse(Acceptor)
          /\ acceptor' = "resumed"
    /\ UNCHANGED <<nested, conn, hops, by, stopping, teardown>>

(* A refused registration leaves the coroutine where it was running: on    *)
(* the reactor thread, or still on the thread that called serve().         *)
AcceptResumed ==
    /\ \/ acceptor = "waiting" /\ cur = Acceptor
       \/ acceptor = "resumed"
    /\ \/ stopping /\ acceptor' = "ended"
       \/ ~stopping /\ acceptor' = IF ready[Acceptor] THEN "accept" ELSE "await"
    /\ IF stopping /\ cur = Acceptor THEN Detach(Acceptor) ELSE UNCHANGED reactorVars
    /\ UNCHANGED <<nested, conn, hops, by, stopping, teardown>>

(* accept4 succeeds; handle_connection starts at once, on this thread. *)
Accept(c) ==
    /\ acceptor = "accept" /\ nested = NoCoro
    /\ conn[c] = "backlog"
    /\ conn' = [conn EXCEPT ![c] = "read"]
    /\ nested' = c
    /\ UNCHANGED <<reactorVars, acceptor, hops, by, stopping, teardown>>

AcceptDrained ==
    /\ acceptor = "accept" /\ nested = NoCoro
    /\ \A c \in Conns : conn[c] # "backlog"
    /\ acceptor' = IF stopping THEN "ended" ELSE "await"
    /\ IF stopping THEN Detach(Acceptor) ELSE UNCHANGED reactorVars
    /\ UNCHANGED <<nested, conn, hops, by, stopping, teardown>>

-----------------------------------------------------------------------------
(* handle_connection, on the reactor thread or on a handler thread *)

Connect(c) ==
    /\ conn[c] = "none" /\ teardown = "serving"
    /\ conn' = [conn EXCEPT ![c] = "backlog"]
    /\ UNCHANGED <<reactorVars, acceptor, nested, hops, by, stopping, teardown>>

Runs(c) == cur = c \/ nested = c \/ \E h \in Handlers : by[h] = c

(* Whichever thread runs c leaves it. *)
LeaveThread(c) ==
    /\ nested' = IF nested = c THEN NoCoro ELSE nested
    /\ by' = [h \in Handlers |-> IF by[h] = c THEN NoCoro ELSE by[h]]

(* recv or send made all the progress it needed. *)
IoDone(c) ==
    /\ Runs(c) /\ conn[c] \in {"read", "write"}
    /\ conn' = [conn EXCEPT ![c] = IF @ = "read" THEN "got_request" ELSE "close"]
    /\ UNCHANGED <<reactorVars, acceptor, nested, hops, by, stopping, teardown>>

(* Peer closed, hard error, or a length above MAX_MESSAGE_SIZE. *)
IoFails(c) ==
    /\ Runs(c) /\ conn[c] \in {"read", "write"}
    /\ conn' = [conn EXCEPT ![c] = "close"]
    /\ UNCHANGED <<reactorVars, acceptor, nested, hops, by, stopping, teardown>>

(* EAGAIN: co_await wait_readable / wait_writable *)
IoAwait(c) ==
    /\ Runs(c) /\ conn[c] \in {"read", "write"}
    /\ \/ /\ Park(c)
          /\ conn' = [conn EXCEPT ![c] = IF @ = "read" THEN "read_wait" ELSE "write_wait"]
          /\ LeaveThread(c)
       \/ /\ Refuse(c)
          /\ conn' = [conn EXCEPT ![c] = "close"]
          /\ UNCHANGED <<nested, by>>
    /\ UNCHANGED <<acceptor, hops, stopping, teardown>>

IoResumed(c) ==
    /\ cur = c /\ conn[c] \in {"read_wait", "write_wait"}
    /\ conn' = [conn EXCEPT ![c] = IF ~ready[c] THEN "close"
                                   ELSE IF @ = "read_wait" THEN "read" ELSE "write"]
    /\ UNCHANGED <<reactorVars, acceptor, nested, hops, by, stopping, teardown>>

(* Variant: the coroutine is queued and runs on. *)
HopWithoutLeaving(c) ==
    /\ Runs(c) /\ conn[c] = "got_request"
    /\ conn' = [conn EXCEPT ![c] = IF stopping THEN "close" ELSE "queued"]
    /\ hops' = IF stopping THEN hops ELSE Append(hops, c)
    /\ UNCHANGED <<reactorVars, acceptor, nested, by, stopping, teardown>>

(* co_await PoolHop, unless the server is stopping *)
Hop(c) ==
    /\ Runs(c) /\ conn[c] = "got_request"
    /\ IF stopping
       THEN /\ conn' = [conn EXCEPT ![c] = "close"]
            /\ UNCHANGED <<reactorVars, nested, hops, by>>
       ELSE /\ conn' = [conn EXCEPT ![c] = "queued"]
            /\ hops' = Append(hops, c)
            /\ LeaveThread(c)
            /\ IF cur = c THEN Detach(c) ELSE UNCHANGED reactorVars
    /\ UNCHANGED <<acceptor, stopping, teardown>>

(* Variant: the last queued connection is never taken. *)
TakeHopLeavesOne(h) ==
    /\ by[h] = NoCoro /\ Len(hops) > 1
    /\ by' = [by EXCEPT ![h] = Head(hops)]
    /\ hops' = Tail(hops)
    /\ conn' = [conn EXCEPT ![Head(hops)] = "handler"]
    /\ UNCHANGED <<reactorVars, acceptor, nested, stopping, teardown>>

TakeHop(h) ==
    /\ by[h] = NoCoro /\ hops # <<>>
    /\ by' = [by EXCEPT ![h] = Head(hops)]
    /\ hops' = Tail(hops)
    /\ conn' = [conn EXCEPT ![Head(hops)] = "handler"]
    /\ UNCHANGED <<reactorVars, acceptor, nested, stopping, teardown>>

(* handler_(payload) returns. *)
HandlerReturns(c) ==
    /\ conn[c] = "handler"
    /\ conn' = [conn EXCEPT ![c] = "write"]
    /\ UNCHANGED <<reactorVars, acceptor, nested, hops, by, stopping, teardown>>

(* shutdown, close, fetch_sub; the frame destroys itself. *)
Close(c) ==
    /\ Runs(c) /\ conn[c] = "close"
    /\ conn' = [conn EXCEPT ![c] = "none"]
    /\ LeaveThread(c)
    /\ IF cur = c THEN Detach(c) ELSE UNCHANGED reactorVars
    /\ UNCHANGED <<acceptor, hops, stopping, teardown>>

-----------------------------------------------------------------------------
(* stop_serving and ~AsyncTransport *)

(* active_connections_ *)
Active == {c \in Conns : conn[c] \notin {"none", "backlog"}}

(* serve() has returned to its caller, the thread that also stops. *)
StopServing ==
    /\ teardown = "serving"
    /\ acceptor \in {"await", "resumed"} => cur = Acceptor
    /\ stopping' = TRUE
    /\ teardown' = "stopping"
    /\ UNCHANGED <<reactorVars, acceptor, nested, conn, hops, by>>

(* Variant: stopping empties the waiter table without resuming anyone. *)
StopReactorDropsWaiters ==
    /\ teardown = "stopping" /\ ~stop
    /\ stop' = TRUE
    /\ waiters' = {} /\ late' = {}
    /\ teardown' = "joining"
    /\ UNCHANGED <<events, batch, ready, parked, cur, loop>>
    /\ UNCHANGED <<acceptor, nested, conn, hops, by, stopping>>

StopReactor ==
    /\ teardown = "stopping"
    /\ RequestStop
    /\ teardown' = "joining"
    /\ UNCHANGED <<acceptor, nested, conn, hops, by, stopping>>

JoinReactor ==
    /\ teardown = "joining" /\ loop = "exited"
    /\ teardown' = "draining"
    /\ UNCHANGED <<reactorVars, acceptor, nested, conn, hops, by, stopping>>

(* Variant: the wait for active connections has no limit. *)
StopWaitsForAll ==
    /\ teardown = "draining" /\ Active = {}
    /\ teardown' = "stopped"
    /\ conn' = [c \in Conns |-> IF conn[c] = "backlog" THEN "none" ELSE conn[c]]
    /\ UNCHANGED <<reactorVars, acceptor, nested, hops, by, stopping>>

(* No connection is active any more, or two seconds have passed; the       *)
(* listening socket is closed and its backlog with it.                     *)
StopReturns ==
    /\ teardown = "draining"
    /\ teardown' = "stopped"
    /\ conn' = [c \in Conns |-> IF conn[c] = "backlog" THEN "none" ELSE conn[c]]
    /\ UNCHANGED <<reactorVars, acceptor, nested, hops, by, stopping>>

(* The destructor destroys handler_, then joins the pool, then closes the  *)
(* reactor.                                                                *)
DestroyHandler ==
    /\ teardown = "stopped"
    /\ teardown' = "handler_gone"
    /\ UNCHANGED <<reactorVars, acceptor, nested, conn, hops, by, stopping>>

JoinPool ==
    /\ teardown = "handler_gone"
    /\ hops = <<>> /\ \A h \in Handlers : by[h] = NoCoro
    /\ teardown' = "gone"
    /\ UNCHANGED <<reactorVars, acceptor, nested, conn, hops, by, stopping>>

Gone == teardown = "gone" /\ UNCHANGED vars

-----------------------------------------------------------------------------
ReactorThread == Run /\ UNCHANGED serverVars
DeadlinePasses(c) == Expire(c) /\ UNCHANGED serverVars

AcceptLoop == AcceptAwait \/ AcceptResumed \/ AcceptDrained
                \/ \E c \in Conns : Accept(c)
HandleConnection(c) == IoDone(c) \/ IoFails(c) \/ IoAwait(c) \/ IoResumed(c)
                         \/ Hop(c) \/ Close(c)
Teardown == StopReactor \/ JoinReactor \/ StopReturns \/ JoinPool

Next ==
    \/ \E c \in Coros : DeadlinePasses(c)
    \/ ReactorThread
    \/ AcceptLoop
    \/ \E c \in Conns : Connect(c) \/ HandleConnection(c) \/ HandlerReturns(c)
    \/ \E h \in Handlers : TakeHop(h)
    \/ StopServing \/ Teardown \/ DestroyHandler \/ Gone

(* Threads are scheduled, deadlines pass, sockets make progress or fail.   *)
(* The handler of an offload request returns; the handler of a submission  *)
(* may take as long as the workload does and gets no fairness.  epoll_ctl  *)
(* does not reject the listening socket forever, and clients do not        *)
(* connect so fast that accept4 always finds another one: in both cases    *)
(* accept_loop would keep the reactor thread to itself.                    *)
Fairness ==
    /\ WF_vars(ReactorThread) /\ WF_vars(AcceptLoop) /\ WF_vars(Teardown)
    /\ SF_vars(AcceptAwait /\ Park(Acceptor)) /\ SF_vars(AcceptDrained)
    /\ \A c \in Coros : WF_vars(DeadlinePasses(c))
    /\ \A c \in Conns : /\ WF_vars(IoResumed(c) \/ Hop(c) \/ Close(c))
                        /\ SF_vars(IoDone(c))
    /\ \A c \in Conns \ Submissions : WF_vars(HandlerReturns(c))
    /\ \A h \in Handlers : WF_vars(TakeHop(h))

Spec == Init /\ [][Next]_vars
FairSpec == Spec /\ Fairness

-----------------------------------------------------------------------------
(* Properties *)

(* The transport uses the reactor as Reactor specifies it. *)
UsesReactor == ReactorSpec

RunnersOf(c) == (IF cur = c THEN {"reactor"} ELSE {})
                  \cup (IF nested = c THEN {"accept_loop"} ELSE {})
                  \cup {h \in Handlers : by[h] = c}

(* A connection's coroutine is never resumed on two threads at once, and   *)
(* one that is suspended or queued for the pool runs nowhere.              *)
OneThreadPerConnection ==
    \A c \in Conns :
        /\ Cardinality(RunnersOf(c)) <= 1
        /\ c \in parked \cup {hops[i] : i \in 1 .. Len(hops)} => RunnersOf(c) = {}

(* Once the reactor has been joined, every connection still alive is in    *)
(* the handler pool, about to be taken, handled or closed there: none is   *)
(* stranded at a socket that nobody watches.                               *)
OnlyPoolSurvivesStop ==
    loop = "exited" =>
        /\ parked = {}
        /\ \A c \in Active : conn[c] = "queued" \/ \E h \in Handlers : by[h] = c

(* "The coroutine must not outlive the objects it captures - the transport *)
(* guarantees this by draining the reactor before teardown."               *)
NoCoroutineOutlivesTransport ==
    teardown \in {"handler_gone", "gone"} => Active = {}

(* With fewer slow submissions than handler threads every offload request  *)
(* read from the network is eventually answered or dropped.                *)
OffloadServed ==
    \A c \in Conns \ Submissions : conn[c] = "got_request" ~> conn[c] = "none"

(* stop_serving returns even while a submission's handler never does. *)
StopServingReturns == teardown = "stopping" ~> teardown = "stopped"
=============================================================================
