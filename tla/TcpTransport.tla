---------------------------- MODULE TcpTransport ----------------------------
(***************************************************************************)
(* network/transport.cpp: length-prefixed messages over TCP.  Each client  *)
(* is the TcpTransport of one Orchestrator::offload_to_peer call: connect, *)
(* send one request, receive one response, destruct.  The server is        *)
(* TcpTransport::serve, which takes one connection at a time.              *)
(*                                                                         *)
(* A connection carries one frame in each direction, so a byte is known by *)
(* its position and a stream by three counters: bytes written, bytes that  *)
(* have arrived, bytes read.  poll, send and recv move any number of bytes *)
(* up to what is possible.  Time passes in ticks; every poll round starts  *)
(* its timeout anew.                                                       *)
(***************************************************************************)
EXTENDS Integers, FiniteSetsExt

CONSTANTS
    Clients, NoClient,
    ReqLen, RespLen,      \* payload sizes of each client's request and response
    Header,               \* bytes of the length prefix
    MaxLen,               \* MAX_MESSAGE_SIZE
    Buffer,               \* bytes the kernel holds per direction
    Timeout,              \* offload_timeout_ms: connect and receive, in ticks
    SendTimeout,          \* default timeout of send_all
    ServerTimeout,        \* receive timeout of serve
    MaxSpurious           \* bound on the EAGAINs after a successful poll

ASSUME TcpAssumption ==
    /\ NoClient \notin Clients
    /\ ReqLen \in [Clients -> Nat] /\ RespLen \in [Clients -> Nat]
    /\ {Header, Buffer, Timeout, SendTimeout, ServerTimeout} \subseteq Nat \ {0}
    /\ MaxLen \in Nat /\ MaxSpurious \in Nat

VARIABLES
    phase,      \* progress of each client's round trip
    wait,       \* ticks in the client's current poll round
    elapsed,    \* ticks since the round trip began
    spurious,   \* EAGAINs of the client so far
    out, outArrived, got,     \* client side: bytes written, arrived, read
    srvGot, srvOut,           \* server side: bytes read, written
    conn,       \* each connection as the server's kernel has it
    server,     \* control point of the serve thread
    serving,    \* the connection it serves
    srvWait,    \* ticks in its current poll round
    srvArrived, \* response bytes that have arrived at the client
    handled,    \* how often the handler was called for a client
    stopping, listening   \* serving_ is false; server_fd_ is open

clientVars == <<phase, wait, elapsed, spurious, out, got>>
serverVars == <<server, serving, srvWait, srvGot, srvOut, handled>>
netVars == <<outArrived, srvArrived>>
stopVars == <<stopping, listening>>
vars == <<clientVars, serverVars, netVars, conn, stopVars>>

Zero == [c \in Clients |-> 0]

Init ==
    /\ phase = [c \in Clients |-> "new"]
    /\ wait = Zero /\ elapsed = Zero /\ spurious = Zero
    /\ out = Zero /\ outArrived = Zero /\ got = Zero
    /\ srvGot = Zero /\ srvOut = Zero /\ srvArrived = Zero
    /\ conn = [c \in Clients |-> "none"]
    /\ server = "accept" /\ serving = NoClient /\ srvWait = 0
    /\ handled = Zero
    /\ stopping = FALSE /\ listening = TRUE

ReqSize(c) == Header + ReqLen[c]
RespSize(c) == Header + RespLen[c]

(* send_all and recv_all run over the header first, then over the payload. *)
Rest(pos, size) == IF pos < Header THEN Header - pos ELSE size - pos

(* What one send or recv call may transfer. *)
Chunks(pos, size, possible) == 1 .. Min({Rest(pos, size), possible})

-----------------------------------------------------------------------------
(* The client: offload_to_peer *)

Enter(c, p) == phase' = [phase EXCEPT ![c] = p] /\ wait' = [wait EXCEPT ![c] = 0]

(* The client's end of the connection is closed by ~TcpTransport. *)
Gone(c) == phase[c] \in {"ok", "failed"}
Polling(c) == phase[c] \in {"connecting", "sending", "receiving"}
Limit(c) == IF phase[c] = "sending" THEN SendTimeout ELSE Timeout

Connect(c) ==
    /\ phase[c] = "new"
    /\ Enter(c, "connecting")
    /\ UNCHANGED <<elapsed, spurious, out, got, serverVars, netVars, conn, stopVars>>

(* POLLOUT without SO_ERROR; send() then rejects a request that is too     *)
(* large.                                                                  *)
Connected(c) ==
    /\ phase[c] = "connecting" /\ listening
    /\ Enter(c, IF ReqLen[c] > MaxLen THEN "failed" ELSE "sending")
    /\ conn' = [conn EXCEPT ![c] = "backlog"]
    /\ UNCHANGED <<elapsed, spurious, out, got, serverVars, netVars, stopVars>>

ConnectFails(c) ==
    /\ phase[c] = "connecting"
    /\ Enter(c, "failed")
    /\ UNCHANGED <<elapsed, spurious, out, got, serverVars, netVars, conn, stopVars>>

Send(c) ==
    /\ phase[c] = "sending" /\ conn[c] # "reset"
    /\ \E n \in Chunks(out[c], ReqSize(c), Buffer - (out[c] - srvGot[c])) :
          /\ out' = [out EXCEPT ![c] = @ + n]
          /\ Enter(c, IF out[c] + n = ReqSize(c) THEN "receiving" ELSE "sending")
    /\ UNCHANGED <<elapsed, spurious, got, serverVars, netVars, conn, stopVars>>

(* Variant: receive returns what the first recv of the payload gave. *)
ReceiveShort(c) ==
    /\ phase[c] = "receiving" /\ conn[c] # "reset"
    /\ \E n \in Chunks(got[c], RespSize(c), srvArrived[c] - got[c]) :
          /\ got' = [got EXCEPT ![c] = @ + n]
          /\ Enter(c, IF got[c] + n > Header THEN "ok" ELSE "receiving")
    /\ UNCHANGED <<elapsed, spurious, out, serverVars, netVars, conn, stopVars>>

Receive(c) ==
    /\ phase[c] = "receiving" /\ conn[c] # "reset"
    /\ \E n \in Chunks(got[c], RespSize(c), srvArrived[c] - got[c]) :
          /\ got' = [got EXCEPT ![c] = @ + n]
          /\ Enter(c, IF got[c] + n = RespSize(c) THEN "ok" ELSE "receiving")
    /\ UNCHANGED <<elapsed, spurious, out, serverVars, netVars, conn, stopVars>>

(* poll reported readiness, the call said EAGAIN: another round. *)
Again(c) ==
    /\ phase[c] \in {"sending", "receiving"} /\ spurious[c] < MaxSpurious
    /\ spurious' = [spurious EXCEPT ![c] = @ + 1]
    /\ wait' = [wait EXCEPT ![c] = 0]
    /\ UNCHANGED <<phase, elapsed, out, got, serverVars, netVars, conn, stopVars>>

(* Variant: a poll that times out is tried again like an EAGAIN. *)
BreaksRetried(c) ==
    /\ Polling(c)
    /\ \/ wait[c] = Limit(c) /\ wait' = [wait EXCEPT ![c] = 0] /\ UNCHANGED phase
       \/ conn[c] = "reset" /\ Enter(c, "failed")
    /\ UNCHANGED <<elapsed, spurious, out, got, serverVars, netVars, conn, stopVars>>

(* poll times out, the connection was reset, or recv finds the end of the  *)
(* stream.                                                                 *)
Breaks(c) ==
    /\ \/ Polling(c) /\ wait[c] = Limit(c)
       \/ phase[c] \in {"sending", "receiving"} /\ conn[c] = "reset"
       \/ /\ phase[c] = "receiving" /\ conn[c] = "closed"
          /\ got[c] = srvArrived[c] /\ srvArrived[c] = srvOut[c]
    /\ Enter(c, "failed")
    /\ UNCHANGED <<elapsed, spurious, out, got, serverVars, netVars, conn, stopVars>>

-----------------------------------------------------------------------------
(* The server: the thread of serve() *)

(* shutdown and close, then the loop condition again *)
CloseServed ==
    /\ server' = IF stopping THEN "exited" ELSE "accept"
    /\ serving' = NoClient /\ srvWait' = 0
    /\ conn' = [conn EXCEPT ![serving] = IF @ = "reset" THEN @ ELSE "closed"]

Accept(c) ==
    /\ server = "accept" /\ listening /\ conn[c] = "backlog"
    /\ server' = "recv" /\ serving' = c /\ srvWait' = 0
    /\ conn' = [conn EXCEPT ![c] = "open"]
    /\ UNCHANGED <<clientVars, srvGot, srvOut, handled, netVars, stopVars>>

(* Variant: the handler is called once the header is there. *)
ServerReceiveHeader ==
    /\ server = "recv" /\ conn[serving] # "reset"
    /\ \E n \in Chunks(srvGot[serving], ReqSize(serving), outArrived[serving] - srvGot[serving]) :
          /\ srvGot' = [srvGot EXCEPT ![serving] = @ + n]
          /\ server' = IF srvGot[serving] + n = Header THEN "handle" ELSE "recv"
    /\ srvWait' = 0
    /\ UNCHANGED <<clientVars, serving, srvOut, handled, netVars, conn, stopVars>>

ServerReceive ==
    /\ server = "recv" /\ conn[serving] # "reset"
    /\ \E n \in Chunks(srvGot[serving], ReqSize(serving), outArrived[serving] - srvGot[serving]) :
          /\ srvGot' = [srvGot EXCEPT ![serving] = @ + n]
          /\ server' = IF srvGot[serving] + n = ReqSize(serving) THEN "handle" ELSE "recv"
    /\ srvWait' = 0
    /\ UNCHANGED <<clientVars, serving, srvOut, handled, netVars, conn, stopVars>>

(* The handler runs; a response that is too large is not sent at all. *)
Handle ==
    /\ server = "handle"
    /\ handled' = [handled EXCEPT ![serving] = @ + 1]
    /\ IF RespLen[serving] > MaxLen
       THEN CloseServed
       ELSE server' = "send" /\ UNCHANGED <<serving, srvWait, conn>>
    /\ UNCHANGED <<clientVars, srvGot, srvOut, netVars, stopVars>>

ServerSend ==
    /\ server = "send" /\ conn[serving] # "reset" /\ ~Gone(serving)
    /\ \E n \in Chunks(srvOut[serving], RespSize(serving),
                       Buffer - (srvOut[serving] - got[serving])) :
          /\ srvOut' = [srvOut EXCEPT ![serving] = @ + n]
          /\ IF srvOut[serving] + n = RespSize(serving)
             THEN CloseServed
             ELSE server' = "send" /\ srvWait' = 0 /\ UNCHANGED <<serving, conn>>
    /\ UNCHANGED <<clientVars, srvGot, handled, netVars, stopVars>>

(* Variant: poll waits without a timeout. *)
ServerBreaksOnlyByError ==
    /\ \/ server \in {"recv", "send"} /\ conn[serving] = "reset"
       \/ server = "recv" /\ Gone(serving) /\ srvGot[serving] = out[serving]
       \/ server = "send" /\ Gone(serving)
    /\ CloseServed
    /\ UNCHANGED <<clientVars, srvGot, srvOut, handled, netVars, stopVars>>

(* Timeout, reset, end of the request stream, or nobody to answer. *)
ServerBreaks ==
    /\ \/ server = "recv" /\ srvWait = ServerTimeout
       \/ server = "send" /\ srvWait = SendTimeout
       \/ server \in {"recv", "send"} /\ conn[serving] = "reset"
       \/ server = "recv" /\ Gone(serving) /\ srvGot[serving] = out[serving]
       \/ server = "send" /\ Gone(serving)
    /\ CloseServed
    /\ UNCHANGED <<clientVars, srvGot, srvOut, handled, netVars, stopVars>>

(* poll found nothing in its 100 ms and the loop condition is false. *)
LoopEnds ==
    /\ server = "accept" /\ stopping
    /\ server' = "exited"
    /\ UNCHANGED <<clientVars, serving, srvWait, srvGot, srvOut, handled, netVars, conn, stopVars>>

-----------------------------------------------------------------------------
(* stop_serving: the flag, then the listening socket with its backlog *)

StopServing ==
    /\ ~stopping
    /\ stopping' = TRUE
    /\ UNCHANGED <<clientVars, serverVars, netVars, conn, listening>>

CloseListener ==
    /\ stopping /\ listening
    /\ listening' = FALSE
    /\ conn' = [c \in Clients |-> IF conn[c] = "backlog" THEN "reset" ELSE conn[c]]
    /\ UNCHANGED <<clientVars, serverVars, netVars, stopping>>

-----------------------------------------------------------------------------
(* The network and the clock *)

Deliver(c) ==
    /\ conn[c] # "reset"
    /\ \/ /\ outArrived[c] < out[c]
          /\ outArrived' = [outArrived EXCEPT ![c] = @ + 1]
          /\ UNCHANGED srvArrived
       \/ /\ srvArrived[c] < srvOut[c] /\ ~Gone(c)
          /\ srvArrived' = [srvArrived EXCEPT ![c] = @ + 1]
          /\ UNCHANGED outArrived
    /\ UNCHANGED <<clientVars, serverVars, conn, stopVars>>

Reset(c) ==
    /\ conn[c] \in {"backlog", "open", "closed"} /\ ~Gone(c)
    /\ conn' = [conn EXCEPT ![c] = "reset"]
    /\ UNCHANGED <<clientVars, serverVars, netVars, stopVars>>

Tick ==
    /\ \A c \in Clients : Polling(c) => wait[c] < Limit(c)
    /\ server = "recv" => srvWait < ServerTimeout
    /\ server = "send" => srvWait < SendTimeout
    /\ (\E c \in Clients : Polling(c)) \/ server \in {"recv", "send"}
    /\ wait' = [c \in Clients |-> IF Polling(c) THEN wait[c] + 1 ELSE wait[c]]
    /\ elapsed' = [c \in Clients |-> IF Polling(c) THEN elapsed[c] + 1 ELSE elapsed[c]]
    /\ srvWait' = IF server \in {"recv", "send"} THEN srvWait + 1 ELSE srvWait
    /\ UNCHANGED <<phase, spurious, out, got, server, serving, srvGot, srvOut, handled,
                   netVars, conn, stopVars>>

-----------------------------------------------------------------------------
ClientStep(c) == Connected(c) \/ ConnectFails(c) \/ Send(c) \/ Receive(c) \/ Breaks(c)
ServerStep == ServerReceive \/ Handle \/ ServerSend \/ ServerBreaks \/ LoopEnds
                \/ \E c \in Clients : Accept(c)

Over == stopping /\ ~listening /\ server = "exited" /\ (\A c \in Clients : Gone(c))
          /\ UNCHANGED vars

Next ==
    \/ \E c \in Clients : Connect(c) \/ ClientStep(c) \/ Again(c) \/ Deliver(c) \/ Reset(c)
    \/ ServerStep \/ StopServing \/ CloseListener \/ Tick \/ Over

(* Threads are scheduled, handlers return and time passes.  Nothing is     *)
(* assumed of the network.                                                 *)
Fairness ==
    /\ WF_vars(Tick) /\ WF_vars(ServerStep)
    /\ \A c \in Clients : WF_vars(ClientStep(c))

Spec == Init /\ [][Next]_vars
FairSpec == Spec /\ Fairness

-----------------------------------------------------------------------------
(* Properties *)

(* The handler of serve() is called with whole requests only, however the  *)
(* stream was cut into recv results, and once per connection.              *)
WholeRequests ==
    \A c \in Clients : handled[c] > 0 => handled[c] = 1 /\ srvGot[c] = ReqSize(c)

(* A round trip that reports transport_ok got every byte of a response the *)
(* handler produced for this very request.                                 *)
OkMeansAnswered ==
    \A c \in Clients : phase[c] = "ok" => handled[c] = 1 /\ got[c] = RespSize(c)

(* A round trip ends whatever the network and the server do: its executor  *)
(* thread is not lost.                                                     *)
RoundTripEnds ==
    \A c \in Clients : phase[c] = "connecting" ~> phase[c] \in {"ok", "failed"}

(* No client holds the one-connection server forever, and after            *)
(* stop_serving the serve thread ends.                                     *)
ServerReturns ==
    /\ server \in {"recv", "send"} ~> server \in {"accept", "exited"}
    /\ stopping ~> server = "exited"

(* Both ends get out of a round trip, however the other behaves. *)
NobodyHangs == RoundTripEnds /\ ServerReturns

(* The bound that offload_timeout_ms really gives: every poll round starts *)
(* its timeout anew, so a round trip may take one timeout for connecting   *)
(* and one for each piece of the request and of the response.              *)
RoundTripBounded ==
    \A c \in Clients :
        elapsed[c] <= Timeout + SendTimeout * ReqSize(c) + Timeout * RespSize(c)
                      + (Timeout + SendTimeout) * spurious[c]
=============================================================================
