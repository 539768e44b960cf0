------------------------- MODULE TcpTransportProofs -------------------------
(***************************************************************************)
(* Round trips over TCP for any number of clients, any frame sizes, buffer *)
(* and timeouts, however the streams are cut into pieces.                  *)
(***************************************************************************)
EXTENDS TcpTransport, TLAPS

Shape ==
    /\ out \in [Clients -> Nat] /\ got \in [Clients -> Nat]
    /\ srvGot \in [Clients -> Nat] /\ srvOut \in [Clients -> Nat]
    /\ outArrived \in [Clients -> Nat] /\ srvArrived \in [Clients -> Nat]
    /\ wait \in [Clients -> Nat] /\ elapsed \in [Clients -> Nat] /\ spurious \in [Clients -> Nat]
    /\ handled \in [Clients -> {0, 1}]
    /\ phase \in [Clients -> {"new", "connecting", "sending", "receiving", "ok", "failed"}]
    /\ conn \in [Clients -> {"none", "backlog", "open", "closed", "reset"}]
    /\ server \in {"accept", "recv", "handle", "send", "exited"}
    /\ serving \in Clients \cup {NoClient}

(* A connection is served once: it is new to the server until accepted,    *)
(* and never comes back to the backlog.                                    *)
Served ==
    /\ \A c \in Clients :
          /\ phase[c] \in {"new", "connecting"} => conn[c] = "none"
          /\ conn[c] \in {"none", "backlog"} => handled[c] = 0 /\ srvGot[c] = 0 /\ serving # c
          /\ serving = c => conn[c] \in {"open", "reset"}
    /\ server \in {"recv", "handle", "send"} => serving \in Clients
    /\ server = "recv" => handled[serving] = 0 /\ srvGot[serving] < ReqSize(serving)
    /\ server = "handle" => handled[serving] = 0 /\ srvGot[serving] = ReqSize(serving)
    /\ server = "send" => handled[serving] = 1

(* Bytes are read after they arrived, arrive after they were written, and  *)
(* are written after the handler has run.                                  *)
Streams ==
    \A c \in Clients :
        /\ got[c] <= srvArrived[c] /\ srvArrived[c] <= srvOut[c]
        /\ srvOut[c] > 0 => handled[c] = 1

(* What pieces and EAGAINs may cost a client in ticks *)
Sent(c) == SendTimeout * out[c]
SentAll(c) == SendTimeout * ReqSize(c)
Received(c) == Timeout * got[c]
ReceivedAll(c) == Timeout * RespSize(c)
Retried(c) == (Timeout + SendTimeout) * spurious[c]

(* What a client has spent so far: a timeout per piece at most, and the    *)
(* current poll round on top.                                              *)
SpentBy(c) ==
    /\ phase[c] \in {"new", "connecting"} =>
          elapsed[c] <= wait[c] /\ wait[c] <= Timeout /\ out[c] = 0
    /\ phase[c] = "new" => wait[c] = 0
    /\ phase[c] \in {"new", "connecting", "sending"} => got[c] = 0
    /\ phase[c] = "sending" =>
          /\ elapsed[c] <= Timeout + Sent(c) + Retried(c) + wait[c]
          /\ wait[c] <= SendTimeout /\ out[c] < ReqSize(c)
    /\ phase[c] = "receiving" =>
          /\ elapsed[c] <= Timeout + SentAll(c) + Received(c) + Retried(c) + wait[c]
          /\ wait[c] <= Timeout /\ got[c] < RespSize(c)
    /\ elapsed[c] <= Timeout + SentAll(c) + ReceivedAll(c) + Retried(c)

Spent == \A c \in Clients : SpentBy(c)

IInv == Shape /\ Served /\ Streams /\ Spent /\ WholeRequests /\ OkMeansAnswered

-----------------------------------------------------------------------------
(* Arithmetic *)

LEMMA OneMore == ASSUME NEW k \in Nat, NEW a \in Nat, NEW b \in Nat, a < b
                 PROVE  k * a \in Nat /\ k * b \in Nat /\ k * a + k <= k * b
<1>1. PICK d \in Nat : b = a + 1 + d
  <2>1. b - a - 1 \in Nat /\ b = a + 1 + (b - a - 1)
    OBVIOUS
  <2> QED BY <2>1
<1>2. k * b = k * a + k + k * d
  BY <1>1
<1>3. k * d \in Nat /\ k * a \in Nat /\ k * b \in Nat
  OBVIOUS
<1> QED BY <1>2, <1>3

LEMMA MinOfTwo == ASSUME NEW a \in Int, NEW b \in Int
                  PROVE  Min({a, b}) \in Int /\ Min({a, b}) <= a /\ Min({a, b}) <= b
<1>1. \E x \in {a, b} : \A y \in {a, b} : x <= y
  OBVIOUS
<1> QED BY <1>1 DEF Min

LEMMA Sizes == ASSUME NEW c \in Clients
               PROVE  /\ ReqSize(c) \in Nat /\ Header <= ReqSize(c)
                      /\ RespSize(c) \in Nat /\ Header <= RespSize(c)
                      /\ Header \in Nat /\ Header > 0
BY TcpAssumption DEF ReqSize, RespSize

(* A send or recv moves at least a byte and never crosses the frame. *)
LEMMA ChunkFits ==
    ASSUME NEW pos \in Nat, NEW size \in Nat, Header \in Nat, Header <= size,
           NEW possible \in Int, NEW n \in Chunks(pos, size, possible)
    PROVE  n \in Nat /\ n > 0 /\ pos + n <= size /\ n <= possible
<1>1. Rest(pos, size) \in Int /\ pos + Rest(pos, size) <= size
  BY DEF Rest
<1>2. /\ Min({Rest(pos, size), possible}) \in Int
      /\ Min({Rest(pos, size), possible}) <= Rest(pos, size)
      /\ Min({Rest(pos, size), possible}) <= possible
  BY <1>1, MinOfTwo
<1> QED BY <1>1, <1>2 DEF Chunks

LEMMA Costs ==
    ASSUME Shape, NEW c \in Clients
    PROVE  /\ Timeout \in Nat /\ SendTimeout \in Nat
           /\ Sent(c) \in Nat /\ SentAll(c) \in Nat /\ Received(c) \in Nat
           /\ ReceivedAll(c) \in Nat /\ Retried(c) \in Nat
           /\ out[c] < ReqSize(c) => Sent(c) + SendTimeout <= SentAll(c)
           /\ got[c] < RespSize(c) => Received(c) + Timeout <= ReceivedAll(c)
           /\ out[c] = ReqSize(c) => Sent(c) = SentAll(c)
           /\ out[c] = 0 => Sent(c) = 0
           /\ got[c] = 0 => Received(c) = 0
<1>1. /\ Timeout \in Nat /\ SendTimeout \in Nat /\ Timeout + SendTimeout \in Nat
      /\ out[c] \in Nat /\ got[c] \in Nat /\ spurious[c] \in Nat
      /\ ReqSize(c) \in Nat /\ RespSize(c) \in Nat
  BY TcpAssumption, Sizes DEF Shape
<1>2. /\ Sent(c) \in Nat /\ SentAll(c) \in Nat /\ Received(c) \in Nat
      /\ ReceivedAll(c) \in Nat /\ Retried(c) \in Nat
  BY <1>1 DEF Sent, SentAll, Received, ReceivedAll, Retried
<1>3. out[c] < ReqSize(c) => Sent(c) + SendTimeout <= SentAll(c)
  BY <1>1, OneMore DEF Sent, SentAll
<1>4. got[c] < RespSize(c) => Received(c) + Timeout <= ReceivedAll(c)
  BY <1>1, OneMore DEF Received, ReceivedAll
<1>5. /\ out[c] = ReqSize(c) => Sent(c) = SentAll(c)
      /\ out[c] = 0 => Sent(c) = 0
      /\ got[c] = 0 => Received(c) = 0
  BY <1>1 DEF Sent, SentAll, Received
<1> QED BY <1>1, <1>2, <1>3, <1>4, <1>5

LEMMA FixedCosts == ASSUME NEW c PROVE SentAll(c)' = SentAll(c) /\ ReceivedAll(c)' = ReceivedAll(c)
BY DEF SentAll, ReceivedAll, ReqSize, RespSize

(* The costs after a step that moves n bytes, or none *)
LEMMA SentMore ==
    ASSUME Shape, NEW c \in Clients, NEW n \in Nat, n > 0, out'[c] = out[c] + n
    PROVE  /\ Sent(c)' \in Nat /\ Sent(c) + SendTimeout <= Sent(c)'
           /\ out'[c] = ReqSize(c) => Sent(c)' = SentAll(c)
<1>1. SendTimeout \in Nat /\ out[c] \in Nat
  BY TcpAssumption DEF Shape
<1>2. Sent(c)' = SendTimeout * (out[c] + n)
  BY DEF Sent
<1> QED BY <1>1, <1>2, OneMore DEF Sent, SentAll

LEMMA ReceivedMore ==
    ASSUME Shape, NEW c \in Clients, NEW n \in Nat, n > 0, got'[c] = got[c] + n
    PROVE  Received(c)' \in Nat /\ Received(c) + Timeout <= Received(c)'
<1>1. Timeout \in Nat /\ got[c] \in Nat
  BY TcpAssumption DEF Shape
<1>2. Received(c)' = Timeout * (got[c] + n)
  BY DEF Received
<1> QED BY <1>1, <1>2, OneMore DEF Received

LEMMA SameSent == ASSUME NEW c, out'[c] = out[c] PROVE Sent(c)' = Sent(c)
BY DEF Sent
LEMMA SameReceived == ASSUME NEW c, got'[c] = got[c] PROVE Received(c)' = Received(c)
BY DEF Received
LEMMA SameRetried == ASSUME NEW c, spurious'[c] = spurious[c] PROVE Retried(c)' = Retried(c)
BY DEF Retried

LEMMA SameSpent ==
    ASSUME NEW c, SpentBy(c), phase'[c] = phase[c], wait'[c] = wait[c], elapsed'[c] = elapsed[c],
           out'[c] = out[c], got'[c] = got[c], spurious'[c] = spurious[c]
    PROVE  SpentBy(c)'
BY FixedCosts, SameSent, SameReceived, SameRetried DEF SpentBy, ReqSize, RespSize

-----------------------------------------------------------------------------
LEMMA TcpInit == Init => IInv
<1> SUFFICES ASSUME Init PROVE IInv
  OBVIOUS
<1> USE TcpAssumption DEF Init, Zero
<1>1. Shape
  BY DEF Shape
<1>2. Served /\ Streams /\ WholeRequests /\ OkMeansAnswered
  BY DEF Served, Streams, WholeRequests, OkMeansAnswered
<1>3. ASSUME NEW c \in Clients PROVE SpentBy(c)
  BY <1>1, <1>3, Costs DEF SpentBy
<1> QED BY <1>1, <1>2, <1>3 DEF IInv, Spent

(* A step of client c that leaves its streams alone: only its phase and    *)
(* its clock change, and the phase only forward.                           *)
LEMMA ClientMoves ==
    ASSUME IInv, NEW c \in Clients, NEW p, Enter(c, p),
           UNCHANGED <<elapsed, spurious, out, got, serverVars, netVars>>,
           \/ phase[c] = "new" /\ p = "connecting" /\ UNCHANGED conn
           \/ phase[c] = "connecting" /\ p = "sending" /\ conn' = [conn EXCEPT ![c] = "backlog"]
           \/ phase[c] # "new" /\ p = "failed" /\ UNCHANGED conn
           \/ phase[c] = "connecting" /\ p = "failed" /\ conn' = [conn EXCEPT ![c] = "backlog"]
    PROVE  IInv'
<1> USE DEF IInv, Enter, serverVars, netVars
<1>1. Shape'
  BY DEF Shape
<1>2. Served'
  BY DEF Shape, Served, ReqSize
<1>3. Streams' /\ WholeRequests' /\ OkMeansAnswered'
  BY DEF Shape, Streams, WholeRequests, OkMeansAnswered, ReqSize, RespSize
<1>4. \A d \in Clients : d # c => SpentBy(d)'
  BY SameSpent DEF Shape, Spent
<1>5. SpentBy(c)'
  <2>1. /\ phase'[c] = p /\ wait'[c] = 0 /\ elapsed'[c] = elapsed[c] /\ elapsed[c] \in Nat
        /\ wait[c] \in Nat /\ out'[c] = out[c] /\ got'[c] = got[c]
    BY DEF Shape
  <2>2. /\ Sent(c)' = Sent(c) /\ Received(c)' = Received(c) /\ Retried(c)' = Retried(c)
        /\ SentAll(c)' = SentAll(c) /\ ReceivedAll(c)' = ReceivedAll(c)
    BY FixedCosts, SameSent, SameReceived, SameRetried
  <2>3. SpentBy(c)
    BY DEF Spent
  <2>4. ReqSize(c) > 0 /\ ReqSize(c)' = ReqSize(c) /\ RespSize(c)' = RespSize(c)
    BY Sizes DEF ReqSize, RespSize
  <2>5. CASE p = "connecting"
    BY <2>1, <2>2, <2>3, <2>4, <2>5, Costs DEF SpentBy
  <2>6. CASE p = "sending"
    BY <2>1, <2>2, <2>3, <2>4, <2>6, Costs DEF SpentBy
  <2>7. CASE p = "failed"
    BY <2>1, <2>2, <2>3, <2>7, Costs DEF SpentBy
  <2> QED BY <2>5, <2>6, <2>7
<1> QED BY <1>1, <1>2, <1>3, <1>4, <1>5 DEF Spent

LEMMA SendPreserves == ASSUME IInv, NEW c \in Clients, Send(c) PROVE IInv'
<1> USE DEF IInv, serverVars, netVars
<1>1. PICK n \in Chunks(out[c], ReqSize(c), Buffer - (out[c] - srvGot[c])) :
         /\ out' = [out EXCEPT ![c] = @ + n]
         /\ Enter(c, IF out[c] + n = ReqSize(c) THEN "receiving" ELSE "sending")
  BY DEF Send
<1>2. /\ phase[c] = "sending"
      /\ UNCHANGED <<elapsed, spurious, got, serverVars, netVars, conn>>
  BY DEF Send
<1>3. n \in Nat /\ n > 0 /\ out[c] + n <= ReqSize(c)
  <2>1. out[c] \in Nat /\ Buffer - (out[c] - srvGot[c]) \in Int
    BY TcpAssumption DEF Shape
  <2> QED BY <2>1, Sizes, ChunkFits
<1>4. /\ phase'[c] = (IF out[c] + n = ReqSize(c) THEN "receiving" ELSE "sending")
      /\ wait'[c] = 0 /\ out'[c] = out[c] + n /\ elapsed'[c] = elapsed[c] /\ got'[c] = got[c]
      /\ out[c] \in Nat /\ wait[c] \in Nat /\ elapsed[c] \in Nat
      /\ \A d \in Clients : d # c => phase'[d] = phase[d] /\ wait'[d] = wait[d] /\ out'[d] = out[d]
  BY <1>1, <1>2 DEF Enter, Shape
<1>5. Shape'
  BY <1>1, <1>2, <1>3 DEF Enter, Shape
<1>6. Served'
  BY <1>2, <1>4 DEF Shape, Served, ReqSize
<1>7. Streams' /\ WholeRequests' /\ OkMeansAnswered'
  BY <1>2, <1>4 DEF Streams, WholeRequests, OkMeansAnswered, ReqSize, RespSize
<1>8. \A d \in Clients : d # c => SpentBy(d)'
  BY <1>2, <1>4, SameSpent DEF Spent
<1>9. SpentBy(c)'
  <2>1. /\ Received(c)' = Received(c) /\ Retried(c)' = Retried(c)
        /\ SentAll(c)' = SentAll(c) /\ ReceivedAll(c)' = ReceivedAll(c)
    BY <1>2, <1>4, FixedCosts, SameReceived, SameRetried
  <2>2. /\ Sent(c)' \in Nat /\ Sent(c) + SendTimeout <= Sent(c)'
        /\ out'[c] = ReqSize(c) => Sent(c)' = SentAll(c)
    BY <1>3, <1>4, SentMore
  <2>3. SpentBy(c)
    BY DEF Spent
  <2>4. /\ ReqSize(c)' = ReqSize(c) /\ RespSize(c)' = RespSize(c)
        /\ RespSize(c) \in Nat /\ RespSize(c) > 0 /\ ReqSize(c) \in Nat
    BY Sizes DEF ReqSize, RespSize
  <2>5. elapsed[c] <= Timeout + Sent(c)' + Retried(c)
    <3>1. elapsed[c] <= Timeout + Sent(c) + Retried(c) + wait[c] /\ wait[c] <= SendTimeout
      BY <1>2, <2>3 DEF SpentBy
    <3> QED BY <1>4, <2>2, <3>1, Costs
  <2>6. /\ got[c] = 0 /\ Received(c) = 0
        /\ elapsed[c] <= Timeout + SentAll(c) + ReceivedAll(c) + Retried(c)
    BY <1>2, <2>3, Costs DEF SpentBy, Received
  <2>7. CASE out[c] + n = ReqSize(c)
    BY <1>2, <1>4, <2>1, <2>2, <2>4, <2>5, <2>6, <2>7, Costs DEF SpentBy
  <2>8. CASE out[c] + n # ReqSize(c)
    <3>1. phase'[c] = "sending" /\ out'[c] < ReqSize(c)
      BY <1>3, <1>4, <2>4, <2>8
    <3> QED BY <1>2, <1>4, <2>1, <2>2, <2>4, <2>5, <2>6, <3>1, Costs DEF SpentBy
  <2> QED BY <2>7, <2>8
<1> QED BY <1>5, <1>6, <1>7, <1>8, <1>9 DEF Spent

LEMMA ReceivePreserves == ASSUME IInv, NEW c \in Clients, Receive(c) PROVE IInv'
<1> USE DEF IInv, serverVars, netVars
<1>1. PICK n \in Chunks(got[c], RespSize(c), srvArrived[c] - got[c]) :
         /\ got' = [got EXCEPT ![c] = @ + n]
         /\ Enter(c, IF got[c] + n = RespSize(c) THEN "ok" ELSE "receiving")
  BY DEF Receive
<1>2. /\ phase[c] = "receiving"
      /\ UNCHANGED <<elapsed, spurious, out, serverVars, netVars, conn>>
  BY DEF Receive
<1>3. n \in Nat /\ n > 0 /\ got[c] + n <= RespSize(c) /\ n <= srvArrived[c] - got[c]
  <2>1. got[c] \in Nat /\ srvArrived[c] - got[c] \in Int
    BY DEF Shape
  <2> QED BY <2>1, Sizes, ChunkFits
<1>4. /\ phase'[c] = (IF got[c] + n = RespSize(c) THEN "ok" ELSE "receiving")
      /\ wait'[c] = 0 /\ got'[c] = got[c] + n /\ elapsed'[c] = elapsed[c] /\ out'[c] = out[c]
      /\ got[c] \in Nat /\ wait[c] \in Nat /\ elapsed[c] \in Nat
      /\ srvArrived[c] \in Nat /\ srvOut[c] \in Nat
      /\ \A d \in Clients : d # c => phase'[d] = phase[d] /\ wait'[d] = wait[d] /\ got'[d] = got[d]
  BY <1>1, <1>2 DEF Enter, Shape
<1>5. Shape'
  BY <1>1, <1>2, <1>3 DEF Enter, Shape
<1>6. Served'
  BY <1>2, <1>4 DEF Shape, Served, ReqSize
<1>7. Streams' /\ handled[c] = 1
  <2>1. srvOut[c] > 0 /\ got'[c] <= srvArrived[c]
    BY <1>3, <1>4 DEF Streams
  <2> QED BY <1>2, <1>4, <2>1 DEF Streams
<1>8. WholeRequests' /\ OkMeansAnswered'
  BY <1>2, <1>4, <1>7 DEF WholeRequests, OkMeansAnswered, ReqSize, RespSize
<1>9. \A d \in Clients : d # c => SpentBy(d)'
  BY <1>2, <1>4, SameSpent DEF Spent
<1>10. SpentBy(c)'
  <2>1. /\ Sent(c)' = Sent(c) /\ Retried(c)' = Retried(c)
        /\ SentAll(c)' = SentAll(c) /\ ReceivedAll(c)' = ReceivedAll(c)
    BY <1>2, <1>4, FixedCosts, SameSent, SameRetried
  <2>2. Received(c)' \in Nat /\ Received(c) + Timeout <= Received(c)'
    BY <1>3, <1>4, ReceivedMore
  <2>3. SpentBy(c)
    BY DEF Spent
  <2>4. ReqSize(c)' = ReqSize(c) /\ RespSize(c)' = RespSize(c) /\ RespSize(c) \in Nat
    BY Sizes DEF ReqSize, RespSize
  <2>5. CASE got[c] + n = RespSize(c)
    BY <1>2, <1>4, <2>1, <2>3, <2>5 DEF SpentBy
  <2>6. CASE got[c] + n # RespSize(c)
    <3>1. phase'[c] = "receiving" /\ got'[c] < RespSize(c)
      BY <1>3, <1>4, <2>4, <2>6
    <3>2. elapsed'[c] <= Timeout + SentAll(c)' + Received(c)' + Retried(c)' + wait'[c]
      <4>1. /\ elapsed[c] <= Timeout + SentAll(c) + Received(c) + Retried(c) + wait[c]
            /\ wait[c] <= Timeout
        BY <1>2, <2>3 DEF SpentBy
      <4>2. /\ Timeout \in Nat /\ SentAll(c) \in Nat /\ Received(c) \in Nat /\ Retried(c) \in Nat
        BY Costs
      <4>3. /\ elapsed'[c] = elapsed[c] /\ wait'[c] = 0
            /\ elapsed[c] \in Nat /\ wait[c] \in Nat
        BY <1>4
      <4>4. elapsed[c] <= Timeout + SentAll(c) + Received(c)' + Retried(c) + 0
        BY <2>2, <4>1, <4>2, <4>3
      <4> QED BY <2>1, <4>3, <4>4
    <3> QED BY <1>2, <1>4, <2>1, <2>3, <2>4, <3>1, <3>2, Costs DEF SpentBy
  <2> QED BY <2>5, <2>6
<1> QED BY <1>5, <1>6, <1>7, <1>8, <1>9, <1>10 DEF Spent

LEMMA AgainPreserves == ASSUME IInv, NEW c \in Clients, Again(c) PROVE IInv'
<1> USE DEF IInv, serverVars, netVars
<1>1. /\ phase[c] \in {"sending", "receiving"} /\ phase' = phase /\ wait'[c] = 0
      /\ UNCHANGED <<elapsed, out, got, serverVars, netVars, conn>>
      /\ spurious'[c] = spurious[c] + 1 /\ spurious[c] \in Nat /\ wait[c] \in Nat /\ elapsed[c] \in Nat
      /\ \A d \in Clients : d # c => wait'[d] = wait[d] /\ spurious'[d] = spurious[d]
  BY DEF Again, Shape
<1>2. Shape'
  BY DEF Again, Shape
<1>3. Served' /\ Streams' /\ WholeRequests' /\ OkMeansAnswered'
  BY <1>1 DEF Served, Streams, WholeRequests, OkMeansAnswered, ReqSize, RespSize
<1>4. \A d \in Clients : d # c => SpentBy(d)'
  BY <1>1, SameSpent DEF Spent
<1>5. SpentBy(c)'
  <2>1. /\ Sent(c)' = Sent(c) /\ Received(c)' = Received(c)
        /\ SentAll(c)' = SentAll(c) /\ ReceivedAll(c)' = ReceivedAll(c)
    BY <1>1, FixedCosts, SameSent, SameReceived
  <2>2. Retried(c)' \in Nat /\ Retried(c) + Timeout + SendTimeout <= Retried(c)'
    <3>0. Timeout + SendTimeout \in Nat
      BY Costs
    <3>1. Timeout + SendTimeout \in Nat /\ Retried(c)' = (Timeout + SendTimeout) * (spurious[c] + 1)
      BY <1>1, <3>0 DEF Retried
    <3>2. Retried(c) + (Timeout + SendTimeout) <= Retried(c)' /\ Retried(c)' \in Nat
      BY <1>1, <3>1, OneMore DEF Retried
    <3> QED BY <3>2, Costs
  <2>3. SpentBy(c)
    BY DEF Spent
  <2>4. ReqSize(c)' = ReqSize(c) /\ RespSize(c)' = RespSize(c)
    BY DEF ReqSize, RespSize
  <2>5. CASE phase[c] = "sending"
    BY <1>1, <2>1, <2>2, <2>3, <2>4, <2>5, Costs DEF SpentBy
  <2>6. CASE phase[c] = "receiving"
    BY <1>1, <2>1, <2>2, <2>3, <2>4, <2>6, Costs DEF SpentBy
  <2> QED BY <1>1, <2>5, <2>6
<1> QED BY <1>2, <1>3, <1>4, <1>5 DEF Spent

(* Time passes only while every polling client is below its limit. *)
LEMMA TickPreserves == ASSUME IInv, Tick PROVE IInv'
<1> USE DEF IInv, netVars
<1>1. UNCHANGED <<phase, spurious, out, got, server, serving, srvGot, srvOut, handled, netVars, conn>>
  BY DEF Tick
<1>2. Shape'
  BY <1>1 DEF Tick, Shape
<1>3. Served' /\ Streams' /\ WholeRequests' /\ OkMeansAnswered'
  BY <1>1 DEF Served, Streams, WholeRequests, OkMeansAnswered, ReqSize, RespSize
<1>4. ASSUME NEW c \in Clients PROVE SpentBy(c)'
  <2>1. CASE ~Polling(c)
    <3>1. wait'[c] = wait[c] /\ elapsed'[c] = elapsed[c]
      BY <1>4, <2>1 DEF Tick
    <3> QED BY <1>1, <1>4, <3>1, SameSpent DEF Spent
  <2>2. CASE Polling(c)
    <3>1. /\ wait'[c] = wait[c] + 1 /\ elapsed'[c] = elapsed[c] + 1 /\ wait[c] < Limit(c)
          /\ wait[c] \in Nat /\ elapsed[c] \in Nat
      BY <1>4, <2>2 DEF Tick, Shape
    <3>2. /\ Sent(c)' = Sent(c) /\ Received(c)' = Received(c) /\ Retried(c)' = Retried(c)
          /\ SentAll(c)' = SentAll(c) /\ ReceivedAll(c)' = ReceivedAll(c)
      BY <1>1, FixedCosts, SameSent, SameReceived, SameRetried
    <3>3. SpentBy(c)
      BY <1>4 DEF Spent
    <3>4. ReqSize(c)' = ReqSize(c) /\ RespSize(c)' = RespSize(c)
      BY DEF ReqSize, RespSize
    <3>5. CASE phase[c] = "connecting"
      <4>1. /\ elapsed[c] <= wait[c] /\ wait[c] < Timeout /\ out[c] = 0 /\ got[c] = 0
        BY <3>1, <3>3, <3>5 DEF SpentBy, Limit
      <4>2. elapsed'[c] <= wait'[c] /\ wait'[c] <= Timeout
        BY <1>4, <3>1, <4>1, Costs
      <4>3. elapsed'[c] <= Timeout + SentAll(c) + ReceivedAll(c) + Retried(c)
        BY <1>4, <3>1, <4>1, Costs
      <4> QED BY <1>1, <3>2, <3>5, <4>1, <4>2, <4>3 DEF SpentBy
    <3>6. CASE phase[c] = "sending"
      <4>1. /\ elapsed[c] <= Timeout + Sent(c) + Retried(c) + wait[c]
            /\ wait[c] < SendTimeout /\ out[c] < ReqSize(c) /\ got[c] = 0
        BY <3>1, <3>3, <3>6 DEF SpentBy, Limit
      <4>2. elapsed'[c] <= Timeout + Sent(c) + Retried(c) + wait'[c] /\ wait'[c] <= SendTimeout
        BY <1>4, <3>1, <4>1, Costs
      <4>3. elapsed'[c] <= Timeout + SentAll(c) + ReceivedAll(c) + Retried(c)
        BY <1>4, <3>1, <4>1, <4>2, Costs
      <4> QED BY <1>1, <3>2, <3>4, <3>6, <4>1, <4>2, <4>3 DEF SpentBy
    <3>7. CASE phase[c] = "receiving"
      <4>1. /\ elapsed[c] <= Timeout + SentAll(c) + Received(c) + Retried(c) + wait[c]
            /\ wait[c] < Timeout /\ got[c] < RespSize(c)
        BY <3>1, <3>3, <3>7 DEF SpentBy, Limit
      <4>2. elapsed'[c] <= Timeout + SentAll(c) + Received(c) + Retried(c) + wait'[c] /\ wait'[c] <= Timeout
        BY <1>4, <3>1, <4>1, Costs
      <4>3. elapsed'[c] <= Timeout + SentAll(c) + ReceivedAll(c) + Retried(c)
        BY <1>4, <3>1, <4>1, <4>2, Costs
      <4> QED BY <1>1, <3>2, <3>4, <3>7, <4>1, <4>2, <4>3 DEF SpentBy
    <3> QED BY <2>2, <3>5, <3>6, <3>7 DEF Polling
  <2> QED BY <2>1, <2>2
<1> QED BY <1>2, <1>3, <1>4 DEF Spent

-----------------------------------------------------------------------------
(* Steps that leave the clients alone *)

LEMMA SpentKept == ASSUME Spent, UNCHANGED clientVars PROVE Spent'
BY SameSpent DEF Spent, clientVars

LEMMA CloseKeeps ==
    ASSUME IInv, CloseServed, serving \in Clients, UNCHANGED <<clientVars, srvGot>>,
           handled' = handled \/ handled' = [handled EXCEPT ![serving] = 1]
    PROVE  Served' /\ server' \in {"accept", "exited"} /\ serving' = NoClient
           /\ conn' \in [Clients -> {"none", "backlog", "open", "closed", "reset"}]
<1>1. server' \in {"accept", "exited"} /\ serving' = NoClient
  BY DEF CloseServed
<1>2. PICK s \in Clients : s = serving
  OBVIOUS
<1>3. /\ conn'[s] \in {"closed", "reset"} /\ conn[s] \in {"open", "reset"}
      /\ \A d \in Clients : d # s => conn'[d] = conn[d] /\ handled'[d] = handled[d]
  BY <1>2 DEF CloseServed, IInv, Shape, Served
<1>4. conn' \in [Clients -> {"none", "backlog", "open", "closed", "reset"}]
  BY DEF CloseServed, IInv, Shape
<1>5. phase' = phase /\ srvGot' = srvGot
  BY DEF clientVars
<1>6. ASSUME NEW d \in Clients
      PROVE  /\ phase'[d] \in {"new", "connecting"} => conn'[d] = "none"
             /\ conn'[d] \in {"none", "backlog"} => handled'[d] = 0 /\ srvGot'[d] = 0 /\ serving' # d
             /\ serving' = d => conn'[d] \in {"open", "reset"}
  BY <1>1, <1>3, <1>5, <1>6, TcpAssumption DEF IInv, Served
<1> QED BY <1>1, <1>4, <1>6 DEF Served

LEMMA ServerPreserves == ASSUME IInv, ServerStep PROVE IInv'
<1>0. Shape /\ Served /\ Streams /\ Spent /\ WholeRequests /\ OkMeansAnswered
  BY DEF IInv
<1>1. Spent' /\ UNCHANGED clientVars
  BY <1>0, SpentKept DEF ServerStep, ServerReceive, Handle, ServerSend, ServerBreaks, LoopEnds, Accept
<1>2. ASSUME NEW c \in Clients, Accept(c) PROVE IInv'
  <2>1. Shape'
    BY <1>0, <1>2 DEF Accept, Shape, clientVars, netVars
  <2>2. srvGot[c] = 0 /\ handled[c] = 0 /\ ReqSize(c) > 0
    BY <1>0, <1>2, Sizes DEF Accept, Served
  <2>3. Served'
    BY <1>0, <1>2, <2>2 DEF Accept, Served, Shape, clientVars, ReqSize
  <2>4. Streams' /\ WholeRequests' /\ OkMeansAnswered'
    BY <1>0, <1>2 DEF Accept, Streams, WholeRequests, OkMeansAnswered, ReqSize, RespSize, clientVars, netVars
  <2> QED BY <1>1, <2>1, <2>3, <2>4 DEF IInv
<1>3. CASE ServerReceive
  <2>1. PICK s \in Clients : s = serving
    BY <1>0, <1>3 DEF ServerReceive, Served
  <2>2. PICK n \in Chunks(srvGot[s], ReqSize(s), outArrived[s] - srvGot[s]) :
           /\ srvGot' = [srvGot EXCEPT ![s] = @ + n]
           /\ server' = IF srvGot[s] + n = ReqSize(s) THEN "handle" ELSE "recv"
    BY <1>3, <2>1 DEF ServerReceive
  <2>3. n \in Nat /\ srvGot[s] + n <= ReqSize(s) /\ srvGot[s] \in Nat /\ ReqSize(s) \in Nat
    BY <1>0, Sizes, ChunkFits DEF Shape
  <2>4. /\ server = "recv" /\ serving' = s
        /\ UNCHANGED <<clientVars, srvOut, handled, netVars, conn>>
    BY <1>3, <2>1 DEF ServerReceive
  <2>5. /\ srvGot'[s] = srvGot[s] + n /\ handled[s] = 0 /\ conn[s] \in {"open", "reset"}
        /\ \A d \in Clients : d # s => srvGot'[d] = srvGot[d]
    BY <1>0, <2>1, <2>2, <2>4 DEF Shape, Served
  <2>6. Shape'
    BY <1>0, <2>2, <2>3, <2>4 DEF Shape, clientVars, netVars
  <2>7. Served'
    <3>1. server' = "recv" => srvGot'[s] < ReqSize(s)
      BY <2>2, <2>3, <2>5
    <3>2. server' = "handle" => srvGot'[s] = ReqSize(s)
      BY <2>2, <2>5
    <3>3. server' \in {"recv", "handle"}
      BY <2>2
    <3> QED BY <1>0, <2>1, <2>4, <2>5, <3>1, <3>2, <3>3 DEF Served, ReqSize, clientVars
  <2>8. Streams' /\ WholeRequests' /\ OkMeansAnswered'
    BY <1>0, <2>4, <2>5 DEF Streams, WholeRequests, OkMeansAnswered, ReqSize, RespSize, clientVars, netVars
  <2> QED BY <1>1, <2>6, <2>7, <2>8 DEF IInv
<1>4. CASE Handle
  <2>1. PICK s \in Clients : s = serving
    BY <1>0, <1>4 DEF Handle, Served
  <2>2. handled[s] = 0 /\ srvGot[s] = ReqSize(s) /\ conn[s] \in {"open", "reset"} /\ server = "handle"
    BY <1>0, <1>4, <2>1 DEF Handle, Served
  <2>3. handled' = [handled EXCEPT ![s] = 1] /\ UNCHANGED <<clientVars, srvGot, srvOut, netVars>>
    BY <1>0, <1>4, <2>1, <2>2 DEF Handle, Shape
  <2>4. handled'[s] = 1 /\ \A d \in Clients : d # s => handled'[d] = handled[d]
    BY <1>0, <2>3 DEF Shape
  <2>5. /\ Served' /\ server' \in {"accept", "send", "exited"} /\ serving' \in Clients \cup {NoClient}
        /\ conn' \in [Clients -> {"none", "backlog", "open", "closed", "reset"}]
    <3>1. CASE CloseServed
      BY <2>1, <2>3, <3>1, CloseKeeps
    <3>2. CASE server' = "send" /\ UNCHANGED <<serving, srvWait, conn>>
      BY <1>0, <2>1, <2>2, <2>3, <2>4, <3>2 DEF Served, Shape, clientVars
    <3> QED BY <1>4, <3>1, <3>2 DEF Handle
  <2>6. Shape'
    BY <1>0, <2>3, <2>5 DEF Shape, clientVars, netVars
  <2>7. Streams' /\ WholeRequests' /\ OkMeansAnswered'
    BY <1>0, <2>2, <2>3, <2>4 DEF Streams, WholeRequests, OkMeansAnswered, ReqSize, RespSize, clientVars, netVars
  <2> QED BY <1>1, <2>5, <2>6, <2>7 DEF IInv
<1>5. CASE ServerSend
  <2>1. PICK s \in Clients : s = serving
    BY <1>0, <1>5 DEF ServerSend, Served
  <2>2. PICK n \in Chunks(srvOut[s], RespSize(s), Buffer - (srvOut[s] - got[s])) :
           /\ srvOut' = [srvOut EXCEPT ![s] = @ + n]
           /\ CloseServed \/ (server' = "send" /\ UNCHANGED <<serving, conn>>)
    BY <1>5, <2>1 DEF ServerSend
  <2>3. n \in Nat /\ srvOut[s] \in Nat
    <3>1. srvOut[s] \in Nat /\ Buffer - (srvOut[s] - got[s]) \in Int
      BY <1>0, TcpAssumption DEF Shape
    <3> QED BY <3>1, Sizes, ChunkFits
  <2>4. server = "send" /\ handled[s] = 1 /\ UNCHANGED <<clientVars, srvGot, handled, netVars>>
    BY <1>0, <1>5, <2>1 DEF ServerSend, Served
  <2>5. srvOut'[s] = srvOut[s] + n /\ \A d \in Clients : d # s => srvOut'[d] = srvOut[d]
    BY <1>0, <2>2 DEF Shape
  <2>6. /\ Served' /\ server' \in {"accept", "send", "exited"} /\ serving' \in Clients \cup {NoClient}
        /\ conn' \in [Clients -> {"none", "backlog", "open", "closed", "reset"}]
    <3>1. CASE CloseServed
      BY <2>1, <2>4, <3>1, CloseKeeps
    <3>2. CASE server' = "send" /\ UNCHANGED <<serving, conn>>
      BY <1>0, <2>1, <2>4, <3>2 DEF Served, Shape, clientVars
    <3> QED BY <2>2, <3>1, <3>2
  <2>7. Shape'
    <3>1. srvOut' \in [Clients -> Nat]
      BY <1>0, <2>2, <2>3 DEF Shape
    <3> QED BY <1>0, <2>4, <2>6, <3>1 DEF Shape, clientVars, netVars
  <2>8. Streams' /\ WholeRequests' /\ OkMeansAnswered'
    BY <1>0, <2>3, <2>4, <2>5 DEF Shape, Streams, WholeRequests, OkMeansAnswered, ReqSize, RespSize,
                                  clientVars, netVars
  <2> QED BY <1>1, <2>6, <2>7, <2>8 DEF IInv
<1>6. CASE ServerBreaks
  <2>1. serving \in Clients /\ CloseServed /\ UNCHANGED <<clientVars, srvGot, srvOut, handled, netVars>>
    BY <1>0, <1>6 DEF ServerBreaks, Served
  <2>2. /\ Served' /\ server' \in {"accept", "exited"} /\ serving' = NoClient
        /\ conn' \in [Clients -> {"none", "backlog", "open", "closed", "reset"}]
    BY <2>1, CloseKeeps
  <2>3. Shape'
    BY <1>0, <2>1, <2>2 DEF Shape, clientVars, netVars
  <2>4. Streams' /\ WholeRequests' /\ OkMeansAnswered'
    BY <1>0, <2>1 DEF Streams, WholeRequests, OkMeansAnswered, ReqSize, RespSize, clientVars, netVars
  <2> QED BY <1>1, <2>2, <2>3, <2>4 DEF IInv
<1>7. CASE LoopEnds
  <2>1. Shape' /\ Served'
    BY <1>0, <1>7 DEF LoopEnds, Shape, Served, clientVars, netVars
  <2>2. Streams' /\ WholeRequests' /\ OkMeansAnswered'
    BY <1>0, <1>7 DEF LoopEnds, Streams, WholeRequests, OkMeansAnswered, ReqSize, RespSize,
                      clientVars, netVars
  <2> QED BY <1>1, <2>1, <2>2 DEF IInv
<1> QED BY <1>2, <1>3, <1>4, <1>5, <1>6, <1>7 DEF ServerStep

(* Resets, closing the listener: connections only move forward. *)
LEMMA NetPreserves ==
    ASSUME IInv, UNCHANGED <<clientVars, serverVars>>,
           \/ UNCHANGED <<netVars, conn>>
           \/ \E c \in Clients : Deliver(c)
           \/ UNCHANGED netVars /\ conn' \in [Clients -> {"none", "backlog", "open", "closed", "reset"}]
              /\ \A c \in Clients : conn'[c] = conn[c] \/ (conn[c] # "none" /\ conn'[c] = "reset")
    PROVE  IInv'
<1>0. Shape /\ Served /\ Streams /\ Spent /\ WholeRequests /\ OkMeansAnswered
  BY DEF IInv
<1>1. Spent'
  BY <1>0, SpentKept
<1>2. WholeRequests' /\ OkMeansAnswered'
  BY <1>0 DEF WholeRequests, OkMeansAnswered, ReqSize, RespSize, clientVars, serverVars
<1>3. Shape' /\ Streams'
  <2>1. CASE UNCHANGED netVars /\ conn' \in [Clients -> {"none", "backlog", "open", "closed", "reset"}]
    BY <1>0, <2>1 DEF Shape, Streams, clientVars, serverVars, netVars
  <2>2. ASSUME NEW c \in Clients, Deliver(c) PROVE Shape' /\ Streams'
    BY <1>0, <2>2 DEF Shape, Streams, Deliver, clientVars, serverVars
  <2> QED BY <1>0, <2>1, <2>2 DEF Shape
<1>4. Served'
  <2>1. \A c \in Clients : conn'[c] = conn[c] \/ (conn[c] # "none" /\ conn'[c] = "reset")
    BY DEF Deliver
  <2> QED BY <1>0, <2>1 DEF Served, ReqSize, clientVars, serverVars
<1> QED BY <1>0, <1>1, <1>2, <1>3, <1>4 DEF IInv

-----------------------------------------------------------------------------
LEMMA TcpNext == IInv /\ [Next]_vars => IInv'
<1> SUFFICES ASSUME IInv, [Next]_vars PROVE IInv'
  OBVIOUS
<1>1. ASSUME NEW c \in Clients, Connect(c) PROVE IInv'
  <2>1. /\ Enter(c, "connecting") /\ phase[c] = "new"
        /\ UNCHANGED <<elapsed, spurious, out, got, serverVars, netVars, conn>>
    BY <1>1 DEF Connect
  <2> QED BY <2>1, ClientMoves
<1>2. ASSUME NEW c \in Clients, Connected(c) PROVE IInv'
  <2>1. /\ phase[c] = "connecting" /\ conn' = [conn EXCEPT ![c] = "backlog"]
        /\ Enter(c, "failed") \/ Enter(c, "sending")
        /\ UNCHANGED <<elapsed, spurious, out, got, serverVars, netVars>>
    BY <1>2 DEF Connected
  <2> QED BY <2>1, ClientMoves
<1>3. ASSUME NEW c \in Clients, ConnectFails(c) \/ Breaks(c) PROVE IInv'
  <2>1. /\ phase[c] # "new" /\ Enter(c, "failed")
        /\ UNCHANGED <<elapsed, spurious, out, got, serverVars, netVars, conn>>
    BY <1>3 DEF ConnectFails, Breaks, Polling
  <2> QED BY <2>1, ClientMoves
<1>4. ASSUME NEW c \in Clients, Send(c) \/ Receive(c) \/ Again(c) PROVE IInv'
  BY <1>4, SendPreserves, ReceivePreserves, AgainPreserves
<1>5. ASSUME NEW c \in Clients, Deliver(c) PROVE IInv'
  <2>1. UNCHANGED <<clientVars, serverVars>>
    BY <1>5 DEF Deliver
  <2> QED BY <1>5, <2>1, NetPreserves
<1>6. ASSUME NEW c \in Clients, Reset(c) PROVE IInv'
  <2>1. UNCHANGED <<clientVars, serverVars>> /\ UNCHANGED netVars
    BY <1>6 DEF Reset
  <2>2. /\ conn' \in [Clients -> {"none", "backlog", "open", "closed", "reset"}]
        /\ \A d \in Clients : conn'[d] = conn[d] \/ (conn[d] # "none" /\ conn'[d] = "reset")
    BY <1>6 DEF Reset, IInv, Shape
  <2> QED BY <2>1, <2>2, NetPreserves
<1>7. CASE CloseListener
  <2>1. UNCHANGED <<clientVars, serverVars>> /\ UNCHANGED netVars
    BY <1>7 DEF CloseListener
  <2>2. /\ conn' \in [Clients -> {"none", "backlog", "open", "closed", "reset"}]
        /\ \A d \in Clients : conn'[d] = conn[d] \/ (conn[d] # "none" /\ conn'[d] = "reset")
    BY <1>7 DEF CloseListener, IInv, Shape
  <2> QED BY <2>1, <2>2, NetPreserves
<1>8. CASE StopServing \/ Over \/ UNCHANGED vars
  <2>1. UNCHANGED <<clientVars, serverVars>> /\ UNCHANGED <<netVars, conn>>
    BY <1>8 DEF StopServing, Over, vars
  <2> QED BY <2>1, NetPreserves
<1> QED BY <1>1, <1>2, <1>3, <1>4, <1>5, <1>6, <1>7, <1>8, ServerPreserves, TickPreserves
        DEF Next, ClientStep

LEMMA TcpInvariant == Spec => []IInv
<1> QED BY TcpInit, TcpNext, PTL DEF Spec

(* The server's handler sees whole requests only, once per connection:     *)
(* serve() with recv_on_fd, for any cut of the streams.                    *)
THEOREM HandlerSeesWholeRequests == Spec => []WholeRequests
<1>1. IInv => WholeRequests
  BY DEF IInv
<1> QED BY <1>1, TcpInvariant, PTL

(* A round trip of offload_to_peer that reports transport_ok holds all of  *)
(* the response that the handler made for its own request.                 *)
THEOREM OkIsAnswered == Spec => []OkMeansAnswered
<1>1. IInv => OkMeansAnswered
  BY DEF IInv
<1> QED BY <1>1, TcpInvariant, PTL

(* A round trip takes at most a timeout per piece of its frames and per    *)
(* EAGAIN, on top of one for connecting, whatever the network does.        *)
THEOREM BoundedRoundTrip == Spec => []RoundTripBounded
<1>1. IInv => RoundTripBounded
  BY DEF IInv, Spent, SpentBy, RoundTripBounded, SentAll, ReceivedAll, Retried
<1> QED BY <1>1, TcpInvariant, PTL
=============================================================================
