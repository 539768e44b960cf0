--------------------------- MODULE MCTcpTransport ---------------------------
EXTENDS TcpTransport

CONSTANTS c1, c2

(* c2's request is above the limit: it connects, takes its turn with the   *)
(* server and leaves without sending.                                      *)
Requests == [c \in Clients |-> IF c = c2 THEN 3 ELSE 1]
Responses == [c \in Clients |-> 2]
=============================================================================
