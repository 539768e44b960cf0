---------------------------- MODULE TicketQueue ----------------------------
(***************************************************************************)
(* What MpmcQueue<T> promises to its callers: a bounded FIFO in which      *)
(* every push and every pop takes a ticket (the position it wins with its  *)
(* compare-and-swap).  Taking a ticket orders the operation.  Publishing a *)
(* pushed item and freeing a popped cell are later, separate steps, and    *)
(* both are visible to other threads: a pop waits for the publication of   *)
(* its own ticket even when younger tickets are already published, and a   *)
(* push waits for the cell of the previous lap to be freed.  A failing     *)
(* try_push or try_pop changes nothing here.                               *)
(***************************************************************************)
EXTENDS Integers, Sequences

CONSTANTS Producers, Consumers, Values, NoValue, Capacity

VARIABLES
    enq,      \* next push ticket
    deq,      \* next pop ticket
    item,     \* item[n + 1] is the value pushed with ticket n
    ready,    \* tickets whose item is published
    freed,    \* tickets whose cell was given back by the consumer
    holding,  \* ticket a thread has taken and not yet published or freed
    out       \* value of the last successful pop of a consumer

queueVars == <<enq, deq, item, ready, freed, holding, out>>

Threads == Producers \cup Consumers

NoTicket == -1

Init ==
    /\ enq = 0
    /\ deq = 0
    /\ item = <<>>
    /\ ready = {}
    /\ freed = {}
    /\ holding = [t \in Threads |-> NoTicket]
    /\ out = [c \in Consumers |-> NoValue]

(* The cell of the next push ticket is not occupied by the previous lap. *)
HasRoom == enq < Capacity \/ enq - Capacity \in freed

(* The item of the next pop ticket is published. *)
HeadReady == deq \in ready

PushClaim(p, v) ==
    /\ holding[p] = NoTicket
    /\ HasRoom
    /\ enq' = enq + 1
    /\ item' = Append(item, v)
    /\ holding' = [holding EXCEPT ![p] = enq]
    /\ UNCHANGED <<deq, ready, freed, out>>

PushPublish(p) ==
    /\ holding[p] # NoTicket
    /\ ready' = ready \cup {holding[p]}
    /\ holding' = [holding EXCEPT ![p] = NoTicket]
    /\ UNCHANGED <<enq, deq, item, freed, out>>

PopClaim(c) ==
    /\ holding[c] = NoTicket
    /\ HeadReady
    /\ deq' = deq + 1
    /\ out' = [out EXCEPT ![c] = item[deq + 1]]
    /\ holding' = [holding EXCEPT ![c] = deq]
    /\ UNCHANGED <<enq, item, ready, freed>>

PopFree(c) ==
    /\ holding[c] # NoTicket
    /\ freed' = freed \cup {holding[c]}
    /\ holding' = [holding EXCEPT ![c] = NoTicket]
    /\ UNCHANGED <<enq, deq, item, ready, out>>

Next ==
    \/ \E p \in Producers : PushPublish(p) \/ \E v \in Values : PushClaim(p, v)
    \/ \E c \in Consumers : PopClaim(c) \/ PopFree(c)

Spec == Init /\ [][Next]_queueVars
=============================================================================
