----------------------------- MODULE MpmcQueue -----------------------------
(***************************************************************************)
(* executor/mpmc_queue.hpp: the bounded multi-producer multi-consumer ring *)
(* at the granularity of its atomic accesses.  A thread's pc names the     *)
(* access it performs next.  The reload of a stale position (lines 59 and  *)
(* 83) is merged with the sequence load that found it stale: sequence      *)
(* numbers only grow, so the branch would be taken at the reload too.      *)
(* item is a history variable: the values in the order their tickets were  *)
(* won.                                                                    *)
(***************************************************************************)
EXTENDS Integers, Sequences

CONSTANTS Producers, Consumers, Values, NoValue, Capacity,
          MaxPush   \* bound: no push starts once enqueue_pos reached it

ASSUME MpmcAssumption ==
    /\ Capacity \in Nat /\ Capacity >= 2   \* the constructor's minimum
    /\ MaxPush \in Nat
    /\ NoValue \notin Values
    /\ Producers \cap Consumers = {}

VARIABLES
    enqueue_pos, dequeue_pos,
    sequence,     \* cells_[i].sequence
    value,        \* cells_[i].value
    pc, pos,      \* control point and local variable pos of each thread
    arg,          \* value a producer is pushing
    out,          \* value a consumer popped
    item

vars == <<enqueue_pos, dequeue_pos, sequence, value, pc, pos, arg, out, item>>

Threads == Producers \cup Consumers
Cells == 0 .. Capacity - 1
Cell(n) == n % Capacity

Init ==
    /\ enqueue_pos = 0
    /\ dequeue_pos = 0
    /\ sequence = [i \in Cells |-> i]
    /\ value = [i \in Cells |-> NoValue]
    /\ pc = [t \in Threads |-> "idle"]
    /\ pos = [t \in Threads |-> 0]
    /\ arg = [p \in Producers |-> NoValue]
    /\ out = [c \in Consumers |-> NoValue]
    /\ item = <<>>

(* The signed difference both loops branch on. *)
Diff(t, expected) == sequence[Cell(pos[t])] - expected

-----------------------------------------------------------------------------
(* try_push *)

CallPush(p) ==
    /\ pc[p] = "idle"
    /\ enqueue_pos < MaxPush
    /\ \E v \in Values : arg' = [arg EXCEPT ![p] = v]
    /\ pos' = [pos EXCEPT ![p] = enqueue_pos]
    /\ pc' = [pc EXCEPT ![p] = "push_check"]
    /\ UNCHANGED <<enqueue_pos, dequeue_pos, sequence, value, out, item>>

(* Variant: any sequence number but the expected one reads as full. *)
PushCheckGivesUp(p) ==
    /\ pc[p] = "push_check"
    /\ pc' = [pc EXCEPT ![p] = IF Diff(p, pos[p]) = 0 THEN "push_cas" ELSE "idle"]
    /\ UNCHANGED <<enqueue_pos, dequeue_pos, sequence, value, pos, arg, out, item>>

PushCheck(p) ==
    /\ pc[p] = "push_check"
    /\ \/ /\ Diff(p, pos[p]) = 0
          /\ pc' = [pc EXCEPT ![p] = "push_cas"]
          /\ UNCHANGED pos
       \/ /\ Diff(p, pos[p]) < 0              \* full: return false
          /\ pc' = [pc EXCEPT ![p] = "idle"]
          /\ UNCHANGED pos
       \/ /\ Diff(p, pos[p]) > 0
          /\ pos' = [pos EXCEPT ![p] = enqueue_pos]
          /\ UNCHANGED pc
    /\ UNCHANGED <<enqueue_pos, dequeue_pos, sequence, value, arg, out, item>>

(* Variant: a store instead of the compare-and-swap. *)
PushStore(p) ==
    /\ pc[p] = "push_cas"
    /\ enqueue_pos' = pos[p] + 1
    /\ item' = Append(item, arg[p])
    /\ pc' = [pc EXCEPT ![p] = "push_write"]
    /\ UNCHANGED <<dequeue_pos, sequence, value, pos, arg, out>>

PushCas(p) ==
    /\ pc[p] = "push_cas"
    /\ enqueue_pos = pos[p]
    /\ enqueue_pos' = enqueue_pos + 1
    /\ item' = Append(item, arg[p])
    /\ pc' = [pc EXCEPT ![p] = "push_write"]
    /\ UNCHANGED <<dequeue_pos, sequence, value, pos, arg, out>>

(* compare_exchange_weak failed, spuriously or not: pos is reloaded. *)
PushCasFail(p) ==
    /\ pc[p] = "push_cas"
    /\ pos' = [pos EXCEPT ![p] = enqueue_pos]
    /\ pc' = [pc EXCEPT ![p] = "push_check"]
    /\ UNCHANGED <<enqueue_pos, dequeue_pos, sequence, value, arg, out, item>>

PushWrite(p) ==
    /\ pc[p] = "push_write"
    /\ value' = [value EXCEPT ![Cell(pos[p])] = arg[p]]
    /\ pc' = [pc EXCEPT ![p] = "push_publish"]
    /\ UNCHANGED <<enqueue_pos, dequeue_pos, sequence, pos, arg, out, item>>

PushPublish(p) ==
    /\ pc[p] = "push_publish"
    /\ sequence' = [sequence EXCEPT ![Cell(pos[p])] = pos[p] + 1]
    /\ pc' = [pc EXCEPT ![p] = "idle"]
    /\ UNCHANGED <<enqueue_pos, dequeue_pos, value, pos, arg, out, item>>

-----------------------------------------------------------------------------
(* try_pop *)

CallPop(c) ==
    /\ pc[c] = "idle"
    /\ pos' = [pos EXCEPT ![c] = dequeue_pos]
    /\ pc' = [pc EXCEPT ![c] = "pop_check"]
    /\ UNCHANGED <<enqueue_pos, dequeue_pos, sequence, value, arg, out, item>>

(* Variant: an unpublished cell is popped like a published one. *)
PopCheckEager(c) ==
    /\ pc[c] = "pop_check"
    /\ IF Diff(c, pos[c] + 1) <= 0
       THEN pc' = [pc EXCEPT ![c] = "pop_cas"] /\ UNCHANGED pos
       ELSE pos' = [pos EXCEPT ![c] = dequeue_pos] /\ UNCHANGED pc
    /\ UNCHANGED <<enqueue_pos, dequeue_pos, sequence, value, arg, out, item>>

PopCheck(c) ==
    /\ pc[c] = "pop_check"
    /\ \/ /\ Diff(c, pos[c] + 1) = 0
          /\ pc' = [pc EXCEPT ![c] = "pop_cas"]
          /\ UNCHANGED pos
       \/ /\ Diff(c, pos[c] + 1) < 0          \* empty: return false
          /\ pc' = [pc EXCEPT ![c] = "idle"]
          /\ UNCHANGED pos
       \/ /\ Diff(c, pos[c] + 1) > 0
          /\ pos' = [pos EXCEPT ![c] = dequeue_pos]
          /\ UNCHANGED pc
    /\ UNCHANGED <<enqueue_pos, dequeue_pos, sequence, value, arg, out, item>>

PopCas(c) ==
    /\ pc[c] = "pop_cas"
    /\ dequeue_pos = pos[c]
    /\ dequeue_pos' = dequeue_pos + 1
    /\ pc' = [pc EXCEPT ![c] = "pop_move"]
    /\ UNCHANGED <<enqueue_pos, sequence, value, pos, arg, out, item>>

PopCasFail(c) ==
    /\ pc[c] = "pop_cas"
    /\ pos' = [pos EXCEPT ![c] = dequeue_pos]
    /\ pc' = [pc EXCEPT ![c] = "pop_check"]
    /\ UNCHANGED <<enqueue_pos, dequeue_pos, sequence, value, arg, out, item>>

(* out = std::move(cell->value): the cell is left moved-from. *)
PopMove(c) ==
    /\ pc[c] = "pop_move"
    /\ out' = [out EXCEPT ![c] = value[Cell(pos[c])]]
    /\ value' = [value EXCEPT ![Cell(pos[c])] = NoValue]
    /\ pc' = [pc EXCEPT ![c] = "pop_free"]
    /\ UNCHANGED <<enqueue_pos, dequeue_pos, sequence, pos, arg, item>>

PopFree(c) ==
    /\ pc[c] = "pop_free"
    /\ sequence' = [sequence EXCEPT ![Cell(pos[c])] = pos[c] + Capacity]
    /\ pc' = [pc EXCEPT ![c] = "idle"]
    /\ UNCHANGED <<enqueue_pos, dequeue_pos, value, pos, arg, out, item>>

TryPush(p) == CallPush(p) \/ PushCheck(p) \/ PushCas(p) \/ PushCasFail(p)
                \/ PushWrite(p) \/ PushPublish(p)
TryPop(c) == CallPop(c) \/ PopCheck(c) \/ PopCas(c) \/ PopCasFail(c)
                \/ PopMove(c) \/ PopFree(c)

Next == (\E p \in Producers : TryPush(p)) \/ (\E c \in Consumers : TryPop(c))

Spec == Init /\ [][Next]_vars

-----------------------------------------------------------------------------
(* Properties *)

(* A thread owns the cell of its ticket from its winning compare-and-swap  *)
(* to its store of the cell's sequence number.                             *)
OwnsCell(t) == pc[t] \in {"push_write", "push_publish", "pop_move", "pop_free"}

(* cells_[i].value is not atomic.  The sequence numbers must keep any two  *)
(* threads that read or write it away from the same cell, across laps of   *)
(* the ring and for every stale pos.                                       *)
NoDataRace ==
    \A s, t \in Threads :
        s # t /\ OwnsCell(s) /\ OwnsCell(t) => Cell(pos[s]) # Cell(pos[t])

(* The published and freed tickets, read off the sequence numbers. *)
Published == {n \in 0 .. enqueue_pos - 1 : sequence[Cell(n)] > n}
FreedTickets == {n \in 0 .. dequeue_pos - 1 : sequence[Cell(n)] >= n + Capacity}

Ticket(t) == IF OwnsCell(t) THEN pos[t] ELSE -1

Abstract == INSTANCE TicketQueue WITH
    enq <- enqueue_pos,
    deq <- dequeue_pos,
    ready <- Published,
    freed <- FreedTickets,
    holding <- [t \in Threads |-> Ticket(t)],
    out <- [c \in Consumers |->
              IF pc[c] = "pop_move" THEN value[Cell(pos[c])] ELSE out[c]]

(* The lock-free ring implements the bounded ticket FIFO: every item is    *)
(* delivered once, in the order the pushes won their tickets, and what a   *)
(* consumer moves out after its compare-and-swap is what was pushed.       *)
ImplementsTicketQueue == Abstract!Spec

(* A false return is truthful although pos may have been stale: try_push   *)
(* fails only when the cell of the next ticket is still occupied at that   *)
(* moment ("full: the cell still holds last lap's item"), and try_pop only *)
(* when the oldest ticket is unpublished ("empty: no producer has filled   *)
(* this cell yet").                                                        *)
FalseIsTruthful ==
    [][/\ \A p \in Producers :
             pc[p] = "push_check" /\ pc'[p] = "idle" => ~Abstract!HasRoom
       /\ \A c \in Consumers :
             pc[c] = "pop_check" /\ pc'[c] = "idle" => ~Abstract!HeadReady]_vars
=============================================================================
