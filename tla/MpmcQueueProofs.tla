-------------------------- MODULE MpmcQueueProofs --------------------------
(***************************************************************************)
(* The ring for any number of threads, any capacity from two up and any    *)
(* number of laps: no data race on a cell, false is returned only when it  *)
(* is true, and every behaviour is one of TicketQueue.                     *)
(*                                                                         *)
(* At any time the last Capacity push tickets, e - C .. e - 1, occupy one  *)
(* cell each (tickets below zero stand for the empty first lap).  The      *)
(* sequence number of a cell tells the state of its ticket n: n while the  *)
(* producer writes, n + 1 when published and while a consumer reads, and   *)
(* n + C when free.                                                        *)
(***************************************************************************)
EXTENDS MpmcQueue, TLAPS

-----------------------------------------------------------------------------
(* Arithmetic of cells *)

LEMMA Divide ==
    \A n \in Int, c \in Nat \ {0} :
        n \div c \in Int /\ n % c \in 0 .. c - 1 /\ n = c * (n \div c) + (n % c)
BY SMT

LEMMA Multiple ==
    \A c \in Nat \ {0}, k \in Int : (k > 0 => c * k >= c) /\ (k <= 0 => c * k <= 0)
BY SMT

(* Every ticket has a cell. *)
LEMMA CellType == \A n \in Int : Cell(n) \in Cells
BY MpmcAssumption, Divide DEF Cell, Cells

(* Different tickets of one cell are at least a lap apart. *)
LEMMA LapApart ==
    \A m, n \in Int : Cell(m) = Cell(n) /\ m < n => m + Capacity <= n
<1> SUFFICES ASSUME NEW m \in Int, NEW n \in Int, Cell(m) = Cell(n), m < n
             PROVE  m + Capacity <= n
  OBVIOUS
<1> DEFINE a == m \div Capacity
           b == n \div Capacity
<1>0. Capacity \in Nat \ {0}
  BY MpmcAssumption
<1>1. /\ a \in Int /\ m = Capacity * a + Cell(m)
      /\ b \in Int /\ n = Capacity * b + Cell(n)
      /\ Cell(m) \in Int
  BY <1>0, Divide DEF Cell
<1> HIDE DEF a, b
<1>2. n - m = Capacity * (b - a)
  BY <1>0, <1>1
<1>3. b - a \in Int
  BY <1>1
<1> QED BY <1>0, <1>2, <1>3, Multiple

(* A ticket and the one a lap later share their cell. *)
LEMMA NextLap == \A n \in Int : Cell(n + Capacity) = Cell(n)
<1> SUFFICES ASSUME NEW n \in Int PROVE Cell(n + Capacity) = Cell(n)
  OBVIOUS
<1> DEFINE C == Capacity
           a == n \div C
           b == (n + C) \div C
           r == Cell(n)
           s == Cell(n + C)
<1>0. C \in Nat \ {0} /\ n + C \in Int
  BY MpmcAssumption
<1>1. a \in Int /\ r \in 0 .. C - 1 /\ n = C * a + r
  BY <1>0, Divide DEF Cell
<1>2. b \in Int /\ s \in 0 .. C - 1 /\ n + C = C * b + s
  BY <1>0, Divide DEF Cell
<1> HIDE DEF C, a, b, r, s
<1>3. s - r = C * (1 + a - b) /\ r - s = C * (b - a - 1)
  BY <1>0, <1>1, <1>2
<1>4. 1 + a - b \in Int /\ b - a - 1 \in Int
  BY <1>1, <1>2
<1>5. 1 + a - b <= 0 /\ b - a - 1 <= 0
  BY <1>0, <1>1, <1>2, <1>3, <1>4, Multiple
<1>6. s = r
  BY <1>0, <1>1, <1>2, <1>3, <1>5
<1> QED BY <1>6 DEF C, r, s

(* In the first lap a ticket is the number of its cell. *)
LEMMA FirstLap == \A n \in Cells : Cell(n) = n
<1> SUFFICES ASSUME NEW n \in Cells PROVE Cell(n) = n
  OBVIOUS
<1>0. Capacity \in Nat \ {0} /\ n \in Int /\ 0 <= n /\ n < Capacity
  BY MpmcAssumption DEF Cells
<1> DEFINE q == n \div Capacity
<1>1. q \in Int /\ Cell(n) \in 0 .. Capacity - 1 /\ n = Capacity * q + Cell(n)
  BY <1>0, Divide DEF Cell
<1> HIDE DEF q
<1>2. q <= 0
  BY <1>0, <1>1, Multiple
<1>3. Capacity * (0 - q) = Cell(n) - n
  BY <1>0, <1>1
<1>4. 0 - q \in Int /\ 0 - q <= 0
  BY <1>0, <1>1, <1>3, Multiple
<1> QED BY <1>0, <1>1, <1>2, <1>4

-----------------------------------------------------------------------------
(* The inductive invariant *)

PushPc == {"idle", "push_check", "push_cas", "push_write", "push_publish"}
PopPc == {"idle", "pop_check", "pop_cas", "pop_move", "pop_free"}
Items == Values \cup {NoValue}

Shape ==
    /\ enqueue_pos \in Nat /\ dequeue_pos \in Nat
    /\ sequence \in [Cells -> Nat]
    /\ value \in [Cells -> Items]
    /\ pc \in [Threads -> PushPc \cup PopPc]
    /\ \A p \in Producers : pc[p] \in PushPc
    /\ \A c \in Consumers : pc[c] \in PopPc
    /\ pos \in [Threads -> Nat]
    /\ arg \in [Producers -> Items] /\ out \in [Consumers -> Items]
    /\ \A p \in Producers : pc[p] # "idle" => arg[p] \in Values
    /\ item \in Seq(Values) /\ Len(item) = enqueue_pos

(* The sequence number of a cell gives the state of its last ticket, and   *)
(* it has passed every older ticket.                                       *)
Ring ==
    /\ dequeue_pos <= enqueue_pos /\ enqueue_pos <= dequeue_pos + Capacity
    /\ \A n \in (enqueue_pos - Capacity) .. (enqueue_pos - 1) :
          /\ n >= dequeue_pos => sequence[Cell(n)] \in {n, n + 1}
          /\ n < dequeue_pos => sequence[Cell(n)] \in {n + 1, n + Capacity}
          /\ n < 0 => sequence[Cell(n)] = n + Capacity
    /\ \A n \in 0 .. (enqueue_pos - 1) :
          /\ sequence[Cell(n)] >= n
          /\ n < dequeue_pos => sequence[Cell(n)] > n

(* A thread between its winning compare-exchange and its store of the      *)
(* sequence number holds a ticket of its own, of the last lap, in the      *)
(* state that its side of the protocol says.                               *)
Owners ==
    /\ \A p \in Producers : OwnsCell(p) =>
          /\ dequeue_pos <= pos[p] /\ pos[p] < enqueue_pos
          /\ sequence[Cell(pos[p])] = pos[p]
    /\ \A c \in Consumers : OwnsCell(c) =>
          /\ enqueue_pos - Capacity <= pos[c] /\ pos[c] < dequeue_pos
          /\ sequence[Cell(pos[c])] = pos[c] + 1
    /\ \A s, t \in Threads : s # t /\ OwnsCell(s) /\ OwnsCell(t) => pos[s] # pos[t]

(* The position a thread has read may be stale.  If it is not, what the    *)
(* thread found in the cell is still there.                                *)
Attempts ==
    /\ \A p \in Producers :
          /\ pc[p] \in {"push_check", "push_cas"} => pos[p] <= enqueue_pos
          /\ pc[p] = "push_cas" /\ pos[p] = enqueue_pos =>
                sequence[Cell(enqueue_pos)] = enqueue_pos
    /\ \A c \in Consumers :
          /\ pc[c] \in {"pop_check", "pop_cas"} => pos[c] <= dequeue_pos
          /\ pc[c] = "pop_cas" /\ pos[c] = dequeue_pos =>
                sequence[Cell(dequeue_pos)] = dequeue_pos + 1

(* What is in the cells is what was pushed. *)
Contents ==
    /\ \A p \in Producers :
          /\ pc[p] = "push_write" => arg[p] = item[pos[p] + 1]
          /\ pc[p] = "push_publish" => value[Cell(pos[p])] = item[pos[p] + 1]
    /\ \A n \in dequeue_pos .. (enqueue_pos - 1) :
          sequence[Cell(n)] = n + 1 => value[Cell(n)] = item[n + 1]
    /\ \A c \in Consumers :
          pc[c] = "pop_move" => value[Cell(pos[c])] = item[pos[c] + 1]

IInv == Shape /\ Ring /\ Owners /\ Attempts /\ Contents

-----------------------------------------------------------------------------
(* A ticket of the last lap is alone in its cell. *)
LEMMA LastLap ==
    ASSUME Shape,
           NEW m \in (enqueue_pos - Capacity) .. (enqueue_pos - 1),
           NEW n \in (enqueue_pos - Capacity) .. (enqueue_pos - 1),
           Cell(m) = Cell(n)
    PROVE  m = n
BY LapApart, MpmcAssumption DEF Shape

(* Owners have tickets of the last lap. *)
LEMMA OwnersInLastLap ==
    ASSUME Shape, Ring, Owners, NEW t \in Threads, OwnsCell(t)
    PROVE  pos[t] \in (enqueue_pos - Capacity) .. (enqueue_pos - 1)
BY MpmcAssumption DEF Shape, Ring, Owners, Threads

(* Two owners have different tickets of one lap, hence different cells. *)
LEMMA InvariantImpliesNoRace == IInv => NoDataRace
<1> SUFFICES ASSUME IInv, NEW s \in Threads, NEW t \in Threads,
                    s # t, OwnsCell(s), OwnsCell(t)
             PROVE  Cell(pos[s]) # Cell(pos[t])
  BY DEF NoDataRace
<1>1. pos[s] # pos[t]
  BY DEF IInv, Owners
<1>2. /\ pos[s] \in (enqueue_pos - Capacity) .. (enqueue_pos - 1)
      /\ pos[t] \in (enqueue_pos - Capacity) .. (enqueue_pos - 1)
  BY OwnersInLastLap DEF IInv
<1> QED BY <1>1, <1>2, LastLap DEF IInv

LEMMA InitInvariant == Init => IInv
<1> SUFFICES ASSUME Init PROVE IInv
  OBVIOUS
<1> USE MpmcAssumption
<1>1. Shape
  BY DEF Init, Shape, Items, PushPc, PopPc, Threads, Cells
<1>2. ASSUME NEW n \in -Capacity .. -1 PROVE sequence[Cell(n)] = n + Capacity
  <2>1. n + Capacity \in Cells
    BY DEF Cells
  <2>2. Cell(n) = n + Capacity
    BY <2>1, NextLap, FirstLap
  <2> QED BY <2>1, <2>2 DEF Init
<1>3. enqueue_pos = 0 /\ dequeue_pos = 0
  BY DEF Init
<1>4. Ring
  BY <1>2, <1>3 DEF Ring
<1> QED BY <1>1, <1>4 DEF Init, IInv, Owners, OwnsCell, Attempts, Contents, Threads

-----------------------------------------------------------------------------
(* Steps that read: positions, sequence numbers, failed compare-exchange *)

(* They concern Attempts only: the thread owns no cell before or after. *)
LEMMA ReadKeeps ==
    ASSUME IInv, NEW t \in Threads,
           UNCHANGED <<enqueue_pos, dequeue_pos, sequence, value, item>>,
           \A u \in Threads : u # t => pc'[u] = pc[u] /\ pos'[u] = pos[u],
           \A p \in Producers : p # t => arg'[p] = arg[p],
           ~ OwnsCell(t)', Shape', Attempts'
    PROVE  IInv'
<1>1. Ring'
  BY DEF IInv, Ring
<1>2. \A u \in Threads : OwnsCell(u)' => OwnsCell(u) /\ u # t /\ pos'[u] = pos[u]
  BY DEF OwnsCell
<1>3. Owners'
  BY <1>2 DEF IInv, Owners, Threads
<1>4. pc'[t] \notin {"push_write", "push_publish", "pop_move"}
  BY DEF OwnsCell
<1>5. Contents'
  BY <1>4 DEF IInv, Contents, Threads
<1> QED BY <1>1, <1>3, <1>5 DEF IInv

LEMMA PushReads ==
    ASSUME NEW p \in Producers, IInv, CallPush(p) \/ PushCheck(p) \/ PushCasFail(p)
    PROVE  IInv'
<1> USE MpmcAssumption
<1>0. p \in Threads
  BY DEF Threads
<1>1. Shape'
  <2>1. CASE CallPush(p)
    <3>0. PICK v \in Values : arg' = [arg EXCEPT ![p] = v]
      BY <2>1 DEF CallPush
    <3>1. /\ arg' \in [Producers -> Items]
          /\ \A q \in Producers : pc'[q] # "idle" => arg'[q] \in Values
      BY <1>0, <2>1, <3>0 DEF IInv, Shape, CallPush, Items, Threads
    <3>2. pc' = [pc EXCEPT ![p] = "push_check"] /\ pos' = [pos EXCEPT ![p] = enqueue_pos]
      BY <2>1 DEF CallPush
    <3>3. /\ pc' \in [Threads -> PushPc \cup PopPc]
          /\ \A q \in Producers : pc'[q] \in PushPc
          /\ \A c \in Consumers : pc'[c] \in PopPc
      BY <1>0, <3>2 DEF IInv, Shape, PushPc, PopPc, Threads
    <3>4. pos' \in [Threads -> Nat]
      BY <1>0, <3>2 DEF IInv, Shape
    <3>5. UNCHANGED <<enqueue_pos, dequeue_pos, sequence, value, out, item>>
      BY <2>1 DEF CallPush
    <3> QED BY <3>1, <3>3, <3>4, <3>5 DEF IInv, Shape
  <2>2. CASE PushCheck(p)
    BY <1>0, <2>2 DEF IInv, Shape, PushCheck, PushPc, PopPc, Threads
  <2>3. CASE PushCasFail(p)
    BY <1>0, <2>3 DEF IInv, Shape, PushCasFail, PushPc, PopPc, Threads
  <2> QED BY <2>1, <2>2, <2>3
<1>2. /\ UNCHANGED <<enqueue_pos, dequeue_pos, sequence, value, item>>
      /\ \A u \in Threads : u # p => pc'[u] = pc[u] /\ pos'[u] = pos[u]
      /\ \A q \in Producers : q # p => arg'[q] = arg[q]
  BY <1>0 DEF IInv, Shape, CallPush, PushCheck, PushCasFail
<1>3. ~ OwnsCell(p)'
  BY <1>0 DEF IInv, Shape, OwnsCell, CallPush, PushCheck, PushCasFail
<1>4. /\ pc'[p] \in {"push_check", "push_cas"} => pos'[p] <= enqueue_pos
      /\ pc'[p] = "push_cas" /\ pos'[p] = enqueue_pos =>
            sequence[Cell(enqueue_pos)] = enqueue_pos
  <2>1. CASE CallPush(p)
    BY <1>0, <2>1 DEF IInv, Shape, CallPush
  <2>2. CASE PushCasFail(p)
    BY <1>0, <2>2 DEF IInv, Shape, PushCasFail
  <2>3. CASE PushCheck(p)
    <3>1. Cell(pos[p]) \in Cells /\ sequence[Cell(pos[p])] \in Nat
      BY <1>0, CellType DEF IInv, Shape
    <3> QED BY <1>0, <2>3, <3>1 DEF IInv, Shape, Attempts, PushCheck, Diff
  <2> QED BY <2>1, <2>2, <2>3
<1>5. Attempts'
  BY <1>0, <1>2, <1>4 DEF IInv, Attempts, Threads
<1> QED BY <1>0, <1>1, <1>2, <1>3, <1>5, ReadKeeps

LEMMA PopReads ==
    ASSUME NEW c \in Consumers, IInv, CallPop(c) \/ PopCheck(c) \/ PopCasFail(c)
    PROVE  IInv'
<1> USE MpmcAssumption
<1>0. c \in Threads
  BY DEF Threads
<1>1. Shape'
  <2>1. CASE CallPop(c)
    BY <1>0, <2>1 DEF IInv, Shape, CallPop, PushPc, PopPc, Items, Threads
  <2>2. CASE PopCheck(c)
    BY <1>0, <2>2 DEF IInv, Shape, PopCheck, PushPc, PopPc, Items, Threads
  <2>3. CASE PopCasFail(c)
    BY <1>0, <2>3 DEF IInv, Shape, PopCasFail, PushPc, PopPc, Items, Threads
  <2> QED BY <2>1, <2>2, <2>3
<1>2. /\ UNCHANGED <<enqueue_pos, dequeue_pos, sequence, value, item, arg>>
      /\ \A u \in Threads : u # c => pc'[u] = pc[u] /\ pos'[u] = pos[u]
  BY <1>0 DEF IInv, Shape, CallPop, PopCheck, PopCasFail
<1>3. ~ OwnsCell(c)'
  BY <1>0 DEF IInv, Shape, OwnsCell, CallPop, PopCheck, PopCasFail
<1>4. /\ pc'[c] \in {"pop_check", "pop_cas"} => pos'[c] <= dequeue_pos
      /\ pc'[c] = "pop_cas" /\ pos'[c] = dequeue_pos =>
            sequence[Cell(dequeue_pos)] = dequeue_pos + 1
  <2>1. CASE CallPop(c)
    BY <1>0, <2>1 DEF IInv, Shape, CallPop
  <2>2. CASE PopCasFail(c)
    BY <1>0, <2>2 DEF IInv, Shape, PopCasFail
  <2>3. CASE PopCheck(c)
    <3>1. Cell(pos[c]) \in Cells /\ sequence[Cell(pos[c])] \in Nat
      BY <1>0, CellType DEF IInv, Shape
    <3> QED BY <1>0, <2>3, <3>1 DEF IInv, Shape, Attempts, PopCheck, Diff
  <2> QED BY <2>1, <2>2, <2>3
<1>5. Attempts'
  BY <1>0, <1>2, <1>4 DEF IInv, Attempts, Threads
<1> QED BY <1>0, <1>1, <1>2, <1>3, <1>5, ReadKeeps

-----------------------------------------------------------------------------
(* A push *)

(* The cell of the next push ticket, found free, has no owner. *)
LEMMA PushCasKeeps == ASSUME NEW p \in Producers, IInv, PushCas(p) PROVE IInv'
<1> USE MpmcAssumption
<1> DEFINE e == enqueue_pos
           d == dequeue_pos
<1>0. p \in Threads /\ e \in Nat /\ d \in Nat /\ pos[p] = e /\ e' = e + 1
  BY DEF Threads, IInv, Shape, PushCas
<1>1. sequence[Cell(e)] = e
  BY <1>0 DEF IInv, Attempts, PushCas
<1>2. Cell(e - Capacity) = Cell(e) /\ e - Capacity \in e - Capacity .. e - 1
  BY <1>0, NextLap
<1>3. e - Capacity < d
  BY <1>0, <1>1, <1>2 DEF IInv, Ring
<1>4. Shape'
  BY <1>0 DEF IInv, Shape, PushCas, PushPc, PopPc, Threads
<1>5. Ring'
  <2>1. UNCHANGED <<dequeue_pos, sequence>> /\ d <= e /\ e + 1 <= d + Capacity
    BY <1>0, <1>3 DEF IInv, Ring, PushCas
  <2>2. ASSUME NEW n \in (e + 1 - Capacity) .. e
        PROVE  /\ n >= d => sequence[Cell(n)] \in {n, n + 1}
               /\ n < d => sequence[Cell(n)] \in {n + 1, n + Capacity}
               /\ n < 0 => sequence[Cell(n)] = n + Capacity
    <3>1. n = e \/ n \in (e - Capacity) .. (e - 1)
      BY <1>0
    <3> QED BY <1>0, <1>1, <2>1, <3>1 DEF IInv, Ring
  <2>3. ASSUME NEW n \in 0 .. e
        PROVE  sequence[Cell(n)] >= n /\ (n < d => sequence[Cell(n)] > n)
    <3>1. n = e \/ n \in 0 .. (e - 1)
      BY <1>0
    <3> QED BY <1>0, <1>1, <2>1, <3>1 DEF IInv, Ring
  <2>4. e' - 1 = e /\ e' - Capacity = e + 1 - Capacity
    BY <1>0
  <2> QED BY <1>0, <2>1, <2>2, <2>3, <2>4 DEF Ring
<1>6. /\ \A t \in Threads : OwnsCell(t)' => OwnsCell(t) \/ t = p
      /\ pos' = pos
      /\ \A t \in Threads : OwnsCell(t) => pos[t] # e
  <2>1. ASSUME NEW t \in Threads, OwnsCell(t) PROVE pos[t] # e
    BY <1>0, <2>1, OwnersInLastLap DEF IInv
  <2> QED BY <1>0, <2>1 DEF IInv, Shape, OwnsCell, PushCas
<1>7. ASSUME NEW c \in Consumers, OwnsCell(c) PROVE e - Capacity # pos[c]
  BY <1>0, <1>1, <1>2, <1>7 DEF IInv, Owners
<1>8. Owners'
  <2>1. ASSUME NEW q \in Producers, OwnsCell(q)'
        PROVE  d <= pos[q] /\ pos[q] < e + 1 /\ sequence[Cell(pos[q])] = pos[q]
    BY <1>0, <1>1, <1>6, <2>1 DEF IInv, Ring, Owners, Shape, Threads
  <2>2. ASSUME NEW c \in Consumers, OwnsCell(c)'
        PROVE  e + 1 - Capacity <= pos[c] /\ pos[c] < d /\ sequence[Cell(pos[c])] = pos[c] + 1
    <3>1. OwnsCell(c) /\ c \in Threads /\ pos[c] \in Nat
      BY <1>6, <2>2 DEF IInv, Shape, Threads
    <3> QED BY <1>0, <1>7, <3>1 DEF IInv, Owners
  <2>3. ASSUME NEW s \in Threads, NEW t \in Threads, s # t, OwnsCell(s)', OwnsCell(t)'
        PROVE  pos[s] # pos[t]
    BY <1>0, <1>6, <2>3 DEF IInv, Owners
  <2>4. UNCHANGED <<pos, sequence, dequeue_pos>>
    BY DEF PushCas
  <2> HIDE DEF e, d
  <2> QED BY <1>0, <2>1, <2>2, <2>3, <2>4 DEF Owners, e, d
<1>9. Attempts'
  BY <1>0 DEF IInv, Shape, Attempts, PushCas, Threads
<1>10. Contents'
  <2>1. /\ item' = Append(item, arg[p]) /\ item \in Seq(Values) /\ Len(item) = e
        /\ item'[e + 1] = arg[p]
        /\ \A n \in 0 .. e - 1 : item'[n + 1] = item[n + 1]
    BY <1>0 DEF IInv, Shape, PushCas
  <2>2. ASSUME NEW q \in Producers
        PROVE  /\ pc'[q] = "push_write" => arg[q] = item'[pos[q] + 1]
               /\ pc'[q] = "push_publish" => value[Cell(pos[q])] = item'[pos[q] + 1]
    <3>1. CASE q = p
      BY <1>0, <2>1, <3>1 DEF IInv, Shape, PushCas
    <3>2. CASE q # p
      <4>1. q \in Threads /\ pc'[q] = pc[q] /\ pos[q] \in Nat
        BY <1>0, <3>2 DEF IInv, Shape, PushCas, Threads
      <4>2. OwnsCell(q) => pos[q] \in 0 .. e - 1
        BY <1>0, <4>1 DEF IInv, Owners
      <4> QED BY <2>1, <4>1, <4>2 DEF IInv, Contents, OwnsCell
    <3> QED BY <3>1, <3>2
  <2>3. ASSUME NEW n \in d .. e, sequence[Cell(n)] = n + 1
        PROVE  value[Cell(n)] = item'[n + 1]
    <3>1. n \in d .. e - 1 /\ n \in 0 .. e - 1
      BY <1>0, <1>1, <2>3
    <3> QED BY <2>1, <2>3, <3>1 DEF IInv, Contents
  <2>4. ASSUME NEW c \in Consumers, pc'[c] = "pop_move"
        PROVE  value[Cell(pos[c])] = item'[pos[c] + 1]
    <3>1. c \in Threads /\ pc[c] = "pop_move" /\ OwnsCell(c) /\ pos[c] \in Nat
      BY <1>0, <2>4 DEF IInv, Shape, PushCas, Threads, OwnsCell
    <3>2. pos[c] \in 0 .. e - 1
      BY <1>0, <3>1 DEF IInv, Owners, Ring
    <3> QED BY <2>1, <3>1, <3>2 DEF IInv, Contents
  <2>5. UNCHANGED <<dequeue_pos, sequence, value, pos, arg>> /\ e' - 1 = e
    BY <1>0 DEF PushCas
  <2> QED BY <2>2, <2>3, <2>4, <2>5 DEF Contents
<1> QED BY <1>4, <1>5, <1>8, <1>9, <1>10 DEF IInv

LEMMA PushWriteKeeps == ASSUME NEW p \in Producers, IInv, PushWrite(p) PROVE IInv'
<1> USE MpmcAssumption
<1>0. p \in Threads /\ OwnsCell(p) /\ Cell(pos[p]) \in Cells
  BY CellType DEF Threads, IInv, Shape, PushWrite, OwnsCell
<1>1. Shape'
  BY <1>0 DEF IInv, Shape, PushWrite, PushPc, PopPc, Threads, Items
<1>2. Ring'
  BY DEF IInv, Ring, PushWrite
<1>3. \A t \in Threads : OwnsCell(t)' <=> OwnsCell(t)
  BY <1>0 DEF IInv, Shape, OwnsCell, PushWrite
<1>4. Owners'
  BY <1>3 DEF IInv, Owners, PushWrite, Threads
<1>5. Attempts'
  BY <1>0 DEF IInv, Shape, Attempts, PushWrite, Threads
<1>6. \A t \in Threads : OwnsCell(t) /\ t # p => Cell(pos[t]) # Cell(pos[p])
  BY <1>0, InvariantImpliesNoRace DEF NoDataRace
<1>7. ASSUME NEW n \in dequeue_pos .. (enqueue_pos - 1), sequence[Cell(n)] = n + 1
      PROVE  value'[Cell(n)] = item[n + 1]
  <2>1. Cell(n) # Cell(pos[p])
    <3>1. pos[p] \in (enqueue_pos - Capacity) .. (enqueue_pos - 1)
      BY <1>0, OwnersInLastLap DEF IInv
    <3>2. n \in (enqueue_pos - Capacity) .. (enqueue_pos - 1)
      BY DEF IInv, Shape, Ring
    <3>3. n # pos[p]
      BY <1>0, <1>7, <3>2 DEF IInv, Shape, Owners
    <3> QED BY <3>1, <3>2, <3>3, LastLap DEF IInv
  <2>2. n \in Int
    BY DEF IInv, Shape
  <2> QED BY <1>0, <1>7, <2>1, <2>2, CellType DEF IInv, Shape, Contents, PushWrite
<1>8. Contents'
  <2>1. ASSUME NEW q \in Producers
        PROVE  /\ pc'[q] = "push_write" => arg[q] = item[pos[q] + 1]
               /\ pc'[q] = "push_publish" => value'[Cell(pos[q])] = item[pos[q] + 1]
    <3>1. CASE q = p
      BY <1>0, <3>1 DEF IInv, Shape, Contents, PushWrite
    <3>2. CASE q # p
      <4>1. q \in Threads /\ pc'[q] = pc[q] /\ Cell(pos[q]) \in Cells
        BY <1>0, <3>2, CellType DEF IInv, Shape, PushWrite, Threads
      <4>2. pc[q] = "push_publish" => value'[Cell(pos[q])] = value[Cell(pos[q])]
        BY <1>0, <1>6, <3>2, <4>1 DEF IInv, Shape, PushWrite, OwnsCell
      <4> QED BY <4>1, <4>2 DEF IInv, Contents
    <3> QED BY <3>1, <3>2
  <2>2. ASSUME NEW c \in Consumers, pc'[c] = "pop_move"
        PROVE  value'[Cell(pos[c])] = item[pos[c] + 1]
    <3>1. c \in Threads /\ c # p /\ pc[c] = "pop_move" /\ Cell(pos[c]) \in Cells
      BY <1>0, <2>2, CellType DEF IInv, Shape, PushWrite, Threads
    <3>2. value'[Cell(pos[c])] = value[Cell(pos[c])]
      BY <1>0, <1>6, <3>1 DEF IInv, Shape, PushWrite, OwnsCell
    <3> QED BY <3>1, <3>2 DEF IInv, Contents
  <2>3. UNCHANGED <<enqueue_pos, dequeue_pos, sequence, pos, arg, item>>
    BY DEF PushWrite
  <2> QED BY <1>7, <2>1, <2>2, <2>3 DEF Contents
<1> QED BY <1>1, <1>2, <1>4, <1>5, <1>8 DEF IInv

(* Only the owner of the ticket changes its sequence number, from n to     *)
(* n + 1 here.  A younger ticket of the cell does not exist yet.           *)
LEMMA PushPublishKeeps == ASSUME NEW p \in Producers, IInv, PushPublish(p) PROVE IInv'
<1> USE MpmcAssumption
<1> DEFINE e == enqueue_pos
           d == dequeue_pos
           m == pos[p]
<1>0. /\ p \in Threads /\ OwnsCell(p) /\ Cell(m) \in Cells
      /\ e \in Nat /\ d \in Nat /\ m \in Nat /\ d <= e
      /\ UNCHANGED <<enqueue_pos, dequeue_pos, value, pos, arg, item>>
  BY CellType DEF Threads, IInv, Shape, Ring, PushPublish, OwnsCell
<1>1. d <= m /\ m < e /\ sequence[Cell(m)] = m /\ m \in (e - Capacity) .. (e - 1)
  BY <1>0, OwnersInLastLap DEF IInv, Owners
<1>2. \A n \in Int : /\ Cell(n) = Cell(m) => sequence'[Cell(n)] = m + 1
                     /\ Cell(n) # Cell(m) => sequence'[Cell(n)] = sequence[Cell(n)]
  BY <1>0, CellType DEF IInv, Shape, PushPublish
<1>3. \A n \in (e - Capacity) .. (e - 1) : n # m => Cell(n) # Cell(m)
  BY <1>1, LastLap DEF IInv
<1>4. Shape'
  BY <1>0 DEF IInv, Shape, PushPublish, PushPc, PopPc, Threads
<1>5. Ring'
  <2>1. ASSUME NEW n \in (e - Capacity) .. (e - 1)
        PROVE  /\ n >= d => sequence'[Cell(n)] \in {n, n + 1}
               /\ n < d => sequence'[Cell(n)] \in {n + 1, n + Capacity}
               /\ n < 0 => sequence'[Cell(n)] = n + Capacity
    <3>1. n \in Int
      BY <1>0
    <3> QED BY <1>0, <1>1, <1>2, <1>3, <3>1 DEF IInv, Ring
  <2>2. ASSUME NEW n \in 0 .. (e - 1)
        PROVE  sequence'[Cell(n)] >= n /\ (n < d => sequence'[Cell(n)] > n)
    <3>1. n \in Int /\ sequence[Cell(n)] >= n /\ (n < d => sequence[Cell(n)] > n)
      BY <1>0 DEF IInv, Ring
    <3>2. Cell(n) = Cell(m) => sequence[Cell(n)] = m
      BY <1>1
    <3> QED BY <1>0, <1>2, <3>1, <3>2
  <2> QED BY <1>0, <2>1, <2>2 DEF IInv, Ring
<1>6. \A t \in Threads : OwnsCell(t)' => OwnsCell(t) /\ t # p /\ Cell(pos[t]) # Cell(m)
  BY <1>0, InvariantImpliesNoRace DEF NoDataRace, OwnsCell, IInv, Shape, PushPublish
<1>7. Owners'
  <2>1. \A t \in Threads : OwnsCell(t)' => /\ OwnsCell(t)
                                         /\ sequence'[Cell(pos[t])] = sequence[Cell(pos[t])]
    BY <1>2, <1>6 DEF IInv, Shape
  <2> QED BY <1>0, <2>1 DEF IInv, Owners, Threads
<1>8. Attempts'
  <2>1. sequence[Cell(e)] = e => sequence'[Cell(e)] = e
    BY <1>0, <1>1, <1>2
  <2>2. sequence[Cell(d)] = d + 1 => sequence'[Cell(d)] = d + 1
    BY <1>0, <1>1, <1>2, LapApart
  <2>3. /\ \A q \in Producers : pc'[q] \in {"push_check", "push_cas"} => pc'[q] = pc[q]
        /\ \A c \in Consumers : pc'[c] \in {"pop_check", "pop_cas"} => pc'[c] = pc[c]
    BY <1>0 DEF IInv, Shape, PushPublish, Threads
  <2> QED BY <1>0, <2>1, <2>2, <2>3 DEF IInv, Attempts
<1>9. Contents'
  <2>1. ASSUME NEW n \in d .. (e - 1), sequence'[Cell(n)] = n + 1
        PROVE  value[Cell(n)] = item[n + 1]
    <3>1. CASE n = m
      BY <1>0, <3>1 DEF IInv, Contents, PushPublish
    <3>2. CASE n # m
      <4>1. n \in (e - Capacity) .. (e - 1) /\ n \in Int
        BY <1>0 DEF IInv, Ring
      <4> QED BY <1>2, <1>3, <2>1, <3>2, <4>1 DEF IInv, Contents
    <3> QED BY <3>1, <3>2
  <2>2. /\ \A q \in Producers : pc'[q] \in {"push_write", "push_publish"} => pc'[q] = pc[q]
        /\ \A c \in Consumers : pc'[c] = "pop_move" => pc'[c] = pc[c]
    BY <1>0 DEF IInv, Shape, PushPublish, Threads
  <2> QED BY <1>0, <2>1, <2>2 DEF IInv, Contents
<1> QED BY <1>4, <1>5, <1>7, <1>8, <1>9 DEF IInv

-----------------------------------------------------------------------------
(* A pop *)

(* The oldest ticket, found published, has no owner. *)
LEMMA PopCasKeeps == ASSUME NEW c \in Consumers, IInv, PopCas(c) PROVE IInv'
<1> USE MpmcAssumption
<1> DEFINE e == enqueue_pos
           d == dequeue_pos
<1>0. /\ c \in Threads /\ e \in Nat /\ d \in Nat /\ pos[c] = d /\ d' = d + 1
      /\ UNCHANGED <<enqueue_pos, sequence, value, pos, arg, item>>
  BY DEF Threads, IInv, Shape, PopCas
<1>1. sequence[Cell(d)] = d + 1
  BY <1>0 DEF IInv, Attempts, PopCas
<1>2. Cell(e - Capacity) = Cell(e) /\ e - Capacity \in (e - Capacity) .. (e - 1)
  BY <1>0, NextLap
<1>3. d < e
  <2>1. d <= e
    BY DEF IInv, Ring
  <2>2. ASSUME d = e PROVE FALSE
    <3>1. sequence[Cell(e - Capacity)] \in {e - Capacity + 1, e - Capacity + Capacity}
      BY <1>0, <1>2, <2>2 DEF IInv, Ring
    <3> QED BY <1>0, <1>1, <1>2, <2>2, <3>1
  <2> QED BY <1>0, <2>1, <2>2
<1>4. Shape'
  BY <1>0 DEF IInv, Shape, PopCas, PushPc, PopPc, Threads
<1>5. Ring'
  <2>1. ASSUME NEW n \in (e - Capacity) .. (e - 1)
        PROVE  /\ n >= d + 1 => sequence[Cell(n)] \in {n, n + 1}
               /\ n < d + 1 => sequence[Cell(n)] \in {n + 1, n + Capacity}
               /\ n < 0 => sequence[Cell(n)] = n + Capacity
    <3>1. n = d \/ n < d \/ n >= d + 1
      BY <1>0
    <3> QED BY <1>0, <1>1, <3>1 DEF IInv, Ring
  <2>2. ASSUME NEW n \in 0 .. (e - 1)
        PROVE  sequence[Cell(n)] >= n /\ (n < d + 1 => sequence[Cell(n)] > n)
    <3>1. n = d \/ n < d \/ n >= d + 1
      BY <1>0
    <3> QED BY <1>0, <1>1, <3>1 DEF IInv, Ring
  <2> QED BY <1>0, <1>3, <2>1, <2>2 DEF IInv, Ring
<1>6. \A t \in Threads : /\ OwnsCell(t)' => OwnsCell(t) \/ t = c
                         /\ OwnsCell(t) => pos[t] # d
  BY <1>0, <1>1 DEF IInv, Shape, Owners, OwnsCell, PopCas, Threads
<1>7. Owners'
  <2>1. ASSUME NEW q \in Producers, OwnsCell(q)'
        PROVE  d + 1 <= pos[q] /\ pos[q] < e /\ sequence[Cell(pos[q])] = pos[q]
    <3>1. OwnsCell(q) /\ pos[q] # d /\ pos[q] \in Nat
      BY <1>0, <1>6, <2>1 DEF Threads, IInv, Shape
    <3> QED BY <1>0, <3>1 DEF IInv, Owners
  <2>2. ASSUME NEW b \in Consumers, OwnsCell(b)'
        PROVE  e - Capacity <= pos[b] /\ pos[b] < d + 1 /\ sequence[Cell(pos[b])] = pos[b] + 1
    <3>1. (OwnsCell(b) \/ b = c) /\ pos[b] \in Nat
      BY <1>0, <1>6, <2>2 DEF Threads, IInv, Shape
    <3> QED BY <1>0, <1>1, <3>1 DEF IInv, Owners, Ring
  <2>3. ASSUME NEW s \in Threads, NEW t \in Threads, s # t, OwnsCell(s)', OwnsCell(t)'
        PROVE  pos[s] # pos[t]
    BY <1>0, <1>6, <2>3 DEF IInv, Owners
  <2> QED BY <1>0, <2>1, <2>2, <2>3 DEF Owners
<1>8. Attempts'
  BY <1>0 DEF IInv, Shape, Attempts, PopCas, Threads
<1>9. Contents'
  <2>1. ASSUME NEW b \in Consumers, pc'[b] = "pop_move"
        PROVE  value[Cell(pos[b])] = item[pos[b] + 1]
    <3>1. CASE b = c
      BY <1>0, <1>1, <1>3, <3>1 DEF IInv, Contents
    <3>2. CASE b # c
      BY <1>0, <2>1, <3>2 DEF IInv, Shape, PopCas, Contents, Threads
    <3> QED BY <3>1, <3>2
  <2>2. \A q \in Producers : pc'[q] \in {"push_write", "push_publish"} => pc'[q] = pc[q]
    BY <1>0 DEF IInv, Shape, PopCas, Threads
  <2>3. \A n \in d + 1 .. (e - 1) : n \in d .. (e - 1)
    BY <1>0
  <2> QED BY <1>0, <2>1, <2>2, <2>3 DEF IInv, Contents
<1> QED BY <1>4, <1>5, <1>7, <1>8, <1>9 DEF IInv

LEMMA PopMoveKeeps == ASSUME NEW c \in Consumers, IInv, PopMove(c) PROVE IInv'
<1> USE MpmcAssumption
<1> DEFINE m == pos[c]
<1>0. /\ c \in Threads /\ OwnsCell(c) /\ Cell(m) \in Cells /\ m \in Nat
      /\ UNCHANGED <<enqueue_pos, dequeue_pos, sequence, pos, arg, item>>
  BY CellType DEF Threads, IInv, Shape, PopMove, OwnsCell
<1>1. Shape'
  BY <1>0 DEF IInv, Shape, PopMove, PushPc, PopPc, Threads, Items
<1>2. Ring'
  BY <1>0 DEF IInv, Ring
<1>3. \A t \in Threads : OwnsCell(t)' <=> OwnsCell(t)
  BY <1>0 DEF IInv, Shape, OwnsCell, PopMove
<1>4. Owners'
  BY <1>0, <1>3 DEF IInv, Owners, Threads
<1>5. Attempts'
  BY <1>0 DEF IInv, Shape, Attempts, PopMove, Threads
<1>6. \A i \in Cells : i # Cell(m) => value'[i] = value[i]
  BY <1>0 DEF IInv, Shape, PopMove
<1>7. \A t \in Threads : /\ OwnsCell(t) /\ t # c => Cell(pos[t]) # Cell(m)
                         /\ Cell(pos[t]) \in Cells
  <2>1. \A t \in Threads : pos[t] \in Int
    BY DEF IInv, Shape
  <2> QED BY <1>0, <2>1, InvariantImpliesNoRace, CellType DEF NoDataRace
<1>8. ASSUME NEW n \in dequeue_pos .. (enqueue_pos - 1), sequence[Cell(n)] = n + 1
      PROVE  value'[Cell(n)] = item[n + 1]
  <2>1. m \in (enqueue_pos - Capacity) .. (enqueue_pos - 1) /\ m < dequeue_pos
    BY <1>0, OwnersInLastLap DEF IInv, Owners
  <2>2. n \in (enqueue_pos - Capacity) .. (enqueue_pos - 1) /\ n \in Int /\ n # m
    BY <2>1 DEF IInv, Shape, Ring
  <2>3. Cell(n) # Cell(m) /\ Cell(n) \in Cells
    BY <2>1, <2>2, LastLap, CellType DEF IInv
  <2> QED BY <1>6, <1>8, <2>3 DEF IInv, Contents
<1>9. Contents'
  <2>1. \A q \in Producers : /\ pc'[q] = pc[q]
                             /\ OwnsCell(q) => value'[Cell(pos[q])] = value[Cell(pos[q])]
    <3> TAKE q \in Producers
    <3>1. q \in Threads /\ q # c
      BY DEF Threads
    <3> QED BY <1>0, <1>6, <1>7, <3>1 DEF IInv, Shape, PopMove
  <2>2. \A b \in Consumers : pc'[b] = "pop_move" =>
          pc[b] = "pop_move" /\ value'[Cell(pos[b])] = value[Cell(pos[b])]
    BY <1>0, <1>6, <1>7 DEF IInv, Shape, PopMove, Threads, OwnsCell
  <2> QED BY <1>0, <1>8, <2>1, <2>2 DEF IInv, Contents, OwnsCell
<1> QED BY <1>1, <1>2, <1>4, <1>5, <1>9 DEF IInv

(* The cell becomes free for the ticket of the next lap. *)
LEMMA PopFreeKeeps == ASSUME NEW c \in Consumers, IInv, PopFree(c) PROVE IInv'
<1> USE MpmcAssumption
<1> DEFINE e == enqueue_pos
           d == dequeue_pos
           m == pos[c]
<1>0. /\ c \in Threads /\ OwnsCell(c) /\ Cell(m) \in Cells
      /\ e \in Nat /\ d \in Nat /\ m \in Nat /\ d <= e
      /\ UNCHANGED <<enqueue_pos, dequeue_pos, value, pos, arg, item>>
  BY CellType DEF Threads, IInv, Shape, Ring, PopFree, OwnsCell
<1>1. m < d /\ sequence[Cell(m)] = m + 1 /\ m \in (e - Capacity) .. (e - 1)
  BY <1>0, OwnersInLastLap DEF IInv, Owners
<1>2. \A n \in Int : /\ Cell(n) = Cell(m) => sequence'[Cell(n)] = m + Capacity
                     /\ Cell(n) # Cell(m) => sequence'[Cell(n)] = sequence[Cell(n)]
  BY <1>0, CellType DEF IInv, Shape, PopFree
<1>3. \A n \in (e - Capacity) .. (e - 1) : n # m => Cell(n) # Cell(m)
  BY <1>1, LastLap DEF IInv
<1>4. Shape'
  BY <1>0 DEF IInv, Shape, PopFree, PushPc, PopPc, Threads
<1>5. Ring'
  <2>1. ASSUME NEW n \in (e - Capacity) .. (e - 1)
        PROVE  /\ n >= d => sequence'[Cell(n)] \in {n, n + 1}
               /\ n < d => sequence'[Cell(n)] \in {n + 1, n + Capacity}
               /\ n < 0 => sequence'[Cell(n)] = n + Capacity
    <3>1. n \in Int
      BY <1>0
    <3> QED BY <1>0, <1>1, <1>2, <1>3, <3>1 DEF IInv, Ring
  <2>2. ASSUME NEW n \in 0 .. (e - 1)
        PROVE  sequence'[Cell(n)] >= n /\ (n < d => sequence'[Cell(n)] > n)
    <3>1. n \in Int /\ sequence[Cell(n)] >= n /\ (n < d => sequence[Cell(n)] > n)
      BY <1>0 DEF IInv, Ring
    <3>2. Cell(n) = Cell(m) => sequence[Cell(n)] = m + 1
      BY <1>1
    <3> QED BY <1>0, <1>2, <3>1, <3>2
  <2> QED BY <1>0, <2>1, <2>2 DEF IInv, Ring
<1>6. \A t \in Threads : OwnsCell(t)' => OwnsCell(t) /\ t # c /\ Cell(pos[t]) # Cell(m)
  BY <1>0, InvariantImpliesNoRace DEF NoDataRace, OwnsCell, IInv, Shape, PopFree
<1>7. Owners'
  <2>1. \A t \in Threads : OwnsCell(t)' => /\ OwnsCell(t)
                                         /\ sequence'[Cell(pos[t])] = sequence[Cell(pos[t])]
    BY <1>2, <1>6 DEF IInv, Shape
  <2> QED BY <1>0, <2>1 DEF IInv, Owners, Threads
<1>8. Attempts'
  <2>1. sequence[Cell(e)] = e => sequence'[Cell(e)] = e
    BY <1>0, <1>1, <1>2, LapApart
  <2>2. sequence[Cell(d)] = d + 1 => sequence'[Cell(d)] = d + 1
    BY <1>0, <1>1, <1>2
  <2>3. /\ \A q \in Producers : pc'[q] \in {"push_check", "push_cas"} => pc'[q] = pc[q]
        /\ \A b \in Consumers : pc'[b] \in {"pop_check", "pop_cas"} => pc'[b] = pc[b]
    BY <1>0 DEF IInv, Shape, PopFree, Threads
  <2> QED BY <1>0, <2>1, <2>2, <2>3 DEF IInv, Attempts
<1>9. Contents'
  <2>1. ASSUME NEW n \in d .. (e - 1), sequence'[Cell(n)] = n + 1
        PROVE  value[Cell(n)] = item[n + 1]
    <3>1. n \in (e - Capacity) .. (e - 1) /\ n \in Int /\ n # m
      BY <1>0, <1>1 DEF IInv, Ring
    <3> QED BY <1>2, <1>3, <2>1, <3>1 DEF IInv, Contents
  <2>2. /\ \A q \in Producers : pc'[q] \in {"push_write", "push_publish"} => pc'[q] = pc[q]
        /\ \A b \in Consumers : pc'[b] = "pop_move" => pc'[b] = pc[b]
    BY <1>0 DEF IInv, Shape, PopFree, Threads
  <2> QED BY <1>0, <2>1, <2>2 DEF IInv, Contents
<1> QED BY <1>4, <1>5, <1>7, <1>8, <1>9 DEF IInv

-----------------------------------------------------------------------------
LEMMA InvariantPreserved == IInv /\ [Next]_vars => IInv'
<1> SUFFICES ASSUME IInv, [Next]_vars PROVE IInv'
  OBVIOUS
<1>1. CASE \E p \in Producers : CallPush(p) \/ PushCheck(p) \/ PushCasFail(p)
  BY <1>1, PushReads
<1>2. CASE \E c \in Consumers : CallPop(c) \/ PopCheck(c) \/ PopCasFail(c)
  BY <1>2, PopReads
<1>3. CASE \E p \in Producers : PushCas(p) \/ PushWrite(p) \/ PushPublish(p)
  BY <1>3, PushCasKeeps, PushWriteKeeps, PushPublishKeeps
<1>4. CASE \E c \in Consumers : PopCas(c) \/ PopMove(c) \/ PopFree(c)
  BY <1>4, PopCasKeeps, PopMoveKeeps, PopFreeKeeps
<1>5. CASE UNCHANGED vars
  BY <1>5 DEF vars, IInv, Shape, Ring, Owners, OwnsCell, Attempts, Contents
<1> QED BY <1>1, <1>2, <1>3, <1>4, <1>5 DEF Next, TryPush, TryPop

LEMMA Invariance == Spec => []IInv
BY InitInvariant, InvariantPreserved, PTL DEF Spec

(* cells_[i].value, which is not atomic, is never accessed by two threads  *)
(* at once: for any number of producers and consumers, any capacity of at  *)
(* least two, and however stale the positions they have read.              *)
THEOREM RaceFree == Spec => []NoDataRace
BY Invariance, InvariantImpliesNoRace, PTL

-----------------------------------------------------------------------------
(* A return of false *)

(* A full ring, read off the sequence number of the next ticket's cell *)
LEMMA RoomIsFreeCell ==
    ASSUME IInv
    PROVE  Abstract!HasRoom => sequence[Cell(enqueue_pos)] >= enqueue_pos
<1> SUFFICES ASSUME Abstract!HasRoom PROVE sequence[Cell(enqueue_pos)] >= enqueue_pos
  OBVIOUS
<1> DEFINE n == enqueue_pos - Capacity
<1>0. /\ enqueue_pos \in Nat /\ Capacity \in Nat \ {0} /\ n \in Int
      /\ n \in (enqueue_pos - Capacity) .. (enqueue_pos - 1)
  BY MpmcAssumption DEF IInv, Shape
<1>1. Cell(n) = Cell(enqueue_pos)
  BY <1>0, NextLap
<1>2. CASE enqueue_pos < Capacity
  BY <1>0, <1>1, <1>2 DEF IInv, Ring
<1>3. CASE n \in FreedTickets
  BY <1>0, <1>1, <1>3 DEF FreedTickets
<1> QED BY <1>2, <1>3 DEF Abstract!HasRoom

(* The control point of a thread changes in its own steps. *)
LEMMA StepsOf ==
    ASSUME IInv, [Next]_vars, NEW t \in Threads, pc'[t] # pc[t]
    PROVE  /\ t \in Producers => TryPush(t)
           /\ t \in Consumers => TryPop(t)
<1>1. ASSUME NEW q \in Producers, TryPush(q) PROVE q = t
  <2>1. \/ UNCHANGED pc
        \/ \E v \in PushPc : pc' = [pc EXCEPT ![q] = v]
    BY <1>1 DEF TryPush, CallPush, PushCheck, PushCas, PushCasFail, PushWrite,
               PushPublish, PushPc
  <2> QED BY <2>1 DEF IInv, Shape
<1>2. ASSUME NEW q \in Consumers, TryPop(q) PROVE q = t
  <2>1. \/ UNCHANGED pc
        \/ \E v \in PopPc : pc' = [pc EXCEPT ![q] = v]
    BY <1>2 DEF TryPop, CallPop, PopCheck, PopCas, PopCasFail, PopMove, PopFree, PopPc
  <2> QED BY <2>1 DEF IInv, Shape
<1>3. ~ UNCHANGED vars
  BY DEF vars
<1> QED BY <1>1, <1>2, <1>3, MpmcAssumption DEF Next

(* A position that is stale is behind its cell, so a cell that is behind   *)
(* the position shows a position that is current.                          *)
LEMMA FalseStep ==
    ASSUME IInv, [Next]_vars
    PROVE  /\ \A p \in Producers :
                 pc[p] = "push_check" /\ pc'[p] = "idle" => ~Abstract!HasRoom
           /\ \A c \in Consumers :
                 pc[c] = "pop_check" /\ pc'[c] = "idle" => ~Abstract!HeadReady
<1>0. \A t \in Threads : pos[t] \in Nat /\ Cell(pos[t]) \in Cells
                         /\ sequence[Cell(pos[t])] \in Nat
  BY CellType DEF IInv, Shape
<1>1. ASSUME NEW p \in Producers, pc[p] = "push_check", pc'[p] = "idle"
      PROVE  ~Abstract!HasRoom
  <2>1. PushCheck(p)
    <3>1. p \in Threads
      BY DEF Threads
    <3>2. TryPush(p)
      BY <1>1, <3>1, StepsOf
    <3> QED BY <1>1, <3>1, <3>2 DEF TryPush, IInv, Shape, CallPush, PushCas,
                 PushCasFail, PushWrite, PushPublish
  <2>2. p \in Threads /\ Diff(p, pos[p]) < 0
    BY <1>1, <2>1 DEF PushCheck, IInv, Shape, Threads
  <2>3. sequence[Cell(pos[p])] < pos[p] /\ pos[p] <= enqueue_pos
    BY <1>0, <1>1, <2>2 DEF Diff, IInv, Attempts
  <2>4. pos[p] = enqueue_pos
    BY <1>0, <2>2, <2>3 DEF IInv, Shape, Ring
  <2> QED BY <1>0, <2>2, <2>3, <2>4, RoomIsFreeCell
<1>2. ASSUME NEW c \in Consumers, pc[c] = "pop_check", pc'[c] = "idle"
      PROVE  ~Abstract!HeadReady
  <2>1. PopCheck(c)
    <3>1. c \in Threads
      BY DEF Threads
    <3>2. TryPop(c)
      BY <1>2, <3>1, StepsOf
    <3> QED BY <1>2, <3>1, <3>2 DEF TryPop, IInv, Shape, CallPop, PopCas,
                 PopCasFail, PopMove, PopFree
  <2>2. c \in Threads /\ Diff(c, pos[c] + 1) < 0
    BY <1>2, <2>1 DEF PopCheck, IInv, Shape, Threads
  <2>3. sequence[Cell(pos[c])] <= pos[c] /\ pos[c] <= dequeue_pos
    BY <1>0, <1>2, <2>2 DEF Diff, IInv, Attempts
  <2>4. pos[c] = dequeue_pos
    BY <1>0, <2>2, <2>3 DEF IInv, Shape, Ring
  <2> QED BY <1>0, <2>2, <2>3, <2>4 DEF Abstract!HeadReady, Published
<1> QED BY <1>1, <1>2

(* try_push says full and try_pop says empty only when that is so at the   *)
(* moment they look, although the position they look at may be old.        *)
THEOREM TruthfulFalse == Spec => FalseIsTruthful
<1>1. ASSUME IInv, [Next]_vars
      PROVE  [/\ \A p \in Producers :
                    pc[p] = "push_check" /\ pc'[p] = "idle" => ~Abstract!HasRoom
              /\ \A c \in Consumers :
                    pc[c] = "pop_check" /\ pc'[c] = "idle" => ~Abstract!HeadReady]_vars
  BY <1>1, FalseStep
<1> QED BY <1>1, Invariance, PTL DEF Spec, FalseIsTruthful

-----------------------------------------------------------------------------
(* The ring implements TicketQueue. *)

Holding == [t \in Threads |-> Ticket(t)]
Popped == [c \in Consumers |->
              IF pc[c] = "pop_move" THEN value[Cell(pos[c])] ELSE out[c]]

(* Steps without a ticket change nothing that TicketQueue talks about. *)
LEMMA ReadsStutter ==
    ASSUME IInv, NEW t \in Threads, ~ OwnsCell(t), ~ OwnsCell(t)',
           UNCHANGED <<enqueue_pos, dequeue_pos, sequence, value, item, out>>,
           \A u \in Threads : u # t => pc'[u] = pc[u] /\ pos'[u] = pos[u]
    PROVE  UNCHANGED <<enqueue_pos, dequeue_pos, item, Published, FreedTickets,
                       Holding, Popped>>
<1>1. \A u \in Threads : Ticket(u)' = Ticket(u)
  BY DEF Ticket, OwnsCell
<1>2. Holding' = Holding
  BY <1>1 DEF Holding
<1>3. pc[t] # "pop_move" /\ pc'[t] # "pop_move"
  BY DEF OwnsCell
<1>4. Popped' = Popped
  BY <1>3 DEF Popped, Threads
<1> QED BY <1>2, <1>4 DEF Published, FreedTickets

LEMMA PushReadsStutter ==
    ASSUME NEW p \in Producers, IInv, CallPush(p) \/ PushCheck(p) \/ PushCasFail(p)
    PROVE  UNCHANGED <<enqueue_pos, dequeue_pos, item, Published, FreedTickets,
                       Holding, Popped>>
<1>0. p \in Threads
  BY DEF Threads
<1>1. /\ UNCHANGED <<enqueue_pos, dequeue_pos, sequence, value, item, out>>
      /\ \A u \in Threads : u # p => pc'[u] = pc[u] /\ pos'[u] = pos[u]
  BY <1>0 DEF IInv, Shape, CallPush, PushCheck, PushCasFail
<1>2. ~ OwnsCell(p) /\ ~ OwnsCell(p)'
  BY <1>0 DEF IInv, Shape, OwnsCell, CallPush, PushCheck, PushCasFail
<1> QED BY <1>0, <1>1, <1>2, ReadsStutter

LEMMA PopReadsStutter ==
    ASSUME NEW c \in Consumers, IInv, CallPop(c) \/ PopCheck(c) \/ PopCasFail(c)
    PROVE  UNCHANGED <<enqueue_pos, dequeue_pos, item, Published, FreedTickets,
                       Holding, Popped>>
<1>0. c \in Threads
  BY DEF Threads
<1>1. /\ UNCHANGED <<enqueue_pos, dequeue_pos, sequence, value, item, out>>
      /\ \A u \in Threads : u # c => pc'[u] = pc[u] /\ pos'[u] = pos[u]
  BY <1>0 DEF IInv, Shape, CallPop, PopCheck, PopCasFail
<1>2. ~ OwnsCell(c) /\ ~ OwnsCell(c)'
  BY <1>0 DEF IInv, Shape, OwnsCell, CallPop, PopCheck, PopCasFail
<1> QED BY <1>0, <1>1, <1>2, ReadsStutter

(* Access to the value of an owned cell is invisible. *)
LEMMA WriteStutters ==
    ASSUME NEW p \in Producers, IInv, PushWrite(p)
    PROVE  UNCHANGED <<enqueue_pos, dequeue_pos, item, Published, FreedTickets,
                       Holding, Popped>>
<1>0. p \in Threads /\ OwnsCell(p) /\ OwnsCell(p)' /\ Cell(pos[p]) \in Cells
  BY CellType DEF Threads, IInv, Shape, PushWrite, OwnsCell
<1>1. \A u \in Threads : Ticket(u)' = Ticket(u)
  BY <1>0 DEF IInv, Shape, Ticket, OwnsCell, PushWrite
<1>2. Holding' = Holding
  BY <1>1 DEF Holding
<1>3. ASSUME NEW c \in Consumers
      PROVE  /\ pc'[c] = pc[c]
             /\ pc[c] = "pop_move" => value'[Cell(pos[c])] = value[Cell(pos[c])]
  <2>1. c \in Threads /\ c # p /\ Cell(pos[c]) \in Cells
    BY CellType, MpmcAssumption DEF Threads, IInv, Shape
  <2>2. pc[c] = "pop_move" => Cell(pos[c]) # Cell(pos[p])
    BY <1>0, <2>1, InvariantImpliesNoRace DEF NoDataRace, OwnsCell
  <2> QED BY <1>0, <2>1, <2>2 DEF IInv, Shape, PushWrite
<1>4. Popped' = Popped
  BY <1>3 DEF Popped, PushWrite
<1> QED BY <1>2, <1>4 DEF Published, FreedTickets, PushWrite

LEMMA MoveStutters ==
    ASSUME NEW c \in Consumers, IInv, PopMove(c)
    PROVE  UNCHANGED <<enqueue_pos, dequeue_pos, item, Published, FreedTickets,
                       Holding, Popped>>
<1>0. c \in Threads /\ OwnsCell(c) /\ Cell(pos[c]) \in Cells
  BY CellType DEF Threads, IInv, Shape, PopMove, OwnsCell
<1>1. \A u \in Threads : Ticket(u)' = Ticket(u)
  BY <1>0 DEF IInv, Shape, Ticket, OwnsCell, PopMove
<1>2. Holding' = Holding
  BY <1>1 DEF Holding
<1>3. ASSUME NEW b \in Consumers
      PROVE  Popped'[b] = Popped[b]
  <2>1. CASE b = c
    BY <1>0, <2>1 DEF IInv, Shape, PopMove, Popped
  <2>2. CASE b # c
    <3>1. b \in Threads /\ Cell(pos[b]) \in Cells
      BY CellType DEF Threads, IInv, Shape
    <3>2. pc[b] = "pop_move" => Cell(pos[b]) # Cell(pos[c])
      BY <1>0, <2>2, <3>1, InvariantImpliesNoRace DEF NoDataRace, OwnsCell
    <3> QED BY <1>0, <2>2, <3>1, <3>2 DEF IInv, Shape, PopMove, Popped
  <2> QED BY <2>1, <2>2
<1>4. Popped' = Popped
  BY <1>3 DEF Popped
<1> QED BY <1>2, <1>4 DEF Published, FreedTickets, PopMove

(* A winning compare-exchange claims the next ticket. *)
LEMMA CasClaims ==
    ASSUME NEW p \in Producers, IInv, PushCas(p)
    PROVE  arg[p] \in Values /\ Abstract!PushClaim(p, arg[p])
<1> DEFINE e == enqueue_pos
           d == dequeue_pos
<1>0. /\ p \in Threads /\ e \in Nat /\ d \in Nat /\ pos[p] = e /\ e' = e + 1
      /\ Capacity \in Nat /\ Capacity >= 2 /\ arg[p] \in Values
  BY MpmcAssumption DEF Threads, IInv, Shape, PushCas
<1>1. sequence[Cell(e)] = e
  BY <1>0 DEF IInv, Attempts, PushCas
<1>2. e < Capacity \/ e - Capacity \in FreedTickets
  <2>1. Cell(e - Capacity) = Cell(e) /\ e - Capacity \in (e - Capacity) .. (e - 1)
    BY <1>0, NextLap
  <2>2. e - Capacity < d
    BY <1>0, <1>1, <2>1 DEF IInv, Ring
  <2> QED BY <1>0, <1>1, <2>1, <2>2 DEF FreedTickets
<1>3. Holding[p] = -1 /\ Holding' = [Holding EXCEPT ![p] = e]
  BY <1>0 DEF Holding, Ticket, OwnsCell, IInv, Shape, PushCas
<1>4. Published' = Published
  <2>0. e' - 1 = e /\ sequence' = sequence
    BY <1>0 DEF PushCas
  <2>1. Published' = {n \in 0 .. e : sequence[Cell(n)] > n}
    BY <2>0 DEF Published
  <2>2. \A n : n \in 0 .. e /\ sequence[Cell(n)] > n <=> n \in 0 .. e - 1 /\ sequence[Cell(n)] > n
    BY <1>0, <1>1
  <2> QED BY <2>1, <2>2 DEF Published
<1>5. FreedTickets' = FreedTickets
  BY DEF FreedTickets, PushCas
<1>6. Popped' = Popped
  <2>1. \A c \in Consumers : pc'[c] = pc[c]
    BY <1>0, MpmcAssumption DEF IInv, Shape, PushCas, Threads
  <2> QED BY <2>1 DEF Popped, PushCas
<1> QED BY <1>0, <1>2, <1>3, <1>4, <1>5, <1>6
  DEF Abstract!PushClaim, Abstract!HasRoom, Abstract!NoTicket, Holding, Popped, PushCas

LEMMA CasClaimsHead ==
    ASSUME NEW c \in Consumers, IInv, PopCas(c)
    PROVE  Abstract!PopClaim(c)
<1> DEFINE e == enqueue_pos
           d == dequeue_pos
<1>0. /\ c \in Threads /\ e \in Nat /\ d \in Nat /\ pos[c] = d /\ d' = d + 1
      /\ Capacity \in Nat /\ Capacity >= 2
  BY MpmcAssumption DEF Threads, IInv, Shape, PopCas
<1>1. sequence[Cell(d)] = d + 1
  BY <1>0 DEF IInv, Attempts, PopCas
<1>2. d + 1 <= e
  BY <1>0, PopCasKeeps DEF IInv, Ring, PopCas
<1>3. d \in Published
  BY <1>0, <1>1, <1>2 DEF Published
<1>4. Holding[c] = -1 /\ Holding' = [Holding EXCEPT ![c] = d]
  BY <1>0 DEF Holding, Ticket, OwnsCell, IInv, Shape, PopCas
<1>5. Published' = Published
  BY DEF Published, PopCas
<1>6. FreedTickets' = FreedTickets
  <2>1. FreedTickets' = {n \in 0 .. d : sequence[Cell(n)] >= n + Capacity}
    BY <1>0 DEF FreedTickets, PopCas
  <2>2. \A n : n \in 0 .. d /\ sequence[Cell(n)] >= n + Capacity
               <=> n \in 0 .. d - 1 /\ sequence[Cell(n)] >= n + Capacity
    BY <1>0, <1>1
  <2> QED BY <2>1, <2>2 DEF FreedTickets
<1>7. Popped' = [Popped EXCEPT ![c] = item[d + 1]]
  <2>1. value[Cell(d)] = item[d + 1]
    BY <1>0, <1>1, <1>2 DEF IInv, Contents
  <2>2. \A b \in Consumers : pc'[b] = IF b = c THEN "pop_move" ELSE pc[b]
    BY <1>0 DEF IInv, Shape, PopCas, Threads
  <2> QED BY <1>0, <2>1, <2>2 DEF Popped, PopCas
<1> QED BY <1>0, <1>3, <1>4, <1>5, <1>6, <1>7
  DEF Abstract!PopClaim, Abstract!HeadReady, Abstract!NoTicket, Holding, Popped, PopCas

(* The store of the sequence number publishes the ticket, and touches no   *)
(* older ticket of the cell: they have been freed.                         *)
LEMMA StorePublishes ==
    ASSUME NEW p \in Producers, IInv, PushPublish(p)
    PROVE  Abstract!PushPublish(p)
<1> DEFINE e == enqueue_pos
           d == dequeue_pos
           m == pos[p]
<1>0. /\ p \in Threads /\ OwnsCell(p) /\ Cell(m) \in Cells
      /\ e \in Nat /\ d \in Nat /\ m \in Nat
      /\ Capacity \in Nat /\ Capacity >= 2
  BY CellType, MpmcAssumption DEF Threads, IInv, Shape, PushPublish, OwnsCell
<1>1. d <= m /\ m < e /\ e - Capacity <= m /\ sequence[Cell(m)] = m
  BY <1>0, OwnersInLastLap DEF IInv, Owners
<1>2. \A n \in Int : /\ Cell(n) = Cell(m) => sequence'[Cell(n)] = m + 1
                     /\ Cell(n) # Cell(m) => sequence'[Cell(n)] = sequence[Cell(n)]
  BY <1>0, CellType DEF IInv, Shape, PushPublish
<1>3. \A n \in 0 .. e - 1 : Cell(n) = Cell(m) => n = m \/ n + Capacity <= m
  <2> SUFFICES ASSUME NEW n \in 0 .. e - 1, Cell(n) = Cell(m), n # m
               PROVE  n + Capacity <= m
    OBVIOUS
  <2>1. n < m \/ m + Capacity <= n
    BY <1>0, LapApart
  <2> QED BY <1>0, <1>1, <2>1, LapApart
<1>4. Published' = Published \cup {m}
  <2>1. Published' = {n \in 0 .. e - 1 : sequence'[Cell(n)] > n}
    BY DEF Published, PushPublish
  <2>2. ASSUME NEW n \in 0 .. e - 1
        PROVE  sequence'[Cell(n)] > n <=> sequence[Cell(n)] > n \/ n = m
    <3>1. n \in Int
      OBVIOUS
    <3>2. CASE Cell(n) = Cell(m)
      BY <1>0, <1>1, <1>2, <1>3, <3>1, <3>2
    <3>3. CASE Cell(n) # Cell(m)
      BY <1>2, <3>1, <3>3
    <3> QED BY <3>2, <3>3
  <2>3. m \in 0 .. e - 1
    BY <1>0, <1>1
  <2> QED BY <2>1, <2>2, <2>3 DEF Published
<1>5. FreedTickets' = FreedTickets
  <2>1. FreedTickets' = {n \in 0 .. d - 1 : sequence'[Cell(n)] >= n + Capacity}
    BY DEF FreedTickets, PushPublish
  <2>2. ASSUME NEW n \in 0 .. d - 1
        PROVE  sequence'[Cell(n)] >= n + Capacity <=> sequence[Cell(n)] >= n + Capacity
    <3>1. n \in Int /\ n \in 0 .. e - 1 /\ n # m
      BY <1>0, <1>1
    <3>2. CASE Cell(n) = Cell(m)
      BY <1>0, <1>1, <1>2, <1>3, <3>1, <3>2
    <3>3. CASE Cell(n) # Cell(m)
      BY <1>2, <3>1, <3>3
    <3> QED BY <3>2, <3>3
  <2> QED BY <2>1, <2>2 DEF FreedTickets
<1>6. Holding[p] = m /\ Holding' = [Holding EXCEPT ![p] = -1]
  BY <1>0 DEF Holding, Ticket, OwnsCell, IInv, Shape, PushPublish
<1>7. Popped' = Popped
  <2>1. \A c \in Consumers : pc'[c] = pc[c]
    BY <1>0, MpmcAssumption DEF IInv, Shape, PushPublish, Threads
  <2> QED BY <2>1 DEF Popped, PushPublish
<1> QED BY <1>0, <1>4, <1>5, <1>6, <1>7
  DEF Abstract!PushPublish, Abstract!NoTicket, Holding, Popped, PushPublish

LEMMA StoreFrees ==
    ASSUME NEW c \in Consumers, IInv, PopFree(c)
    PROVE  Abstract!PopFree(c)
<1> DEFINE e == enqueue_pos
           d == dequeue_pos
           m == pos[c]
<1>0. /\ c \in Threads /\ OwnsCell(c) /\ Cell(m) \in Cells
      /\ e \in Nat /\ d \in Nat /\ m \in Nat /\ d <= e
      /\ Capacity \in Nat /\ Capacity >= 2
  BY CellType, MpmcAssumption DEF Threads, IInv, Shape, Ring, PopFree, OwnsCell
<1>1. m < d /\ e - Capacity <= m /\ sequence[Cell(m)] = m + 1
  BY <1>0 DEF IInv, Owners
<1>2. \A n \in Int : /\ Cell(n) = Cell(m) => sequence'[Cell(n)] = m + Capacity
                     /\ Cell(n) # Cell(m) => sequence'[Cell(n)] = sequence[Cell(n)]
  BY <1>0, CellType DEF IInv, Shape, PopFree
<1>3. \A n \in 0 .. e - 1 : Cell(n) = Cell(m) => n = m \/ n + Capacity <= m
  <2> SUFFICES ASSUME NEW n \in 0 .. e - 1, Cell(n) = Cell(m), n # m
               PROVE  n + Capacity <= m
    OBVIOUS
  <2>1. n < m \/ m + Capacity <= n
    BY <1>0, LapApart
  <2> QED BY <1>0, <1>1, <2>1, LapApart
<1>4. Published' = Published
  <2>1. Published' = {n \in 0 .. e - 1 : sequence'[Cell(n)] > n}
    BY DEF Published, PopFree
  <2>2. ASSUME NEW n \in 0 .. e - 1
        PROVE  sequence'[Cell(n)] > n <=> sequence[Cell(n)] > n
    <3>1. n \in Int
      OBVIOUS
    <3>2. CASE Cell(n) = Cell(m)
      BY <1>0, <1>1, <1>2, <1>3, <3>1, <3>2
    <3>3. CASE Cell(n) # Cell(m)
      BY <1>2, <3>1, <3>3
    <3> QED BY <3>2, <3>3
  <2> QED BY <2>1, <2>2 DEF Published
<1>5. FreedTickets' = FreedTickets \cup {m}
  <2>1. FreedTickets' = {n \in 0 .. d - 1 : sequence'[Cell(n)] >= n + Capacity}
    BY DEF FreedTickets, PopFree
  <2>2. ASSUME NEW n \in 0 .. d - 1
        PROVE  sequence'[Cell(n)] >= n + Capacity
                 <=> sequence[Cell(n)] >= n + Capacity \/ n = m
    <3>1. n \in Int /\ n \in 0 .. e - 1
      BY <1>0, <1>1
    <3>2. CASE Cell(n) = Cell(m)
      BY <1>0, <1>1, <1>2, <1>3, <3>1, <3>2
    <3>3. CASE Cell(n) # Cell(m)
      BY <1>2, <3>1, <3>3
    <3> QED BY <3>2, <3>3
  <2>3. m \in 0 .. d - 1
    BY <1>0, <1>1
  <2> QED BY <2>1, <2>2, <2>3 DEF FreedTickets
<1>6. Holding[c] = m /\ Holding' = [Holding EXCEPT ![c] = -1]
  BY <1>0 DEF Holding, Ticket, OwnsCell, IInv, Shape, PopFree
<1>7. Popped' = Popped
  <2>1. \A b \in Consumers : pc'[b] = pc[b] \/ (b = c /\ pc[b] # "pop_move" /\ pc'[b] # "pop_move")
    BY <1>0 DEF IInv, Shape, PopFree, Threads
  <2> QED BY <2>1 DEF Popped, PopFree
<1>8. Holding[c] # -1 /\ UNCHANGED <<enqueue_pos, dequeue_pos, item>>
  BY <1>0, <1>6 DEF PopFree
<1>9. FreedTickets' = FreedTickets \cup {Holding[c]}
  BY <1>5, <1>6
<1> QED BY <1>4, <1>6, <1>7, <1>8, <1>9
  DEF Abstract!PopFree, Abstract!NoTicket, Holding, Popped

LEMMA StepRefines == IInv /\ [Next]_vars => [Abstract!Next]_(Abstract!queueVars)
<1> SUFFICES ASSUME IInv, [Next]_vars PROVE [Abstract!Next]_(Abstract!queueVars)
  OBVIOUS
<1> DEFINE Stutter == UNCHANGED <<enqueue_pos, dequeue_pos, item, Published,
                                  FreedTickets, Holding, Popped>>
<1>1. ASSUME Stutter PROVE UNCHANGED Abstract!queueVars
  BY <1>1 DEF Abstract!queueVars, Holding, Popped
<1>2. CASE \E p \in Producers : CallPush(p) \/ PushCheck(p) \/ PushCasFail(p) \/ PushWrite(p)
  BY <1>1, <1>2, PushReadsStutter, WriteStutters
<1>3. CASE \E c \in Consumers : CallPop(c) \/ PopCheck(c) \/ PopCasFail(c) \/ PopMove(c)
  BY <1>1, <1>3, PopReadsStutter, MoveStutters
<1>4. CASE \E p \in Producers : PushCas(p) \/ PushPublish(p)
  BY <1>4, CasClaims, StorePublishes DEF Abstract!Next
<1>5. CASE \E c \in Consumers : PopCas(c) \/ PopFree(c)
  BY <1>5, CasClaimsHead, StoreFrees DEF Abstract!Next
<1>6. CASE UNCHANGED vars
  <2>1. Stutter
    BY <1>6 DEF vars, Published, FreedTickets, Holding, Ticket, OwnsCell, Popped
  <2> QED BY <1>1, <2>1
<1> QED BY <1>2, <1>3, <1>4, <1>5, <1>6 DEF Next, TryPush, TryPop

LEMMA InitRefines == Init => Abstract!Init
<1> SUFFICES ASSUME Init PROVE Abstract!Init
  OBVIOUS
<1>1. Published = {} /\ FreedTickets = {}
  BY DEF Init, Published, FreedTickets
<1>2. Holding = [t \in Threads |-> -1]
  BY DEF Init, Holding, Ticket, OwnsCell
<1>3. Popped = [c \in Consumers |-> NoValue]
  BY DEF Init, Popped, Threads
<1> QED BY <1>1, <1>2, <1>3 DEF Init, Abstract!Init, Abstract!NoTicket, Abstract!Threads,
                             Threads, Holding, Popped

(* Every behaviour of the ring is a behaviour of the bounded FIFO of       *)
(* tickets: items come out once and in the order in which the pushes won   *)
(* their compare-exchange.                                                 *)
THEOREM Refinement == Spec => ImplementsTicketQueue
BY InitRefines, StepRefines, Invariance, PTL DEF Spec, ImplementsTicketQueue, Abstract!Spec
=============================================================================
