------------------------------ MODULE Reactor ------------------------------
(***************************************************************************)
(* network/reactor.{hpp,cpp}: the epoll reactor that parks coroutines and  *)
(* resumes them on its own thread.  A coroutine may call register_waiter   *)
(* from any thread; the critical sections under mutex_ are atomic steps,   *)
(* everything the reactor thread does between them is a step of its own.   *)
(* What a coroutine does while it runs is left open: it awaits again, or   *)
(* leaves the reactor thread (it ends, or hops to another thread).         *)
(* A coroutine stands for its file descriptor: the transport keeps one     *)
(* waiter per fd.  Reading and writing the eventfd only shortens           *)
(* epoll_wait, which may return at any time here.                          *)
(***************************************************************************)
EXTENDS Integers, FiniteSets

CONSTANTS Coros, NoCoro

ASSUME NoCoroAssumption == NoCoro \notin Coros

VARIABLES
    waiters,   \* waiters_
    late,      \* waiters whose deadline has passed
    events,    \* what the last epoll_wait reported
    batch,     \* to_resume
    ready,     \* ready_ of each coroutine's awaiter
    parked,    \* suspended coroutines that wait for the reactor
    cur,       \* coroutine the reactor thread has resumed
    loop,      \* control point of run()
    stop       \* stop requested on the reactor thread

reactorVars == <<waiters, late, events, batch, ready, parked, cur, loop, stop>>

ReactorInit ==
    /\ waiters = {} /\ late = {} /\ events = {} /\ batch = {}
    /\ ready = [c \in Coros |-> FALSE]
    /\ parked = {}
    /\ cur = NoCoro
    /\ loop = "loop"
    /\ stop = FALSE

-----------------------------------------------------------------------------
(* register_waiter, on the thread that runs c *)

Leave(c) == IF cur = c THEN NoCoro ELSE cur

(* Variant: register_waiter does not look at the stop token. *)
ParkWhileStopping(c) ==
    /\ c \notin parked
    /\ waiters' = waiters \cup {c}
    /\ late' = late \ {c}
    /\ parked' = parked \cup {c}
    /\ cur' = Leave(c)
    /\ UNCHANGED <<events, batch, ready, loop, stop>>

Park(c) ==
    /\ c \notin parked /\ ~stop
    /\ waiters' = waiters \cup {c}
    /\ late' = late \ {c}
    /\ parked' = parked \cup {c}
    /\ cur' = Leave(c)
    /\ UNCHANGED <<events, batch, ready, loop, stop>>

(* Shutting down, or epoll_ctl rejects the fd: c runs on. *)
Refuse(c) ==
    /\ c \notin parked
    /\ ready' = [ready EXCEPT ![c] = FALSE]
    /\ UNCHANGED <<waiters, late, events, batch, parked, cur, loop, stop>>

(* c ends, or hops to another thread. *)
Detach(c) ==
    /\ cur = c
    /\ cur' = NoCoro
    /\ UNCHANGED <<waiters, late, events, batch, ready, parked, loop, stop>>

(* Time passes the deadline of a waiter. *)
Expire(c) ==
    /\ c \in waiters \ late
    /\ late' = late \cup {c}
    /\ UNCHANGED <<waiters, events, batch, ready, parked, cur, loop, stop>>

-----------------------------------------------------------------------------
(* run() *)

CheckStop ==
    /\ loop = "loop"
    /\ loop' = IF stop THEN "drain" ELSE "wait"
    /\ UNCHANGED <<waiters, late, events, batch, ready, parked, cur, stop>>

EpollWait(fds) ==
    /\ loop = "wait"
    /\ fds \subseteq waiters
    /\ events' = fds
    /\ loop' = "collect"
    /\ UNCHANGED <<waiters, late, batch, ready, parked, cur, stop>>

(* Variant: expired waiters stay in the table. *)
CollectKeepsExpired ==
    /\ loop = "collect"
    /\ batch' = events \cup late
    /\ waiters' = waiters \ events
    /\ late' = late \ events
    /\ ready' = [c \in Coros |-> c \in events \/ (c \notin late /\ ready[c])]
    /\ events' = {}
    /\ loop' = "resume"
    /\ UNCHANGED <<parked, cur, stop>>

(* Ready waiters first, then the expired ones among the rest. *)
Collect ==
    /\ loop = "collect"
    /\ LET fired == events \cap waiters
           expired == (waiters \ fired) \cap late
       IN  /\ batch' = fired \cup expired
           /\ waiters' = waiters \ (fired \cup expired)
           /\ late' = late \ (fired \cup expired)
           /\ ready' = [c \in Coros |-> IF c \in fired THEN TRUE
                                        ELSE IF c \in expired THEN FALSE
                                        ELSE ready[c]]
    /\ events' = {}
    /\ loop' = "resume"
    /\ UNCHANGED <<parked, cur, stop>>

Resume(c) ==
    /\ loop \in {"resume", "drain_resume"} /\ cur = NoCoro
    /\ c \in batch
    /\ batch' = batch \ {c}
    /\ parked' = parked \ {c}
    /\ cur' = c
    /\ UNCHANGED <<waiters, late, events, ready, loop, stop>>

EndBatch ==
    /\ loop \in {"resume", "drain_resume"} /\ cur = NoCoro
    /\ batch = {}
    /\ loop' = IF loop = "resume" THEN "loop" ELSE "drain"
    /\ UNCHANGED <<waiters, late, events, batch, ready, parked, cur, stop>>

(* One round of the shutdown loop. *)
Drain ==
    /\ loop = "drain"
    /\ batch' = waiters
    /\ ready' = [c \in Coros |-> IF c \in waiters THEN FALSE ELSE ready[c]]
    /\ waiters' = {}
    /\ late' = {}
    /\ loop' = IF waiters = {} THEN "exited" ELSE "drain_resume"
    /\ UNCHANGED <<events, parked, cur, stop>>

(* stop(): thread_.request_stop() *)
RequestStop ==
    /\ ~stop
    /\ stop' = TRUE
    /\ UNCHANGED <<waiters, late, events, batch, ready, parked, cur, loop>>

Run == CheckStop \/ Collect \/ EndBatch \/ Drain
         \/ (\E fds \in SUBSET waiters : EpollWait(fds))
         \/ \E c \in Coros : Resume(c)

ReactorNext ==
    \/ \E c \in Coros : Park(c) \/ Refuse(c) \/ Detach(c) \/ Expire(c)
    \/ Run
    \/ RequestStop

ReactorSpec == ReactorInit /\ [][ReactorNext]_reactorVars

-----------------------------------------------------------------------------
(* Properties *)

(* "A waiter resumes in exactly one of three ways, and always exactly      *)
(* once": every suspended coroutine is in the waiter table or in the       *)
(* current batch and not in both, and nothing else is there, so no resume  *)
(* hits a coroutine that is running or was resumed before.  "Stale events  *)
(* after close" are ruled out too: an event finds its waiter in the table. *)
ExactlyOnePlace ==
    /\ parked = waiters \cup batch /\ waiters \cap batch = {}
    /\ events \subseteq waiters
=============================================================================
