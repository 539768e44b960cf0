------------------------------ MODULE TaskArena ------------------------------
(***************************************************************************)
(* Task execution on one node: the bump arena (executor/memory_pool.cpp),  *)
(* TaskRunner::execute, and the shared/exclusive use of arena_mutex_ in    *)
(* Orchestrator::run_task and try_reset_arena.                             *)
(*                                                                         *)
(* Pool threads are executor threads running the tasks of submit_workload, *)
(* handlers are server threads running a peer's offloaded task, and       *)
(* submitters are threads inside submit_workload.  A handler tries to      *)
(* reset the arena after its task, a submitter when all its tasks were     *)
(* counted or its 30 s deadline passed.  No caller in src/ ever requests a *)
(* stop on the token it hands to a task, so a task ends by completing or   *)
(* by not getting its memory.                                              *)
(***************************************************************************)
EXTENDS Integers

CONSTANTS PoolThreads, Handlers, Submitters, NoThread,
          Sizes,       \* values of profile.memory_bytes
          ArenaCapacity, \* capacity_
          Alignment,   \* alignof(std::max_align_t)
          Word         \* 2^w for the width w of size_t

Runners == PoolThreads \cup Handlers
Threads == Runners \cup Submitters

ASSUME ThreadsAssumption ==
    /\ NoThread \notin Threads
    /\ PoolThreads \cap Handlers = {}
    /\ Runners \cap Submitters = {}
ASSUME ArenaAssumption ==
    /\ ArenaCapacity \in Nat
    /\ Alignment \in Nat \ {0}
    /\ Sizes \subseteq Nat

(* The bounds check of allocate() does not wrap around for any request.    *)
ASSUME NoWrapAssumption ==
    /\ Word \in Nat
    /\ \A s \in Sizes : ArenaCapacity + Alignment + s < Word

VARIABLES
    offset,      \* offset_ of the MemoryPool
    sharedBy,    \* threads holding arena_mutex_ shared
    exclusive,   \* thread holding arena_mutex_ exclusively
    pc,          \* control point of each thread
    size,        \* memory_bytes of the task a runner executes
    current,     \* local variable of allocate()
    lo, hi,      \* block a runner's task works in: [lo, hi)
    owner,       \* submitter a worker's task belongs to
    orphanRan    \* an abandoned task took memory since the last reset

arenaVars == <<offset, sharedBy, exclusive, pc, size, current, lo, hi, owner, orphanRan>>

ArenaInit ==
    /\ offset = 0
    /\ sharedBy = {}
    /\ exclusive = NoThread
    /\ pc = [t \in Threads |-> "idle"]
    /\ size = [r \in Runners |-> 0]
    /\ current = [r \in Runners |-> 0]
    /\ lo = [r \in Runners |-> 0]
    /\ hi = [r \in Runners |-> 0]
    /\ owner = [w \in PoolThreads |-> NoThread]
    /\ orphanRan = FALSE

arena == <<offset, current, lo, hi>>
lock == <<sharedBy, exclusive>>

-----------------------------------------------------------------------------
(* Work arrives: a workload is fanned out to the executor, or a peer's     *)
(* request reaches a handler thread.                                       *)

StartWorkload(s, ws) ==
    /\ pc[s] = "idle"
    /\ ws # {} /\ \A w \in ws : pc[w] = "idle"
    /\ \E z \in [ws -> Sizes] :
          size' = [r \in Runners |-> IF r \in ws THEN z[r] ELSE size[r]]
    /\ owner' = [w \in PoolThreads |-> IF w \in ws THEN s ELSE owner[w]]
    /\ pc' = [t \in Threads |-> IF t \in ws THEN "lock"
                                ELSE IF t = s THEN "waiting" ELSE pc[t]]
    /\ UNCHANGED <<arena, lock, orphanRan>>

OffloadArrives(h) ==
    /\ pc[h] = "idle"
    /\ \E z \in Sizes : size' = [size EXCEPT ![h] = z]
    /\ pc' = [pc EXCEPT ![h] = "lock"]
    /\ UNCHANGED <<arena, lock, owner, orphanRan>>

-----------------------------------------------------------------------------
(* run_task: shared lock, allocate, compute, unlock *)

LockShared(r) ==
    /\ pc[r] = "lock" /\ exclusive = NoThread
    /\ sharedBy' = sharedBy \cup {r}
    /\ pc' = [pc EXCEPT ![r] = "load"]
    /\ UNCHANGED <<arena, exclusive, size, owner, orphanRan>>

AllocLoad(r) ==
    /\ pc[r] = "load"
    /\ current' = [current EXCEPT ![r] = offset]
    /\ pc' = [pc EXCEPT ![r] = "cas"]
    /\ UNCHANGED <<offset, lo, hi, lock, size, owner, orphanRan>>

(* (n + alignment - 1) & ~(alignment - 1) *)
AlignUp(n) == n + ((-n) % Alignment)

(* aligned + size, in size_t arithmetic *)
End(r) == (AlignUp(current[r]) + size[r]) % Word

(* Variant: a store instead of the compare-and-swap. *)
AllocStore(r) ==
    /\ pc[r] = "cas"
    /\ End(r) <= ArenaCapacity
    /\ offset' = End(r)
    /\ lo' = [lo EXCEPT ![r] = AlignUp(current[r])]
    /\ hi' = [hi EXCEPT ![r] = End(r)]
    /\ pc' = [pc EXCEPT ![r] = "compute"]
    /\ UNCHANGED <<current, lock, size, owner, orphanRan>>

(* Variant: only the start of the block is checked against capacity_. *)
AllocStartChecked(r) ==
    /\ pc[r] = "cas"
    /\ AlignUp(current[r]) <= ArenaCapacity
    /\ offset = current[r]
    /\ offset' = End(r)
    /\ lo' = [lo EXCEPT ![r] = AlignUp(current[r])]
    /\ hi' = [hi EXCEPT ![r] = End(r)]
    /\ pc' = [pc EXCEPT ![r] = "compute"]
    /\ UNCHANGED <<current, lock, size, owner, orphanRan>>

AllocClaim(r) ==
    /\ pc[r] = "cas"
    /\ End(r) <= ArenaCapacity
    /\ offset = current[r]
    /\ offset' = End(r)
    /\ lo' = [lo EXCEPT ![r] = AlignUp(current[r])]
    /\ hi' = [hi EXCEPT ![r] = End(r)]
    /\ pc' = [pc EXCEPT ![r] = "compute"]
    /\ UNCHANGED <<current, lock, size, owner, orphanRan>>

(* compare_exchange_weak failed, spuriously or not. *)
AllocRetry(r) ==
    /\ pc[r] = "cas"
    /\ End(r) <= ArenaCapacity
    /\ current' = [current EXCEPT ![r] = offset]
    /\ UNCHANGED <<offset, lo, hi, lock, pc, size, owner, orphanRan>>

(* "Out of memory in pool" *)
AllocFails(r) ==
    /\ pc[r] = "cas"
    /\ End(r) > ArenaCapacity
    /\ pc' = [pc EXCEPT ![r] = "unlock"]
    /\ UNCHANGED <<arena, lock, size, owner, orphanRan>>

Compute(r) ==
    /\ pc[r] = "compute"
    /\ pc' = [pc EXCEPT ![r] = "unlock"]
    /\ UNCHANGED <<arena, lock, size, owner, orphanRan>>

(* Variant: a handler does not try to reset after its task. *)
UnlockWithoutReset(r) ==
    /\ pc[r] = "unlock"
    /\ sharedBy' = sharedBy \ {r}
    /\ pc' = [pc EXCEPT ![r] = "idle"]
    /\ owner' = [w \in PoolThreads |-> IF w = r THEN NoThread ELSE owner[w]]
    /\ orphanRan' = (orphanRan \/ (r \in PoolThreads /\ owner[r] = NoThread))
    /\ size' = [size EXCEPT ![r] = 0]
    /\ current' = [current EXCEPT ![r] = 0]
    /\ lo' = [lo EXCEPT ![r] = 0]
    /\ hi' = [hi EXCEPT ![r] = 0]
    /\ UNCHANGED <<offset, exclusive>>

(* run_task returns: its locals die, the guard unlocks, and a worker's     *)
(* task is then counted.                                                   *)
UnlockShared(r) ==
    /\ pc[r] = "unlock"
    /\ sharedBy' = sharedBy \ {r}
    /\ pc' = [pc EXCEPT ![r] = IF r \in Handlers THEN "boundary" ELSE "idle"]
    /\ owner' = [w \in PoolThreads |-> IF w = r THEN NoThread ELSE owner[w]]
    /\ orphanRan' = (orphanRan \/ (r \in PoolThreads /\ owner[r] = NoThread))
    /\ size' = [size EXCEPT ![r] = 0]
    /\ current' = [current EXCEPT ![r] = 0]
    /\ lo' = [lo EXCEPT ![r] = 0]
    /\ hi' = [hi EXCEPT ![r] = 0]
    /\ UNCHANGED <<offset, exclusive>>

-----------------------------------------------------------------------------
(* submit_workload's bounded wait, and try_reset_arena *)

AllCounted(s) ==
    /\ pc[s] = "waiting"
    /\ \A w \in PoolThreads : owner[w] # s
    /\ pc' = [pc EXCEPT ![s] = "boundary"]
    /\ UNCHANGED <<arena, lock, size, owner, orphanRan>>

(* The deadline passed: the tasks not yet counted run on without an owner. *)
Deadline(s) ==
    /\ pc[s] = "waiting"
    /\ \E w \in PoolThreads : owner[w] = s
    /\ owner' = [w \in PoolThreads |-> IF owner[w] = s THEN NoThread ELSE owner[w]]
    /\ pc' = [pc EXCEPT ![s] = "boundary"]
    /\ UNCHANGED <<arena, lock, size, orphanRan>>

(* Variant: the lock excludes other resets but not running tasks. *)
TryLockIgnoringTasks(t) ==
    /\ pc[t] = "boundary" /\ exclusive = NoThread
    /\ exclusive' = t
    /\ pc' = [pc EXCEPT ![t] = "reset"]
    /\ UNCHANGED <<arena, sharedBy, size, owner, orphanRan>>

TryLock(t) ==
    /\ pc[t] = "boundary"
    /\ \/ /\ sharedBy = {} /\ exclusive = NoThread
          /\ exclusive' = t
          /\ pc' = [pc EXCEPT ![t] = "reset"]
       \/ /\ sharedBy # {} \/ exclusive # NoThread
          /\ pc' = [pc EXCEPT ![t] = "idle"]
          /\ UNCHANGED exclusive
    /\ UNCHANGED <<arena, sharedBy, size, owner, orphanRan>>

Reset(t) ==
    /\ pc[t] = "reset"
    /\ offset' = 0
    /\ orphanRan' = FALSE
    /\ pc' = [pc EXCEPT ![t] = "release"]
    /\ UNCHANGED <<current, lo, hi, lock, size, owner>>

(* Variant: the exclusive lock is not given back. *)
KeepExclusive(t) ==
    /\ pc[t] = "release"
    /\ pc' = [pc EXCEPT ![t] = "idle"]
    /\ UNCHANGED <<arena, lock, size, owner, orphanRan>>

UnlockExclusive(t) ==
    /\ pc[t] = "release"
    /\ exclusive' = NoThread
    /\ pc' = [pc EXCEPT ![t] = "idle"]
    /\ UNCHANGED <<arena, sharedBy, size, owner, orphanRan>>

RunTask(r) == LockShared(r) \/ AllocLoad(r) \/ AllocClaim(r) \/ AllocRetry(r)
                \/ AllocFails(r) \/ Compute(r) \/ UnlockShared(r)
TryReset(t) == TryLock(t) \/ Reset(t) \/ UnlockExclusive(t)

ArenaNext ==
    \/ \E s \in Submitters : \/ \E ws \in SUBSET PoolThreads : StartWorkload(s, ws)
                             \/ AllCounted(s)
                             \/ Deadline(s)
    \/ \E h \in Handlers : OffloadArrives(h)
    \/ \E r \in Runners : RunTask(r)
    \/ \E t \in Handlers \cup Submitters : TryReset(t)

(* Threads are scheduled and tasks end.  The rwlock behind                 *)
(* std::shared_mutex lets a waiting reader in again and again between      *)
(* resets, so a reader does not wait forever.                              *)
ArenaFairness ==
    /\ \A r \in Runners : SF_arenaVars(LockShared(r))
    /\ \A r \in Runners : WF_arenaVars(AllocLoad(r) \/ AllocClaim(r) \/ AllocFails(r))
    /\ \A r \in Runners : WF_arenaVars(AllocRetry(r) /\ offset # current[r])
    /\ \A r \in Runners : WF_arenaVars(Compute(r) \/ UnlockShared(r))
    /\ \A t \in Handlers \cup Submitters : WF_arenaVars(TryReset(t))
    /\ \A s \in Submitters : WF_arenaVars(AllCounted(s) \/ Deadline(s))

ArenaSpec == ArenaInit /\ [][ArenaNext]_arenaVars
ArenaFairSpec == ArenaSpec /\ ArenaFairness

-----------------------------------------------------------------------------
(* Properties *)

RunPc == {"idle", "lock", "load", "cas", "compute", "unlock"}
ResetPc == {"boundary", "reset", "release"}

(* The variables stay in the ranges of the C++ objects they stand for. *)
TypeOK ==
    /\ offset \in Nat
    /\ sharedBy \subseteq Runners
    /\ exclusive \in Threads \cup {NoThread}
    /\ pc \in [Threads -> RunPc \cup ResetPc \cup {"waiting"}]
    /\ size \in [Runners -> Sizes \cup {0}]
    /\ current \in [Runners -> Nat]
    /\ lo \in [Runners -> Nat] /\ hi \in [Runners -> Nat]
    /\ owner \in [PoolThreads -> Submitters \cup {NoThread}]
    /\ orphanRan \in BOOLEAN

Live(r) == pc[r] = "compute"

(* No two running tasks share a byte of the arena, however their           *)
(* compare-and-swap loops interleave with each other and with resets.      *)
BlocksDisjoint ==
    \A q, r \in Runners :
        q # r /\ Live(q) /\ Live(r) => hi[q] <= lo[r] \/ hi[r] <= lo[q]

(* The memory ceiling is a hard number: a running task's block is          *)
(* aligned, lies below the bump offset, and the offset never passes        *)
(* capacity_.                                                              *)
BlocksInBounds ==
    /\ offset <= ArenaCapacity
    /\ \A r \in Runners : Live(r) => /\ lo[r] <= hi[r] /\ hi[r] <= offset
                                      /\ lo[r] % Alignment = 0

(* "a reset can never yank memory from under a running task": the offset   *)
(* goes back only in a step in which no task works in the arena.           *)
ResetOnlyWhenQuiescent ==
    [][offset' < offset => \A r \in Runners : ~Live(r)]_arenaVars

(* Every deferred reset is caught up on: once every thread is idle the     *)
(* arena is empty again, unless a task outlived its submitter's deadline   *)
(* (nobody resets after such a task until the next boundary).              *)
QuiescentArenaEmpty ==
    (\A t \in Threads : pc[t] = "idle") => offset = 0 \/ orphanRan

(* run_task ends: the lock is obtained, and the allocation loop terminates *)
(* because no reset can lower the offset while the lock is shared.         *)
RunTaskEnds ==
    \A r \in Runners : pc[r] = "lock" ~> pc[r] \in {"idle", "boundary"}
=============================================================================
