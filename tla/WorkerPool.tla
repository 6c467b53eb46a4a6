----------------------------- MODULE WorkerPool -----------------------------
(***************************************************************************)
(* The warm worker pool of the executor                                    *)
(* (allama/executor/backends/pool/pool.py).                                *)
(*                                                                         *)
(* Requests are execute() calls; a worker is a WorkerInfo object with its  *)
(* process.  Everything runs on one event loop and the code under _lock    *)
(* never suspends, so the lock is always free when it is asked for: a      *)
(* critical section is one step, and a cancellation can only arrive at the *)
(* suspension points, which are the program counters below.                *)
(***************************************************************************)
EXTENDS Integers, FiniteSets

CONSTANTS
  Request,        \* the execute() calls
  Worker,         \* bound: the WorkerInfo objects that can ever be created
  Size,           \* size: workers spawned by start()
  MaxConcurrent,  \* max_concurrent_per_worker
  MaxTasks,       \* max_tasks_per_worker
  NoWorker,       \* no worker
  MayCrash,       \* whether worker processes may die by themselves
  MayCancel       \* whether execute() may be cancelled while it suspends

ASSUME SizesAssumption ==
  /\ Size \in Nat \ {0}
  /\ MaxConcurrent \in Nat \ {0}
  /\ MaxTasks \in Nat \ {0}

ASSUME SetsAssumption ==
  /\ IsFiniteSet(Request)
  /\ NoWorker \notin Worker
  /\ MayCrash \in BOOLEAN
  /\ MayCancel \in BOOLEAN

VARIABLES
  pool,             \* the global pool: "none", "started", "failed", "stopped"
  workers,          \* _workers (the order only matters for tie-breaking)
  spawned,          \* WorkerInfo objects created so far
  alive,            \* processes whose returncode is None
  active_tasks,     \* per worker
  tasks_completed,  \* per worker
  recycling,        \* workers flagged as being recycled
  tasks_waiting,    \* _tasks_waiting
  pc,               \* where each request is suspended
  on,               \* the worker a request holds or recycles
  fresh,            \* the replacement process a recycler is waiting for
  lost              \* history: workers that crashed, and both workers of a
                    \* recycle that was cancelled

wvars == <<workers, spawned, alive, active_tasks, tasks_completed, recycling>>
rvars == <<pc, on, fresh>>
vars  == <<pool, workers, spawned, alive, active_tasks, tasks_completed,
           recycling, tasks_waiting, pc, on, fresh, lost>>

PCs == {"idle", "waiting", "running", "terminating", "spawning", "done"}

-----------------------------------------------------------------------------
\* get_worker_pool and start(): every spawn may fail; the pool is assigned
\* before start() raises when none succeeded.
StartPool ==
  /\ pool = "none"
  /\ \E S \in SUBSET Worker :
       /\ Cardinality(S) <= Size
       /\ workers' = S
       /\ spawned' = S
       /\ alive' = S
       /\ pool' = IF S = {} THEN "failed" ELSE "started"
  /\ UNCHANGED <<active_tasks, tasks_completed, recycling, tasks_waiting,
                 rvars, lost>>

\* execute() on a pool that is not started raises.
Refuse(r) ==
  /\ pool \in {"failed", "stopped"}
  /\ pc[r] = "idle"
  /\ pc' = [pc EXCEPT ![r] = "done"]
  /\ UNCHANGED <<pool, wvars, tasks_waiting, on, fresh, lost>>

(***************************************************************************)
(* _get_available_worker: the live workers that are not being recycled and *)
(* have capacity; one with the least load is taken (the round-robin index  *)
(* breaks ties, here any of them).                                         *)
(***************************************************************************)
\* Mutant: the capacity test is off by one.
AvailableOverCapacity ==
  {w \in workers : /\ w \in alive
                   /\ w \notin recycling
                   /\ active_tasks[w] <= MaxConcurrent}

\* Mutant: a worker that is being recycled is still selected.
AvailableWhileRecycling ==
  {w \in workers : w \in alive /\ active_tasks[w] < MaxConcurrent}

Available ==
  {w \in workers : /\ w \in alive
                   /\ w \notin recycling
                   /\ active_tasks[w] < MaxConcurrent}

Acquire(r) ==
  /\ pool = "started"
  /\ pc[r] \in {"idle", "waiting"}
  /\ \E w \in Available :
       /\ \A v \in Available : active_tasks[w] <= active_tasks[v]
       /\ active_tasks' = [active_tasks EXCEPT ![w] = @ + 1]
       /\ on' = [on EXCEPT ![r] = w]
  /\ pc' = [pc EXCEPT ![r] = "running"]
  /\ tasks_waiting' = IF pc[r] = "waiting" THEN tasks_waiting - 1
                      ELSE tasks_waiting
  /\ UNCHANGED <<pool, workers, spawned, alive, tasks_completed, recycling,
                 fresh, lost>>

\* The first unsuccessful poll counts the request as waiting.
Wait(r) ==
  /\ pool = "started"
  /\ pc[r] = "idle"
  /\ Available = {}
  /\ pc' = [pc EXCEPT ![r] = "waiting"]
  /\ tasks_waiting' = tasks_waiting + 1
  /\ UNCHANGED <<pool, wvars, on, fresh, lost>>

\* Mutant: the finally block of the acquisition is missing.
StopWaitingLeaksCount(r) ==
  /\ pc[r] = "waiting"
  /\ Available = {} \/ MayCancel
  /\ pc' = [pc EXCEPT ![r] = "done"]
  /\ UNCHANGED <<pool, wvars, tasks_waiting, on, fresh, lost>>

\* Mutant: the deadline starts anew with every poll.
StopWaitingDeadlineReset(r) ==
  /\ pc[r] = "waiting"
  /\ Available = {}
  /\ UNCHANGED vars

\* A waiting request gives up: a poll after the deadline finds no worker, or
\* it is cancelled in its sleep.  The finally block takes it out of the count.
StopWaiting(r) ==
  /\ pc[r] = "waiting"
  /\ Available = {} \/ MayCancel
  /\ pc' = [pc EXCEPT ![r] = "done"]
  /\ tasks_waiting' = tasks_waiting - 1
  /\ UNCHANGED <<pool, wvars, on, fresh, lost>>

(***************************************************************************)
(* The task ends: answered, failed, timed out or cancelled, execute()      *)
(* always releases the worker in its finally block.  An idle worker that   *)
(* reached its task limit is recycled by the releasing request; terminate()*)
(* on a process that is already dead raises ProcessLookupError.            *)
(***************************************************************************)
\* Mutant: the counter is not clamped at zero.
DecrementedUnclamped(n) == n - 1

Decremented(n) == IF n - 1 > 0 THEN n - 1 ELSE 0

\* Mutant: any release at the limit recycles, idle or not.
ShouldRecycleBusy(w) ==
  /\ tasks_completed[w] + 1 >= MaxTasks
  /\ w \notin recycling

ShouldRecycle(w) ==
  /\ tasks_completed[w] + 1 >= MaxTasks
  /\ Decremented(active_tasks[w]) = 0
  /\ w \notin recycling

Release(r) ==
  /\ pc[r] = "running"
  /\ LET w == on[r]
     IN  /\ active_tasks' = [active_tasks EXCEPT ![w] = Decremented(@)]
         /\ tasks_completed' = [tasks_completed EXCEPT ![w] = @ + 1]
         /\ recycling' = IF ShouldRecycle(w) THEN recycling \union {w}
                         ELSE recycling
         /\ pc' = [pc EXCEPT ![r] = IF ShouldRecycle(w) /\ w \in alive
                                    THEN "terminating" ELSE "done"]
  /\ UNCHANGED <<pool, workers, spawned, alive, tasks_waiting, on, fresh,
                 lost>>

(***************************************************************************)
(* _recycle_worker, outside the lock: the old process ends (by SIGTERM or  *)
(* by SIGKILL after the grace period) and a replacement is started ...     *)
(***************************************************************************)
RecycleTerminated(r) ==
  /\ pc[r] = "terminating"
  /\ \E x \in Worker \ spawned :
       /\ spawned' = spawned \union {x}
       /\ alive' = (alive \ {on[r]}) \union {x}
       /\ fresh' = [fresh EXCEPT ![r] = x]
  /\ pc' = [pc EXCEPT ![r] = "spawning"]
  /\ UNCHANGED <<pool, workers, active_tasks, tasks_completed, recycling,
                 tasks_waiting, on, lost>>

\* ... or cannot be started at all, and the worker is removed.
RecycleSpawnError(r) ==
  /\ pc[r] = "terminating"
  /\ alive' = alive \ {on[r]}
  /\ workers' = workers \ {on[r]}
  /\ pc' = [pc EXCEPT ![r] = "done"]
  /\ UNCHANGED <<pool, spawned, active_tasks, tasks_completed, recycling,
                 tasks_waiting, on, fresh, lost>>

\* Mutant: the old worker is removed but its replacement is not entered.
RecycleReplacedLost(r) ==
  /\ pc[r] = "spawning"
  /\ workers' = workers \ {on[r]}
  /\ pc' = [pc EXCEPT ![r] = "done"]
  /\ UNCHANGED <<pool, spawned, alive, active_tasks, tasks_completed,
                 recycling, tasks_waiting, on, fresh, lost>>

\* The socket of the replacement appears: it takes the old worker's place.
RecycleReplaced(r) ==
  /\ pc[r] = "spawning"
  /\ workers' = IF on[r] \in workers
                THEN (workers \ {on[r]}) \union {fresh[r]} ELSE workers
  /\ pc' = [pc EXCEPT ![r] = "done"]
  /\ UNCHANGED <<pool, spawned, alive, active_tasks, tasks_completed,
                 recycling, tasks_waiting, on, fresh, lost>>

\* Mutant: the worker that could not be replaced stays in the list.
RecycleSpawnFailedKeeps(r) ==
  /\ pc[r] = "spawning"
  /\ alive' = alive \ {fresh[r]}
  /\ pc' = [pc EXCEPT ![r] = "done"]
  /\ UNCHANGED <<pool, workers, spawned, active_tasks, tasks_completed,
                 recycling, tasks_waiting, on, fresh, lost>>

\* The replacement dies or is killed at the startup timeout.
RecycleSpawnFailed(r) ==
  /\ pc[r] = "spawning"
  /\ alive' = alive \ {fresh[r]}
  /\ workers' = workers \ {on[r]}
  /\ pc' = [pc EXCEPT ![r] = "done"]
  /\ UNCHANGED <<pool, spawned, active_tasks, tasks_completed, recycling,
                 tasks_waiting, on, fresh, lost>>

(***************************************************************************)
(* Cancelled inside _recycle_worker, which is where a cancellation of      *)
(* _release_worker can arrive: execute() forces a second release, clamped  *)
(* at zero.  SIGTERM has been sent, so the old process may have ended; the *)
(* replacement process, if there is one, is left running.                  *)
(***************************************************************************)
CancelRecycle(r) ==
  /\ MayCancel
  /\ pc[r] \in {"terminating", "spawning"}
  /\ active_tasks' = [active_tasks EXCEPT ![on[r]] = Decremented(@)]
  /\ tasks_completed' = [tasks_completed EXCEPT ![on[r]] = @ + 1]
  /\ alive' \in {alive, alive \ {on[r]}}
  /\ pc' = [pc EXCEPT ![r] = "done"]
  /\ lost' = lost \union {on[r], fresh[r]}
  /\ UNCHANGED <<pool, workers, spawned, recycling, tasks_waiting, on, fresh>>

\* A worker process dies.  Nothing in the pool reacts to it.
Crash(w) ==
  /\ MayCrash
  /\ w \in alive
  /\ alive' = alive \ {w}
  /\ lost' = lost \union {w}
  /\ UNCHANGED <<pool, workers, spawned, active_tasks, tasks_completed,
                 recycling, tasks_waiting, rvars>>

\* shutdown(): called once the Temporal worker has stopped and no execute()
\* is in flight; terminates the processes of the list and clears it.
Shutdown ==
  /\ pool = "started"
  /\ \A r \in Request : pc[r] \in {"idle", "done"}
  /\ alive' = alive \ workers
  /\ workers' = {}
  /\ pool' = "stopped"
  /\ UNCHANGED <<spawned, active_tasks, tasks_completed, recycling,
                 tasks_waiting, rvars, lost>>

-----------------------------------------------------------------------------
Init ==
  /\ pool = "none"
  /\ workers = {}
  /\ spawned = {}
  /\ alive = {}
  /\ active_tasks = [w \in Worker |-> 0]
  /\ tasks_completed = [w \in Worker |-> 0]
  /\ recycling = {}
  /\ tasks_waiting = 0
  /\ pc = [r \in Request |-> "idle"]
  /\ on = [r \in Request |-> NoWorker]
  /\ fresh = [r \in Request |-> NoWorker]
  /\ lost = {}

\* What a request does by itself or is made to do by a timeout.
RequestStep(r) ==
  \/ Refuse(r)
  \/ Acquire(r)
  \/ Wait(r)
  \/ StopWaiting(r)
  \/ Release(r)
  \/ RecycleTerminated(r)
  \/ RecycleSpawnError(r)
  \/ RecycleReplaced(r)
  \/ RecycleSpawnFailed(r)

Quiescent ==
  /\ pool \in {"failed", "stopped"}
  /\ \A r \in Request : pc[r] = "done"
  /\ UNCHANGED vars

Next ==
  \/ StartPool
  \/ \E r \in Request : RequestStep(r) \/ CancelRecycle(r)
  \/ \E w \in Worker : Crash(w)
  \/ Shutdown
  \/ Quiescent

Spec == Init /\ [][Next]_vars

(***************************************************************************)
(* What has a timeout comes to an end: the wait for a worker (30s), the    *)
(* termination (5s) and the start of a worker.  A task has none for two of *)
(* its suspensions: the request is written and the socket is closed        *)
(* (drain() and wait_closed() in _execute_on_worker) for as long as the    *)
(* worker does not read, so nothing makes a running task release.          *)
(***************************************************************************)
FairSpec ==
  /\ Spec
  /\ WF_vars(StartPool)
  /\ \A r \in Request : WF_vars(pc[r] # "running" /\ RequestStep(r))

-----------------------------------------------------------------------------
\* The state keeps its shape.
TypeOK ==
  /\ pool \in {"none", "started", "failed", "stopped"}
  /\ workers \subseteq Worker
  /\ spawned \subseteq Worker
  /\ alive \subseteq Worker
  /\ active_tasks \in [Worker -> Nat]
  /\ tasks_completed \in [Worker -> Nat]
  /\ recycling \subseteq Worker
  /\ tasks_waiting \in Nat
  /\ pc \in [Request -> PCs]
  /\ on \in [Request -> Worker \union {NoWorker}]
  /\ fresh \in [Request -> Worker \union {NoWorker}]
  /\ lost \subseteq Worker \union {NoWorker}

Holders(w) == {r \in Request : pc[r] = "running" /\ on[r] = w}
Waiters    == {r \in Request : pc[r] = "waiting"}
Recyclers(w) == {r \in Request : pc[r] \in {"terminating", "spawning"}
                                  /\ on[r] = w}

\* active_tasks of a worker counts exactly the requests running on it, through
\* every interleaving of acquisitions, releases, forced releases and recycles.
ActiveExact == \A w \in Worker : active_tasks[w] = Cardinality(Holders(w))

\* No worker is given more tasks than its thread pool takes.
WithinCapacity == \A w \in Worker : Cardinality(Holders(w)) <= MaxConcurrent

\* A worker is terminated and replaced by one request only, and never while
\* a task runs on it.
RecycleExclusive ==
  \A r \in Request :
    pc[r] \in {"terminating", "spawning"} =>
      Holders(on[r]) = {} /\ Recyclers(on[r]) = {r}

\* _tasks_waiting counts exactly the requests that wait for a slot.
WaitingExact == tasks_waiting = Cardinality(Waiters)

\* A worker of the list that is flagged as recycling is being recycled by
\* somebody, unless its process crashed or its recycle was cancelled: nothing
\* else makes the pool lose capacity.
RecyclingHasOwner ==
  \A w \in (workers \intersect recycling) \ lost : Recyclers(w) # {}

\* The same without an exception for cancellations (the comment in execute()
\* that a worker is released even if the release is cancelled).
CancelledRecycleHasOwner ==
  \A w \in workers \intersect recycling : Recyclers(w) # {}

\* After shutdown() no worker process is left running, but for the replacement
\* of a recycle that was cancelled: every process the pool has started is in
\* its list, has been stopped or is waited for by the request that started it.
NoOrphanProcess == pool = "stopped" => alive \subseteq lost

(***************************************************************************)
(* The pool seen by its callers: a request holds a slot while its task     *)
(* runs, and the recycling it may do afterwards is its own business.       *)
(***************************************************************************)
Phase(p) ==
  CASE p \in {"idle", "waiting"} -> p
    [] p = "running" -> "holding"
    [] OTHER -> "ended"

Slots == INSTANCE SlotPool WITH
  open    <- pool,
  phase   <- [r \in Request |-> Phase(pc[r])],
  slot    <- [r \in Request |-> IF pc[r] = "running" THEN on[r] ELSE NoWorker],
  retired <- recycling

\* The pool implements SlotPool: whatever crashes, cancellations, failed
\* respawns and second releases happen, a slot is granted below the limit and
\* on a worker that nobody retired, given back once, and a worker is retired
\* only by the request that leaves it idle.
ImplementsSlotPool == Slots!Spec

\* Every execute() call comes to an end, also when other calls never give their
\* slots back, unless it stays with a worker of its own for ever: drain() and
\* wait_closed() have no timeout, and a worker that stops reading holds its task.
RequestsEnd ==
  \A r \in Request : <>(pc[r] = "done") \/ <>[](pc[r] = "running")
=============================================================================
