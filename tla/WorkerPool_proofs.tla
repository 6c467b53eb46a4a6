-------------------------- MODULE WorkerPool_proofs --------------------------
(***************************************************************************)
(* Proofs about the worker pool, for every number of requests and workers, *)
(* every size, capacity and task limit, with crashes and cancellations.    *)
(***************************************************************************)
EXTENDS WorkerPool, FiniteSetTheorems, TLAPS

(***************************************************************************)
(* The inductive invariant.  A request past its acquisition has a worker,  *)
(* a flagged worker is idle, and whoever recycles a worker is the only one *)
(* and has flagged it.                                                     *)
(***************************************************************************)
OnWorker ==
  \A r \in Request :
    /\ pc[r] \in {"running", "terminating", "spawning"} => on[r] \in Worker
    /\ pc[r] = "spawning" => fresh[r] \in Worker

LoadWithinLimit == \A w \in Worker : active_tasks[w] <= MaxConcurrent

RecyclingIdle == \A w \in recycling : active_tasks[w] = 0

RecyclerFlags ==
  \A r \in Request :
    pc[r] \in {"terminating", "spawning"} => on[r] \in recycling

OneRecycler ==
  \A r, q \in Request :
    /\ pc[r] \in {"terminating", "spawning"}
    /\ pc[q] \in {"terminating", "spawning"}
    /\ on[r] = on[q]
    => r = q

IInv ==
  /\ TypeOK
  /\ OnWorker
  /\ ActiveExact
  /\ LoadWithinLimit
  /\ RecyclingIdle
  /\ RecyclerFlags
  /\ OneRecycler
  /\ WaitingExact

-----------------------------------------------------------------------------
(***************************************************************************)
(* The sets that are counted are finite, and change by one element.        *)
(***************************************************************************)

\* The requests that hold a worker, and the ones that wait, are finitely many.
LEMMA HoldersFinite ==
  /\ \A w : IsFiniteSet(Holders(w)) /\ Cardinality(Holders(w)) \in Nat
  /\ IsFiniteSet(Waiters) /\ Cardinality(Waiters) \in Nat
<1>1. ASSUME NEW w PROVE IsFiniteSet(Holders(w))
  <2>1. Holders(w) \in SUBSET Request  BY DEF Holders
  <2>2. QED  BY <2>1, FS_Subset, SetsAssumption
<1>2. IsFiniteSet(Waiters)
  <2>1. Waiters \in SUBSET Request  BY DEF Waiters
  <2>2. QED  BY <2>1, FS_Subset, SetsAssumption
<1>3. QED  BY <1>1, <1>2, FS_CardinalityType

\* An acquisition adds one holder to one worker.
LEMMA HoldersAdd ==
  ASSUME TypeOK, NEW r \in Request, NEW w \in Worker,
         pc[r] \in {"idle", "waiting"},
         pc' = [pc EXCEPT ![r] = "running"],
         on' = [on EXCEPT ![r] = w]
  PROVE  /\ Cardinality(Holders(w)') = Cardinality(Holders(w)) + 1
         /\ \A v \in Worker \ {w} : Holders(v)' = Holders(v)
<1>1. Holders(w)' = Holders(w) \cup {r}  BY DEF TypeOK, Holders
<1>2. r \notin Holders(w)  BY DEF Holders
<1>3. \A v \in Worker \ {w} : Holders(v)' = Holders(v)
  BY DEF TypeOK, Holders
<1>4. QED  BY <1>1, <1>2, <1>3, HoldersFinite, FS_AddElement, ZenonT(60)

\* A release removes one holder from one worker.
LEMMA HoldersRemove ==
  ASSUME TypeOK, NEW r \in Request, pc[r] = "running",
         NEW p \in PCs \ {"running"}, pc' = [pc EXCEPT ![r] = p],
         on' = on
  PROVE  /\ Cardinality(Holders(on[r])') = Cardinality(Holders(on[r])) - 1
         /\ \A v \in Worker \ {on[r]} : Holders(v)' = Holders(v)
         /\ r \in Holders(on[r])
<1>1. Holders(on[r])' = Holders(on[r]) \ {r}  BY DEF TypeOK, Holders
<1>2. r \in Holders(on[r])  BY DEF Holders
<1>3. \A v \in Worker \ {on[r]} : Holders(v)' = Holders(v)
  BY DEF TypeOK, Holders
<1>4. QED  BY <1>1, <1>2, <1>3, HoldersFinite, FS_RemoveElement

\* A request that neither held a worker nor gets one disturbs no holder.
LEMMA HoldersSame ==
  ASSUME TypeOK, NEW r \in Request, pc[r] # "running",
         NEW p \in PCs \ {"running"}, pc' = [pc EXCEPT ![r] = p],
         on' = on
  PROVE  \A v \in Worker : Holders(v)' = Holders(v)
BY DEF TypeOK, Holders

\* The waiting requests change by the one that moves.
LEMMA WaitersMove ==
  ASSUME TypeOK, NEW r \in Request, NEW p \in PCs,
         pc' = [pc EXCEPT ![r] = p]
  PROVE  /\ pc[r] # "waiting" /\ p = "waiting" =>
              Cardinality(Waiters') = Cardinality(Waiters) + 1
         /\ pc[r] = "waiting" /\ p # "waiting" =>
              Cardinality(Waiters') = Cardinality(Waiters) - 1
         /\ (pc[r] = "waiting") = (p = "waiting") => Waiters' = Waiters
<1>1. CASE pc[r] # "waiting" /\ p = "waiting"
  <2>1. Waiters' = Waiters \cup {r}  BY <1>1 DEF TypeOK, Waiters
  <2>2. r \notin Waiters  BY <1>1 DEF Waiters
  <2>3. QED  BY <1>1, <2>1, <2>2, HoldersFinite, FS_AddElement
<1>2. CASE pc[r] = "waiting" /\ p # "waiting"
  <2>1. Waiters' = Waiters \ {r}  BY <1>2 DEF TypeOK, Waiters
  <2>2. r \in Waiters  BY <1>2 DEF Waiters
  <2>3. QED  BY <1>2, <2>1, <2>2, HoldersFinite, FS_RemoveElement
<1>3. CASE (pc[r] = "waiting") = (p = "waiting")
  BY <1>3 DEF TypeOK, Waiters
<1>4. QED  BY <1>1, <1>2, <1>3

-----------------------------------------------------------------------------
\* The invariant holds before the pool is started.
LEMMA InitIInv == Init => IInv
<1> SUFFICES ASSUME Init PROVE IInv  OBVIOUS
<1>1. TypeOK  BY DEF Init, TypeOK, PCs
<1>2. \A w \in Worker : Holders(w) = {}  BY DEF Init, Holders
<1>3. Waiters = {}  BY DEF Init, Waiters
<1>4. ActiveExact  BY <1>2, FS_EmptySet DEF Init, ActiveExact
<1>5. WaitingExact  BY <1>3, FS_EmptySet DEF Init, WaitingExact
<1>6. LoadWithinLimit  BY SizesAssumption DEF Init, LoadWithinLimit
<1>7. OnWorker /\ RecyclingIdle /\ RecyclerFlags /\ OneRecycler
  BY DEF Init, OnWorker, RecyclingIdle, RecyclerFlags, OneRecycler
<1>8. QED  BY <1>1, <1>4, <1>5, <1>6, <1>7 DEF IInv

\* Steps that move no request and touch no counter: start, crash, shutdown.
LEMMA PoolStepIInv ==
  ASSUME IInv, StartPool \/ Shutdown \/ (\E w \in Worker : Crash(w))
  PROVE  IInv'
<1>1. UNCHANGED <<active_tasks, tasks_completed, recycling, tasks_waiting,
                  pc, on, fresh>>
  BY DEF StartPool, Shutdown, Crash, rvars
<1>2. TypeOK'  BY <1>1 DEF IInv, TypeOK, StartPool, Shutdown, Crash
<1>3. ActiveExact' /\ WaitingExact'
  BY <1>1 DEF IInv, ActiveExact, WaitingExact, Holders, Waiters
<1>4. OnWorker' /\ LoadWithinLimit' /\ RecyclingIdle' /\ RecyclerFlags'
      /\ OneRecycler'
  BY <1>1 DEF IInv, OnWorker, LoadWithinLimit, RecyclingIdle, RecyclerFlags,
              OneRecycler
<1>5. QED  BY <1>2, <1>3, <1>4 DEF IInv

\* A request takes a slot: the worker is not flagged and below its limit.
LEMMA AcquireIInv ==
  ASSUME IInv, NEW r \in Request, Acquire(r)
  PROVE  IInv'
<1>1. PICK w \in Available :
        /\ active_tasks' = [active_tasks EXCEPT ![w] = @ + 1]
        /\ on' = [on EXCEPT ![r] = w]
  BY DEF Acquire
<1>2. w \in Worker /\ w \notin recycling /\ active_tasks[w] < MaxConcurrent
  BY <1>1 DEF Available, IInv, TypeOK
<1>3. /\ pc[r] \in {"idle", "waiting"}
      /\ pc' = [pc EXCEPT ![r] = "running"]
      /\ recycling' = recycling /\ fresh' = fresh
  BY DEF Acquire
<1>4. TypeOK  BY DEF IInv
<1>5. TypeOK'
  <2>1. tasks_waiting' \in Nat
    <3>1. CASE pc[r] = "waiting"
      <4>1. r \in Waiters  BY <3>1 DEF Waiters
      <4>2. Waiters # {}  BY <4>1
      <4>3. tasks_waiting # 0
        BY <4>2, HoldersFinite, FS_EmptySet DEF IInv, WaitingExact
      <4>4. QED  BY <3>1, <4>3, <1>4 DEF Acquire, TypeOK
    <3>2. CASE pc[r] # "waiting"  BY <3>2, <1>4 DEF Acquire, TypeOK
    <3>3. QED  BY <3>1, <3>2
  <2>2. QED  BY <1>1, <1>2, <1>3, <1>4, <2>1 DEF TypeOK, Acquire, PCs
<1>6. ActiveExact'
  <2>1. /\ Cardinality(Holders(w)') = Cardinality(Holders(w)) + 1
        /\ \A v \in Worker \ {w} : Holders(v)' = Holders(v)
    BY <1>1, <1>2, <1>3, <1>4, HoldersAdd
  <2>2. ASSUME NEW v \in Worker
        PROVE  active_tasks'[v] = Cardinality(Holders(v)')
    BY <1>1, <1>2, <1>4, <2>1 DEF IInv, ActiveExact, TypeOK
  <2>3. QED  BY <2>2 DEF ActiveExact
<1>7. LoadWithinLimit'
  BY <1>1, <1>2, <1>4, SizesAssumption DEF IInv, LoadWithinLimit, TypeOK
<1>8. RecyclingIdle'
  BY <1>1, <1>2, <1>3, <1>4 DEF IInv, RecyclingIdle, TypeOK
<1>9. OnWorker'
  BY <1>1, <1>2, <1>3, <1>4 DEF IInv, OnWorker, TypeOK
<1>10. RecyclerFlags' /\ OneRecycler'
  BY <1>1, <1>3, <1>4 DEF IInv, RecyclerFlags, OneRecycler, TypeOK
<1>11. WaitingExact'
  <2>1. "running" \in PCs  BY DEF PCs
  <2>2. /\ pc[r] = "waiting" => Cardinality(Waiters') = Cardinality(Waiters) - 1
        /\ pc[r] # "waiting" => Waiters' = Waiters
    BY <1>3, <1>4, <2>1, WaitersMove
  <2>3. QED  BY <2>2 DEF Acquire, IInv, WaitingExact
<1>12. QED  BY <1>5, <1>6, <1>7, <1>8, <1>9, <1>10, <1>11 DEF IInv

\* A task ends: its worker was not flagged, so a recycle starts only with the
\* last holder and has one owner.
LEMMA ReleaseIInv ==
  ASSUME IInv, NEW r \in Request, Release(r)
  PROVE  IInv'
<1> DEFINE w == on[r]
           rec == ShouldRecycle(w)
           p == IF rec /\ w \in alive THEN "terminating" ELSE "done"
<1>1. /\ pc[r] = "running"
      /\ active_tasks' = [active_tasks EXCEPT ![w] = Decremented(@)]
      /\ tasks_completed' = [tasks_completed EXCEPT ![w] = @ + 1]
      /\ recycling' = IF rec THEN recycling \union {w} ELSE recycling
      /\ pc' = [pc EXCEPT ![r] = p]
      /\ UNCHANGED <<pool, workers, spawned, alive, tasks_waiting, on, fresh,
                     lost>>
  BY DEF Release
<1>2. w \in Worker  BY <1>1 DEF IInv, OnWorker
<1>3. p \in PCs \ {"running"} /\ p # "waiting"  BY DEF PCs
<1>4. TypeOK  BY DEF IInv
<1> HIDE DEF p
<1>5. /\ Cardinality(Holders(w)') = Cardinality(Holders(w)) - 1
      /\ \A v \in Worker \ {w} : Holders(v)' = Holders(v)
      /\ r \in Holders(w)
  BY <1>1, <1>3, <1>4, HoldersRemove
<1>6. active_tasks[w] \in Nat /\ active_tasks[w] # 0
  <2>1. Holders(w) # {}  BY <1>5
  <2>2. QED  BY <1>2, <1>4, <2>1, HoldersFinite, FS_EmptySet
             DEF IInv, ActiveExact, TypeOK
<1>7. Decremented(active_tasks[w]) = active_tasks[w] - 1
  BY <1>6 DEF Decremented
<1>8. w \notin recycling  BY <1>6 DEF IInv, RecyclingIdle
<1>9. TypeOK'
  <2>1. Decremented(active_tasks[w]) \in Nat  BY <1>6, <1>7
  <2>2. QED  BY <1>1, <1>2, <1>3, <1>4, <2>1 DEF TypeOK
<1>10. ActiveExact'
  <2>1. ASSUME NEW v \in Worker
        PROVE  active_tasks'[v] = Cardinality(Holders(v)')
    BY <1>1, <1>2, <1>4, <1>5, <1>7 DEF IInv, ActiveExact, TypeOK
  <2>2. QED  BY <2>1 DEF ActiveExact
<1>11. LoadWithinLimit'
  BY <1>1, <1>2, <1>4, <1>6, <1>7, SizesAssumption
     DEF IInv, LoadWithinLimit, TypeOK
<1>12. RecyclingIdle'
  <2>1. rec => active_tasks'[w] = 0
    BY <1>1, <1>2, <1>4, <1>7 DEF ShouldRecycle, TypeOK
  <2>2. QED  BY <1>1, <1>2, <1>4, <1>8, <2>1 DEF IInv, RecyclingIdle, TypeOK
<1>13. OnWorker'
  BY <1>1, <1>2, <1>3, <1>4 DEF IInv, OnWorker, TypeOK, p
<1>14. p = "terminating" => rec  BY DEF p
<1>15. p \in {"terminating", "done"}  BY DEF p
<1>16. RecyclerFlags'
  BY <1>1, <1>4, <1>14, <1>15 DEF IInv, RecyclerFlags, TypeOK
<1>17. OneRecycler'
  BY <1>1, <1>4, <1>8, <1>15 DEF IInv, OneRecycler, RecyclerFlags, TypeOK
<1>18. WaitingExact'
  <2>1. Waiters' = Waiters  BY <1>1, <1>3, <1>4, WaitersMove
  <2>2. QED  BY <1>1, <2>1 DEF IInv, WaitingExact
<1>19. QED
  BY <1>9, <1>10, <1>11, <1>12, <1>13, <1>16, <1>17, <1>18 DEF IInv

\* A waiting request is counted: the counter is positive when one leaves.
LEMMA WaitingPositive ==
  ASSUME IInv, NEW r \in Request, pc[r] = "waiting"
  PROVE  tasks_waiting - 1 \in Nat
<1>1. Waiters # {}  BY DEF Waiters
<1>2. QED
  BY <1>1, HoldersFinite, FS_EmptySet DEF IInv, WaitingExact, TypeOK

\* Refusals and waiting: only the position of the request and the counter of
\* waiting requests change.
LEMMA QueueingIInv ==
  ASSUME IInv, NEW r \in Request, Refuse(r) \/ Wait(r) \/ StopWaiting(r)
  PROVE  IInv'
<1>1. PICK p \in {"waiting", "done"} :
        /\ pc' = [pc EXCEPT ![r] = p]
        /\ pc[r] = "idle" /\ p = "waiting" =>
             tasks_waiting' = tasks_waiting + 1
        /\ pc[r] = "waiting" => p = "done" /\ tasks_waiting' = tasks_waiting - 1
        /\ pc[r] = "idle" /\ p = "done" => tasks_waiting' = tasks_waiting
  BY DEF Refuse, Wait, StopWaiting
<1>2. pc[r] \in {"idle", "waiting"}  BY DEF Refuse, Wait, StopWaiting
<1>3. UNCHANGED <<pool, workers, spawned, alive, active_tasks,
                  tasks_completed, recycling, on, fresh, lost>>
  BY DEF Refuse, Wait, StopWaiting, wvars
<1>4. TypeOK /\ p \in PCs \ {"running"}  BY <1>1 DEF IInv, PCs
<1>5. TypeOK'
  <2>1. tasks_waiting' \in Nat
    BY <1>1, <1>2, <1>4, WaitingPositive DEF TypeOK
  <2>2. QED  BY <1>1, <1>3, <1>4, <2>1 DEF TypeOK
<1>6. ActiveExact'
  <2>1. \A v \in Worker : Holders(v)' = Holders(v)
    BY <1>1, <1>2, <1>3, <1>4, HoldersSame
  <2>2. QED  BY <1>3, <2>1 DEF IInv, ActiveExact
<1>7. LoadWithinLimit' /\ RecyclingIdle'
  BY <1>3 DEF IInv, LoadWithinLimit, RecyclingIdle
<1>8. OnWorker' /\ RecyclerFlags' /\ OneRecycler'
  BY <1>1, <1>3, <1>4 DEF IInv, OnWorker, RecyclerFlags, OneRecycler, TypeOK
<1>9. WaitingExact'
  <2>1. /\ pc[r] # "waiting" /\ p = "waiting" =>
             Cardinality(Waiters') = Cardinality(Waiters) + 1
        /\ pc[r] = "waiting" /\ p # "waiting" =>
             Cardinality(Waiters') = Cardinality(Waiters) - 1
        /\ (pc[r] = "waiting") = (p = "waiting") => Waiters' = Waiters
    BY <1>1, <1>4, WaitersMove
  <2>2. QED  BY <1>1, <1>2, <2>1 DEF IInv, WaitingExact
<1>10. QED  BY <1>5, <1>6, <1>7, <1>8, <1>9 DEF IInv

\* The steps of a recycler: its worker is flagged, hence idle, and stays so;
\* the forced release of a cancelled recycler is absorbed by the clamp.
LEMMA RecycleIInv ==
  ASSUME IInv, NEW r \in Request,
         \/ RecycleTerminated(r) \/ RecycleSpawnError(r)
         \/ RecycleReplaced(r) \/ RecycleSpawnFailed(r) \/ CancelRecycle(r)
  PROVE  IInv'
<1>1. PICK p \in {"spawning", "done"} : pc' = [pc EXCEPT ![r] = p]
  BY DEF RecycleTerminated, RecycleSpawnError, RecycleReplaced,
         RecycleSpawnFailed, CancelRecycle
<1>2. pc[r] \in {"terminating", "spawning"}
  BY DEF RecycleTerminated, RecycleSpawnError, RecycleReplaced,
         RecycleSpawnFailed, CancelRecycle
<1>3. UNCHANGED <<pool, recycling, tasks_waiting, on>>
  BY DEF RecycleTerminated, RecycleSpawnError, RecycleReplaced,
         RecycleSpawnFailed, CancelRecycle
<1>4. TypeOK /\ p \in PCs \ {"running"} /\ p # "waiting"
  BY <1>1 DEF IInv, PCs
<1>5. on[r] \in Worker /\ on[r] \in recycling
  BY <1>2 DEF IInv, OnWorker, RecyclerFlags
<1>6. active_tasks' = active_tasks
  <2>1. CASE CancelRecycle(r)
    <3>1. active_tasks[on[r]] = 0  BY <1>5 DEF IInv, RecyclingIdle
    <3>2. Decremented(active_tasks[on[r]]) = 0  BY <3>1 DEF Decremented
    <3>3. QED  BY <1>4, <1>5, <2>1, <3>1, <3>2 DEF CancelRecycle, TypeOK
  <2>2. CASE ~ CancelRecycle(r)
    BY <2>2 DEF RecycleTerminated, RecycleSpawnError, RecycleReplaced,
                RecycleSpawnFailed
  <2>3. QED  BY <2>1, <2>2
<1>7. /\ fresh' \in [Request -> Worker \union {NoWorker}]
      /\ \A q \in Request : q # r => fresh'[q] = fresh[q]
      /\ p = "spawning" => fresh'[r] \in Worker
  <2>1. CASE RecycleTerminated(r)
    BY <1>4, <2>1 DEF RecycleTerminated, TypeOK
  <2>2. CASE ~ RecycleTerminated(r)
    <3>1. fresh' = fresh /\ pc'[r] = "done"
      BY <1>4, <2>2 DEF RecycleSpawnError, RecycleReplaced,
                        RecycleSpawnFailed, CancelRecycle, TypeOK
    <3>2. QED  BY <1>1, <1>4, <3>1 DEF TypeOK
  <2>3. QED  BY <2>1, <2>2
<1>8. TypeOK'
  <2>1. workers' \subseteq Worker
    BY <1>4, <1>5
       DEF RecycleTerminated, RecycleSpawnError, RecycleReplaced,
           RecycleSpawnFailed, CancelRecycle, TypeOK, IInv, OnWorker
  <2>2. spawned' \subseteq Worker /\ alive' \subseteq Worker
    BY <1>4
       DEF RecycleTerminated, RecycleSpawnError, RecycleReplaced,
           RecycleSpawnFailed, CancelRecycle, TypeOK
  <2>3. tasks_completed' \in [Worker -> Nat]
    BY <1>4, <1>5
       DEF RecycleTerminated, RecycleSpawnError, RecycleReplaced,
           RecycleSpawnFailed, CancelRecycle, TypeOK
  <2>4. lost' \subseteq Worker \union {NoWorker}
    BY <1>4
       DEF RecycleTerminated, RecycleSpawnError, RecycleReplaced,
           RecycleSpawnFailed, CancelRecycle, TypeOK
  <2>5. QED
    BY <1>1, <1>3, <1>4, <1>6, <1>7, <2>1, <2>2, <2>3, <2>4 DEF TypeOK
<1>9. ActiveExact'
  <2>1. \A v \in Worker : Holders(v)' = Holders(v)
    BY <1>1, <1>2, <1>3, <1>4, HoldersSame
  <2>2. QED  BY <1>6, <2>1 DEF IInv, ActiveExact
<1>10. LoadWithinLimit' /\ RecyclingIdle'
  BY <1>3, <1>6 DEF IInv, LoadWithinLimit, RecyclingIdle
<1>11. OnWorker'
  BY <1>1, <1>3, <1>4, <1>5, <1>7 DEF IInv, OnWorker, TypeOK
<1>12. RecyclerFlags' /\ OneRecycler'
  BY <1>1, <1>2, <1>3, <1>4 DEF IInv, RecyclerFlags, OneRecycler, TypeOK
<1>13. WaitingExact'
  <2>1. Waiters' = Waiters  BY <1>1, <1>2, <1>4, WaitersMove
  <2>2. QED  BY <1>3, <2>1 DEF IInv, WaitingExact
<1>14. QED
  BY <1>8, <1>9, <1>10, <1>11, <1>12, <1>13 DEF IInv

\* A stuttering step preserves the invariant.
LEMMA StutterIInv ==
  ASSUME IInv, UNCHANGED vars
  PROVE  IInv'
BY DEF IInv, vars, TypeOK, OnWorker, ActiveExact, LoadWithinLimit,
       RecyclingIdle, RecyclerFlags, OneRecycler, WaitingExact, Holders,
       Waiters

\* Every step preserves the invariant.
LEMMA NextIInv ==
  ASSUME IInv, [Next]_vars
  PROVE  IInv'
<1>1. CASE StartPool \/ Shutdown \/ (\E w \in Worker : Crash(w))
  BY <1>1, PoolStepIInv
<1>2. ASSUME NEW r \in Request, RequestStep(r) \/ CancelRecycle(r)
      PROVE  IInv'
  BY <1>2, AcquireIInv, ReleaseIInv, QueueingIInv, RecycleIInv
     DEF RequestStep
<1>3. CASE Quiescent \/ UNCHANGED vars
  BY <1>3, StutterIInv DEF Quiescent
<1>4. QED  BY <1>1, <1>2, <1>3 DEF Next

\* What the invariant says about capacity and recycling.
LEMMA IInvImplies ==
  ASSUME IInv
  PROVE  WithinCapacity /\ RecycleExclusive
<1>1. WithinCapacity
  BY DEF IInv, LoadWithinLimit, ActiveExact, WithinCapacity
<1>2. ASSUME NEW r \in Request, pc[r] \in {"terminating", "spawning"}
      PROVE  Holders(on[r]) = {} /\ Recyclers(on[r]) = {r}
  <2>1. on[r] \in Worker /\ active_tasks[on[r]] = 0
    BY <1>2 DEF IInv, OnWorker, RecyclerFlags, RecyclingIdle
  <2>2. Cardinality(Holders(on[r])) = 0  BY <2>1 DEF IInv, ActiveExact
  <2>3. Holders(on[r]) = {}  BY <2>2, HoldersFinite, FS_EmptySet
  <2>4. Recyclers(on[r]) = {r}  BY <1>2 DEF IInv, OneRecycler, Recyclers
  <2>5. QED  BY <2>3, <2>4
<1>3. QED  BY <1>1, <1>2 DEF RecycleExclusive

-----------------------------------------------------------------------------
\* The inductive invariant holds in every reachable state of the pool.
THEOREM PoolInvariant == Spec => []IInv
BY InitIInv, NextIInv, PTL DEF Spec

\* The fields of WorkerInfo and the counters of the pool keep their types; in
\* particular no counter ever becomes negative.
THEOREM PoolTypeCorrect == Spec => []TypeOK
<1>1. IInv => TypeOK  BY DEF IInv
<1>2. QED  BY <1>1, PoolInvariant, PTL

\* active_tasks and _tasks_waiting count exactly the requests that run on the
\* worker, respectively wait, whatever is cancelled or crashes.
THEOREM PoolCountersExact == Spec => [](ActiveExact /\ WaitingExact)
<1>1. IInv => ActiveExact /\ WaitingExact  BY DEF IInv
<1>2. QED  BY <1>1, PoolInvariant, PTL

\* _tasks_waiting is the number of waiting requests, whichever of them gives
\* up, is cancelled or gets a slot.
THEOREM PoolWaitingExact == Spec => []WaitingExact
<1>1. IInv => WaitingExact  BY DEF IInv
<1>2. QED  BY <1>1, PoolInvariant, PTL

\* No worker runs more than max_concurrent_per_worker tasks.
THEOREM PoolWithinCapacity == Spec => []WithinCapacity
<1>1. IInv => WithinCapacity  BY IInvImplies
<1>2. QED  BY <1>1, PoolInvariant, PTL

\* _recycle_worker never terminates a worker with a task on it, and a worker
\* is recycled by one request at a time.
THEOREM PoolRecycleExclusive == Spec => []RecycleExclusive
<1>1. IInv => RecycleExclusive  BY IInvImplies
<1>2. QED  BY <1>1, PoolInvariant, PTL

-----------------------------------------------------------------------------
(***************************************************************************)
(* The worker pool implements SlotPool, and loses capacity or processes    *)
(* only to crashes and cancelled recycles: proofs for every number of      *)
(* requests and workers, every size, capacity and task limit.              *)
(***************************************************************************)

\* SlotPool counts with the same operator.
LEMMA SameCardinality == \A S : Slots!Cardinality(S) = Cardinality(S)
BY DEF Cardinality, Slots!Cardinality

\* The users of a slot are the requests that run on the worker.
LEMMA UsersAreHolders ==
  ASSUME TypeOK
  PROVE  \A w \in Worker : Slots!Users(w) = Holders(w)
BY DEF Slots!Users, Holders, Phase

\* The pool starts as SlotPool does.
LEMMA SlotsInit == Init => Slots!Init
BY DEF Init, Slots!Init, Phase

\* Start, crash and shutdown.
LEMMA PoolStepSlots ==
  ASSUME IInv, StartPool \/ Shutdown \/ (\E w \in Worker : Crash(w))
  PROVE  Slots!Next \/ UNCHANGED Slots!svars
<1>1. UNCHANGED <<recycling, pc, on>>
  BY DEF StartPool, Shutdown, Crash, rvars
<1>2. CASE StartPool
  <2>1. Slots!Open  BY <1>1, <1>2 DEF StartPool, Slots!Open
  <2>2. QED  BY <2>1 DEF Slots!Next
<1>3. CASE Shutdown
  <2>1. Slots!Close  BY <1>1, <1>3 DEF Shutdown, Slots!Close, Phase
  <2>2. QED  BY <2>1 DEF Slots!Next
<1>4. CASE \E w \in Worker : Crash(w)
  BY <1>1, <1>4 DEF Crash, Slots!svars
<1>5. QED  BY <1>2, <1>3, <1>4

\* A slot is granted on a worker that is not retired and has one to give.
LEMMA AcquireSlots ==
  ASSUME IInv, NEW r \in Request, Acquire(r)
  PROVE  Slots!Next
<1>1. PICK w \in Available : on' = [on EXCEPT ![r] = w]
  BY DEF Acquire
<1>2. w \in Worker /\ w \notin recycling /\ active_tasks[w] < MaxConcurrent
  BY <1>1 DEF Available, IInv, TypeOK
<1>3. Slots!Cardinality(Slots!Users(w)) < MaxConcurrent
  BY <1>2, UsersAreHolders, SameCardinality DEF IInv, ActiveExact
<1>4. TypeOK  BY DEF IInv
<1>5. /\ pool = "started" /\ pc[r] \in {"idle", "waiting"}
      /\ pc' = [pc EXCEPT ![r] = "running"]
      /\ pool' = pool /\ recycling' = recycling
  BY DEF Acquire
<1>6. Slots!Grant(r, w)
  <2>1. [q \in Request |-> Phase(pc'[q])]
          = [[q \in Request |-> Phase(pc[q])] EXCEPT ![r] = "holding"]
    BY <1>4, <1>5 DEF Phase, TypeOK
  <2>2. [q \in Request |-> IF pc'[q] = "running" THEN on'[q] ELSE NoWorker]
          = [[q \in Request |-> IF pc[q] = "running" THEN on[q] ELSE NoWorker]
              EXCEPT ![r] = w]
    BY <1>1, <1>4, <1>5 DEF TypeOK
  <2>3. [q \in Request |-> Phase(pc[q])][r] \in {"idle", "waiting"}
    BY <1>5 DEF Phase
  <2>4. QED  BY <1>2, <1>3, <1>5, <2>1, <2>2, <2>3 DEF Slots!Grant
<1>7. QED  BY <1>2, <1>6 DEF Slots!Next

\* A slot is given back, and the worker is retired only by its last user.
LEMMA ReleaseSlots ==
  ASSUME IInv, NEW r \in Request, Release(r)
  PROVE  Slots!Next
<1> DEFINE w == on[r]
           p == IF ShouldRecycle(w) /\ w \in alive THEN "terminating"
                ELSE "done"
<1>1. /\ pc[r] = "running" /\ pc' = [pc EXCEPT ![r] = p]
      /\ recycling' = IF ShouldRecycle(w) THEN recycling \union {w}
                      ELSE recycling
      /\ pool' = pool /\ on' = on
  BY DEF Release
<1>2. TypeOK /\ w \in Worker  BY <1>1 DEF IInv, OnWorker
<1>3. r \in Holders(w) /\ IsFiniteSet(Holders(w))
  BY <1>1, HoldersFinite DEF Holders
<1>4. ShouldRecycle(w) => Slots!Users(w) = {r}
  <2>1. SUFFICES ASSUME ShouldRecycle(w) PROVE Holders(w) = {r}
    BY <1>2, UsersAreHolders
  <2>2. Decremented(active_tasks[w]) = 0 /\ active_tasks[w] \in Nat
    BY <1>2, <2>1 DEF ShouldRecycle, TypeOK
  <2>3. active_tasks[w] <= 1  BY <2>2 DEF Decremented
  <2>4. Cardinality(Holders(w)) <= 1
    BY <1>2, <2>3 DEF IInv, ActiveExact
  <2>5. Cardinality(Holders(w) \ {r}) = Cardinality(Holders(w)) - 1
        /\ IsFiniteSet(Holders(w) \ {r})
    BY <1>3, FS_RemoveElement
  <2>6. Cardinality(Holders(w) \ {r}) \in Nat
    BY <2>5, FS_CardinalityType
  <2>7. Cardinality(Holders(w) \ {r}) = 0
    BY <2>4, <2>5, <2>6, HoldersFinite
  <2>8. Holders(w) \ {r} = {}  BY <2>5, <2>7, FS_EmptySet
  <2>9. QED  BY <1>3, <2>8
<1>5. p \in {"terminating", "done"}  OBVIOUS
<1> HIDE DEF p
<1>6. Slots!GiveBack(r)
  <2>1. [q \in Request |-> Phase(pc'[q])]
          = [[q \in Request |-> Phase(pc[q])] EXCEPT ![r] = "ended"]
    BY <1>1, <1>2, <1>5 DEF Phase, TypeOK
  <2>2. [q \in Request |-> IF pc'[q] = "running" THEN on'[q] ELSE NoWorker]
          = [[q \in Request |-> IF pc[q] = "running" THEN on[q] ELSE NoWorker]
              EXCEPT ![r] = NoWorker]
    BY <1>1, <1>2, <1>5 DEF TypeOK
  <2>3. [q \in Request |-> Phase(pc[q])][r] = "holding"
        /\ [q \in Request |-> IF pc[q] = "running" THEN on[q]
                              ELSE NoWorker][r] = w
    BY <1>1 DEF Phase
  <2>4. QED  BY <1>1, <1>4, <2>1, <2>2, <2>3 DEF Slots!GiveBack
<1>7. QED  BY <1>6 DEF Slots!Next

\* Refusals, waiting and giving up.
LEMMA QueueingSlots ==
  ASSUME IInv, NEW r \in Request, Refuse(r) \/ Wait(r) \/ StopWaiting(r)
  PROVE  Slots!Next
<1>1. TypeOK  BY DEF IInv
<1>2. CASE Refuse(r) \/ StopWaiting(r)
  <2>1. Slots!TurnAway(r)
    BY <1>1, <1>2
       DEF Refuse, StopWaiting, Slots!TurnAway, Phase, TypeOK, wvars
  <2>2. QED  BY <2>1 DEF Slots!Next
<1>3. CASE Wait(r)
  <2>1. Slots!Queue(r)
    BY <1>1, <1>3 DEF Wait, Slots!Queue, Phase, TypeOK, wvars
  <2>2. QED  BY <2>1 DEF Slots!Next
<1>4. QED  BY <1>2, <1>3

\* What a recycler does after its release is not visible.
LEMMA RecycleSlots ==
  ASSUME IInv, NEW r \in Request,
         \/ RecycleTerminated(r) \/ RecycleSpawnError(r)
         \/ RecycleReplaced(r) \/ RecycleSpawnFailed(r) \/ CancelRecycle(r)
  PROVE  UNCHANGED Slots!svars
<1>1. /\ pc[r] \in {"terminating", "spawning"}
      /\ UNCHANGED <<pool, recycling, on>>
      /\ \E p \in {"spawning", "done"} : pc' = [pc EXCEPT ![r] = p]
  BY DEF RecycleTerminated, RecycleSpawnError, RecycleReplaced,
         RecycleSpawnFailed, CancelRecycle
<1>2. QED  BY <1>1 DEF Slots!svars, Phase, IInv, TypeOK

\* Every step of the pool is a step of SlotPool or leaves its view unchanged.
LEMMA SlotsNext ==
  ASSUME IInv, [Next]_vars
  PROVE  [Slots!Next]_Slots!svars
<1>1. CASE StartPool \/ Shutdown \/ (\E w \in Worker : Crash(w))
  BY <1>1, PoolStepSlots
<1>2. ASSUME NEW r \in Request, RequestStep(r) \/ CancelRecycle(r)
      PROVE  Slots!Next \/ UNCHANGED Slots!svars
  BY <1>2, AcquireSlots, ReleaseSlots, QueueingSlots, RecycleSlots
     DEF RequestStep
<1>3. CASE Quiescent \/ UNCHANGED vars
  BY <1>3 DEF Quiescent, vars, Slots!svars
<1>4. QED  BY <1>1, <1>2, <1>3 DEF Next

\* The pool implements SlotPool: slots are granted below the limit and on
\* workers nobody has retired, given back once, and a worker is retired only
\* by the request that leaves it idle, whatever crashes or is cancelled.
THEOREM PoolImplementsSlots == Spec => ImplementsSlotPool
BY SlotsInit, SlotsNext, PoolInvariant, PTL
   DEF Spec, ImplementsSlotPool, Slots!Spec

-----------------------------------------------------------------------------
(***************************************************************************)
(* What the pool can lose.  The invariant follows every process: it is in  *)
(* the list, awaited by the recycler that started it, or lost.             *)
(***************************************************************************)
Busy == {"running", "terminating", "spawning"}

OpenOnlyBusy == pool # "started" => \A r \in Request : pc[r] \in {"idle", "done"}

ListOfOpenPool ==
  /\ pool = "stopped" => workers = {}
  /\ pool = "none" => recycling = {}

Known ==
  /\ workers \subseteq spawned
  /\ recycling \subseteq spawned
  /\ alive \subseteq spawned

BusyInList == \A r \in Request : pc[r] \in Busy => on[r] \in workers

Replacements ==
  \A r \in Request :
    pc[r] = "spawning" =>
      /\ on[r] \notin alive
      /\ fresh[r] \in spawned
      /\ fresh[r] \notin workers \union recycling
      /\ fresh[r] \in alive \union lost
      /\ \A q \in Request : pc[q] = "spawning" /\ fresh[q] = fresh[r] => q = r

ListedAlive ==
  \A w \in workers \ lost :
    w \in alive \/ \E r \in Request : pc[r] = "spawning" /\ on[r] = w

ProcessesOwned ==
  \A w \in alive \ lost :
    w \in workers \/ \E r \in Request : pc[r] = "spawning" /\ fresh[r] = w

LossInv ==
  /\ OpenOnlyBusy
  /\ ListOfOpenPool
  /\ Known
  /\ BusyInList
  /\ Replacements
  /\ ListedAlive
  /\ ProcessesOwned
  /\ RecyclingHasOwner

\* An empty pool has lost nothing.
LEMMA InitLoss == Init => LossInv
BY DEF Init, LossInv, OpenOnlyBusy, ListOfOpenPool, Known, BusyInList, Busy,
       Replacements, ListedAlive, ProcessesOwned, RecyclingHasOwner

\* Start, crash and shutdown.
LEMMA PoolStepLoss ==
  ASSUME IInv, LossInv,
         StartPool \/ Shutdown \/ (\E w \in Worker : Crash(w))
  PROVE  LossInv'
<1>1. UNCHANGED <<recycling, pc, on, fresh>>
  BY DEF StartPool, Shutdown, Crash, rvars
<1>2. CASE StartPool
  <2>1. PICK S \in SUBSET Worker :
          /\ workers' = S /\ spawned' = S /\ alive' = S
          /\ pool' = IF S = {} THEN "failed" ELSE "started"
    BY <1>2 DEF StartPool
  <2>2. /\ \A r \in Request : pc[r] \in {"idle", "done"}
        /\ recycling = {} /\ lost' = lost
    BY <1>2 DEF StartPool, LossInv, OpenOnlyBusy, ListOfOpenPool
  <2>3. QED
    BY <1>1, <2>1, <2>2
       DEF LossInv, OpenOnlyBusy, ListOfOpenPool, Known, BusyInList, Busy,
           Replacements, ListedAlive, ProcessesOwned, RecyclingHasOwner
<1>3. CASE Shutdown
  <2>1. /\ \A r \in Request : pc[r] \in {"idle", "done"}
        /\ workers' = {} /\ alive' = alive \ workers /\ pool' = "stopped"
        /\ spawned' = spawned /\ lost' = lost
    BY <1>3 DEF Shutdown
  <2>2. QED
    BY <1>1, <2>1
       DEF LossInv, OpenOnlyBusy, ListOfOpenPool, Known, BusyInList, Busy,
           Replacements, ListedAlive, ProcessesOwned, RecyclingHasOwner
<1>4. ASSUME NEW w \in Worker, Crash(w) PROVE LossInv'
  <2>1. /\ alive' = alive \ {w} /\ lost' = lost \union {w}
        /\ UNCHANGED <<pool, workers, spawned>>
    BY <1>4 DEF Crash
  <2>2. OpenOnlyBusy' /\ ListOfOpenPool' /\ Known' /\ BusyInList'
    BY <1>1, <2>1 DEF LossInv, OpenOnlyBusy, ListOfOpenPool, Known, BusyInList
  <2>3. Replacements'  BY <1>1, <2>1 DEF LossInv, Replacements
  <2>4. ListedAlive' /\ ProcessesOwned'
    BY <1>1, <2>1 DEF LossInv, ListedAlive, ProcessesOwned
  <2>5. RecyclingHasOwner'
    BY <1>1, <2>1 DEF LossInv, RecyclingHasOwner, Recyclers
  <2>6. QED  BY <2>2, <2>3, <2>4, <2>5 DEF LossInv
<1>5. QED  BY <1>2, <1>3, <1>4

\* Steps of a request outside its recycle: the processes and the list stay.
LEMMA QueueingLoss ==
  ASSUME IInv, LossInv, NEW r \in Request,
         Refuse(r) \/ Wait(r) \/ StopWaiting(r) \/ Acquire(r)
  PROVE  LossInv'
<1>1. TypeOK  BY DEF IInv
<1>2. UNCHANGED <<pool, workers, spawned, alive, recycling, fresh, lost>>
  BY DEF Refuse, Wait, StopWaiting, Acquire, wvars
<1>3. PICK p \in {"waiting", "running", "done"} :
        pc' = [pc EXCEPT ![r] = p] /\ (p # "done" => pool = "started")
  BY DEF Refuse, Wait, StopWaiting, Acquire
<1>4. pc[r] \in {"idle", "waiting"}
  BY DEF Refuse, Wait, StopWaiting, Acquire
<1>5. /\ on' \in [Request -> Worker \union {NoWorker}]
      /\ \A q \in Request : q # r => on'[q] = on[q]
      /\ p = "running" => on'[r] \in workers
  <2>1. CASE Acquire(r)
    BY <1>1, <2>1 DEF Acquire, Available, TypeOK
  <2>2. CASE ~ Acquire(r)
    BY <1>1, <1>3, <2>2 DEF Refuse, Wait, StopWaiting, TypeOK
  <2>3. QED  BY <2>1, <2>2
<1>6. \A q \in Request : pc'[q] = "spawning" \/ pc'[q] = "terminating"
                          <=> pc[q] = "spawning" \/ pc[q] = "terminating"
  BY <1>1, <1>3, <1>4 DEF TypeOK
<1>7. OpenOnlyBusy' /\ ListOfOpenPool' /\ Known'
  BY <1>1, <1>2, <1>3 DEF LossInv, OpenOnlyBusy, ListOfOpenPool, Known, TypeOK
<1>8. BusyInList'
  BY <1>1, <1>2, <1>3, <1>5 DEF LossInv, BusyInList, Busy, TypeOK
<1>9. Replacements'
  BY <1>1, <1>2, <1>3, <1>5 DEF LossInv, Replacements, TypeOK
<1>10. ListedAlive' /\ ProcessesOwned'
  BY <1>1, <1>2, <1>3, <1>4, <1>5
     DEF LossInv, ListedAlive, ProcessesOwned, TypeOK
<1>11. RecyclingHasOwner'
  <2>1. ASSUME NEW w \in (workers \intersect recycling) \ lost
        PROVE  Recyclers(w)' # {}
    <3>1. PICK q \in Request : pc[q] \in {"terminating", "spawning"}
                               /\ on[q] = w
      BY <2>1 DEF LossInv, RecyclingHasOwner, Recyclers
    <3>2. q # r  BY <1>4, <3>1
    <3>3. pc'[q] = pc[q] /\ on'[q] = on[q]
      BY <1>1, <1>3, <1>5, <3>2 DEF TypeOK
    <3>4. QED  BY <3>1, <3>3 DEF Recyclers
  <2>2. QED  BY <1>2, <2>1 DEF RecyclingHasOwner
<1>12. QED
  BY <1>7, <1>8, <1>9, <1>10, <1>11 DEF LossInv

\* A release that flags a live worker becomes its recycler; a dead one was
\* lost before.
LEMMA ReleaseLoss ==
  ASSUME IInv, LossInv, NEW r \in Request, Release(r)
  PROVE  LossInv'
<1> DEFINE w == on[r]
           p == IF ShouldRecycle(w) /\ w \in alive THEN "terminating"
                ELSE "done"
<1>1. /\ pc[r] = "running" /\ pc' = [pc EXCEPT ![r] = p]
      /\ recycling' = IF ShouldRecycle(w) THEN recycling \union {w}
                      ELSE recycling
      /\ UNCHANGED <<pool, workers, spawned, alive, on, fresh, lost>>
  BY DEF Release
<1>2. TypeOK /\ w \in Worker /\ w \in workers
  BY <1>1 DEF IInv, OnWorker, LossInv, BusyInList, Busy
<1>3. w \notin recycling
  <2>1. r \in Holders(w)  BY <1>1 DEF Holders
  <2>2. active_tasks[w] # 0
    BY <1>2, <2>1, HoldersFinite, FS_EmptySet DEF IInv, ActiveExact
  <2>3. QED  BY <2>2 DEF IInv, RecyclingIdle
<1>4. p \in {"terminating", "done"}
      /\ (p = "terminating" <=> ShouldRecycle(w) /\ w \in alive)
  OBVIOUS
<1> HIDE DEF p
<1>5. w \in alive \union lost
  <2>1. \A q \in Request : pc[q] = "spawning" => on[q] # w
    BY <1>3 DEF IInv, RecyclerFlags
  <2>2. QED  BY <1>2, <2>1 DEF LossInv, ListedAlive
<1>6. pool = "started"  BY <1>1 DEF LossInv, OpenOnlyBusy
<1>7. OpenOnlyBusy' /\ ListOfOpenPool' /\ Known'
  BY <1>1, <1>2, <1>6 DEF LossInv, OpenOnlyBusy, ListOfOpenPool, Known
<1>8. BusyInList'
  BY <1>1, <1>2, <1>4 DEF LossInv, BusyInList, Busy, TypeOK
<1>9. Replacements'
  BY <1>1, <1>2, <1>4 DEF LossInv, Replacements, TypeOK
<1>10. ListedAlive' /\ ProcessesOwned'
  BY <1>1, <1>2, <1>4 DEF LossInv, ListedAlive, ProcessesOwned, TypeOK
<1>11. RecyclingHasOwner'
  <2>1. ASSUME NEW v \in (workers' \intersect recycling') \ lost'
        PROVE  Recyclers(v)' # {}
    <3>1. CASE v = w
      <4>1. ShouldRecycle(w) /\ w \in alive
        BY <1>1, <1>3, <1>5, <2>1, <3>1
      <4>2. pc'[r] = "terminating" /\ on'[r] = v
        BY <1>1, <1>2, <1>4, <3>1, <4>1 DEF TypeOK
      <4>3. QED  BY <4>2 DEF Recyclers
    <3>2. CASE v # w
      <4>1. v \in (workers \intersect recycling) \ lost  BY <1>1, <2>1, <3>2
      <4>2. PICK q \in Request : pc[q] \in {"terminating", "spawning"}
                                 /\ on[q] = v
        BY <4>1 DEF LossInv, RecyclingHasOwner, Recyclers
      <4>3. pc'[q] = pc[q] /\ on'[q] = on[q]
        BY <1>1, <1>2, <4>2 DEF TypeOK
      <4>4. QED  BY <4>2, <4>3 DEF Recyclers
    <3>3. QED  BY <3>1, <3>2
  <2>2. QED  BY <2>1 DEF RecyclingHasOwner
<1>12. QED
  BY <1>7, <1>8, <1>9, <1>10, <1>11 DEF LossInv

\* The worker that a recycler of another worker removes, keeps or replaces is
\* nobody else's.
LEMMA OwnWorker ==
  ASSUME IInv, LossInv, NEW r \in Request,
         pc[r] \in {"terminating", "spawning"},
         NEW q \in Request, q # r, pc[q] \in Busy
  PROVE  on[q] # on[r]
<1>1. CASE pc[q] = "running"
  <2>1. RecycleExclusive  BY IInvImplies
  <2>2. Holders(on[r]) = {}  BY <2>1 DEF RecycleExclusive
  <2>3. QED  BY <1>1, <2>2 DEF Holders
<1>2. CASE pc[q] # "running"
  BY <1>2 DEF Busy, IInv, OneRecycler
<1>3. QED  BY <1>1, <1>2

\* A replacement is started: a process the pool has never seen.
LEMMA TerminatedLoss ==
  ASSUME IInv, LossInv, NEW r \in Request, RecycleTerminated(r)
  PROVE  LossInv'
<1>1. PICK x \in Worker \ spawned :
        /\ spawned' = spawned \union {x}
        /\ alive' = (alive \ {on[r]}) \union {x}
        /\ fresh' = [fresh EXCEPT ![r] = x]
  BY DEF RecycleTerminated
<1>2. /\ pc[r] = "terminating" /\ pc' = [pc EXCEPT ![r] = "spawning"]
      /\ UNCHANGED <<pool, workers, recycling, on, lost>>
  BY DEF RecycleTerminated
<1>3. TypeOK /\ on[r] \in workers /\ pool = "started"
  BY <1>2 DEF IInv, LossInv, BusyInList, Busy, OpenOnlyBusy
<1>4. x \notin workers \union recycling \union alive
  BY <1>1 DEF LossInv, Known
<1>5. OpenOnlyBusy' /\ ListOfOpenPool' /\ Known'
  BY <1>1, <1>2, <1>3 DEF LossInv, OpenOnlyBusy, ListOfOpenPool, Known
<1>6. BusyInList'
  BY <1>2, <1>3 DEF LossInv, BusyInList, Busy, TypeOK
<1>7. Replacements'
  <2>1. ASSUME NEW q \in Request, q # r, pc[q] = "spawning"
        PROVE  fresh[q] # on[r] /\ fresh[q] # x /\ fresh'[q] = fresh[q]
               /\ on[q] # x
    BY <1>1, <1>2, <1>3, <1>4, <2>1
       DEF LossInv, Replacements, TypeOK, BusyInList, Busy
  <2>2. on[r] # x  BY <1>3, <1>4
  <2>3. QED
    BY <1>1, <1>2, <1>3, <1>4, <2>1, <2>2 DEF LossInv, Replacements, TypeOK
<1>8. ListedAlive'
  BY <1>1, <1>2, <1>3 DEF LossInv, ListedAlive, TypeOK
<1>9. ProcessesOwned'
  BY <1>1, <1>2, <1>3 DEF LossInv, ProcessesOwned, TypeOK
<1>10. RecyclingHasOwner'
  <2>1. \A q \in Request : pc[q] \in {"terminating", "spawning"}
                           => pc'[q] \in {"terminating", "spawning"}
    BY <1>2, <1>3 DEF TypeOK
  <2>2. QED  BY <1>2, <2>1 DEF LossInv, RecyclingHasOwner, Recyclers
<1>11. QED
  BY <1>5, <1>6, <1>7, <1>8, <1>9, <1>10 DEF LossInv

\* A recycle ends: the worker leaves the list, with or without a replacement.
LEMMA RecycledLoss ==
  ASSUME IInv, LossInv, NEW r \in Request,
         RecycleSpawnError(r) \/ RecycleReplaced(r) \/ RecycleSpawnFailed(r)
  PROVE  LossInv'
<1>1. /\ pc[r] \in {"terminating", "spawning"}
      /\ pc' = [pc EXCEPT ![r] = "done"]
      /\ UNCHANGED <<pool, spawned, recycling, on, fresh, lost>>
  BY DEF RecycleSpawnError, RecycleReplaced, RecycleSpawnFailed
<1>2. TypeOK /\ on[r] \in workers /\ pool = "started"
  BY <1>1 DEF IInv, LossInv, BusyInList, Busy, OpenOnlyBusy
<1>3. /\ on[r] \notin workers'
      /\ workers \ {on[r]} \subseteq workers'
      /\ workers' \subseteq (workers \ {on[r]})
           \union (IF RecycleReplaced(r) THEN {fresh[r]} ELSE {})
      /\ RecycleReplaced(r) => pc[r] = "spawning" /\ fresh[r] \in workers'
  BY <1>2 DEF RecycleSpawnError, RecycleReplaced, RecycleSpawnFailed,
              LossInv, Replacements
<1>4. /\ alive' \subseteq alive
      /\ alive \ {on[r], fresh[r]} \subseteq alive'
      /\ RecycleReplaced(r) => alive' = alive
      /\ ~ RecycleReplaced(r) /\ pc[r] = "spawning" => alive' = alive \ {fresh[r]}
      /\ pc[r] = "terminating" => alive' = alive \ {on[r]}
  BY DEF RecycleSpawnError, RecycleReplaced, RecycleSpawnFailed
<1>5. OpenOnlyBusy' /\ ListOfOpenPool'
  BY <1>1, <1>2 DEF LossInv, OpenOnlyBusy, ListOfOpenPool
<1>6. Known'
  BY <1>1, <1>3, <1>4 DEF LossInv, Known, Replacements
<1>7. \A q \in Request : q # r /\ pc[q] \in Busy => on[q] # on[r]
  BY <1>1, OwnWorker
<1>8. BusyInList'
  BY <1>1, <1>2, <1>3, <1>7 DEF LossInv, BusyInList, Busy, TypeOK
<1>9. ASSUME NEW q \in Request, q # r, pc[q] = "spawning"
      PROVE  /\ fresh[q] # on[r]
             /\ pc[r] = "spawning" => fresh[q] # fresh[r]
  BY <1>1, <1>2, <1>9 DEF LossInv, Replacements
<1>10. Replacements'
  <2>1. ASSUME NEW q \in Request, pc'[q] = "spawning"
        PROVE  /\ q # r /\ pc[q] = "spawning"
               /\ fresh[q] \notin workers'
               /\ fresh[q] \in alive' \union lost
    BY <1>1, <1>2, <1>3, <1>4, <1>9, <2>1 DEF LossInv, Replacements, TypeOK
  <2>2. QED  BY <1>1, <1>4, <2>1 DEF LossInv, Replacements
<1>11. ListedAlive'
  <2>1. ASSUME NEW v \in workers' \ lost'
        PROVE  v \in alive' \/ \E q \in Request : pc'[q] = "spawning"
                                                   /\ on'[q] = v
    <3>1. CASE v \in workers \ {on[r]}
      <4>1. pc[r] = "spawning" => v # fresh[r]
        BY <3>1 DEF LossInv, Replacements
      <4>2. CASE v \in alive  BY <1>1, <1>4, <3>1, <4>1, <4>2
      <4>3. CASE v \notin alive
        <5>1. PICK q \in Request : pc[q] = "spawning" /\ on[q] = v
          BY <1>1, <2>1, <3>1, <4>3 DEF LossInv, ListedAlive
        <5>2. QED  BY <1>1, <1>2, <3>1, <5>1 DEF TypeOK
      <4>4. QED  BY <4>2, <4>3
    <3>2. CASE v \notin workers \ {on[r]}
      BY <1>1, <1>3, <1>4, <2>1, <3>2 DEF LossInv, Replacements
    <3>3. QED  BY <3>1, <3>2
  <2>2. QED  BY <2>1 DEF ListedAlive
<1>12. ProcessesOwned'
  <2>1. ASSUME NEW v \in alive' \ lost'
        PROVE  v \in workers' \/ \E q \in Request : pc'[q] = "spawning"
                                                     /\ fresh'[q] = v
    <3>1. v \in alive \ lost  BY <1>1, <1>4, <2>1
    <3>2. v # on[r]
      BY <1>1, <1>4, <2>1 DEF LossInv, Replacements
    <3>3. CASE v \in workers  BY <1>3, <3>2, <3>3
    <3>4. ASSUME NEW q \in Request, pc[q] = "spawning", fresh[q] = v
          PROVE  v \in workers' \/ \E s \in Request : pc'[s] = "spawning"
                                                       /\ fresh'[s] = v
      <4>1. CASE q = r  BY <1>3, <1>4, <2>1, <3>4, <4>1
      <4>2. CASE q # r  BY <1>1, <1>2, <3>4, <4>2 DEF TypeOK
      <4>3. QED  BY <4>1, <4>2
    <3>5. QED  BY <3>1, <3>3, <3>4 DEF LossInv, ProcessesOwned
  <2>2. QED  BY <2>1 DEF ProcessesOwned
<1>13. RecyclingHasOwner'
  <2>1. ASSUME NEW v \in (workers' \intersect recycling') \ lost'
        PROVE  Recyclers(v)' # {}
    <3>1. v # on[r] /\ v \in workers
      BY <1>1, <1>3, <2>1 DEF LossInv, Replacements
    <3>2. PICK q \in Request : pc[q] \in {"terminating", "spawning"}
                               /\ on[q] = v
      BY <1>1, <2>1, <3>1 DEF LossInv, RecyclingHasOwner, Recyclers
    <3>3. pc'[q] = pc[q] /\ on'[q] = on[q]
      BY <1>1, <1>2, <3>1, <3>2 DEF TypeOK
    <3>4. QED  BY <3>2, <3>3 DEF Recyclers
  <2>2. QED  BY <2>1 DEF RecyclingHasOwner
<1>14. QED
  BY <1>5, <1>6, <1>8, <1>10, <1>11, <1>12, <1>13 DEF LossInv

\* A cancelled recycle gives up its two workers, and no others.
LEMMA CancelLoss ==
  ASSUME IInv, LossInv, NEW r \in Request, CancelRecycle(r)
  PROVE  LossInv'
<1>1. /\ pc[r] \in {"terminating", "spawning"}
      /\ pc' = [pc EXCEPT ![r] = "done"]
      /\ lost' = lost \union {on[r], fresh[r]}
      /\ alive' \subseteq alive /\ alive \ {on[r]} \subseteq alive'
      /\ UNCHANGED <<pool, workers, spawned, recycling, on, fresh>>
  BY DEF CancelRecycle
<1>2. TypeOK /\ pool = "started" /\ on[r] \in workers
  BY <1>1 DEF IInv, LossInv, OpenOnlyBusy, BusyInList, Busy
<1>3. OpenOnlyBusy' /\ ListOfOpenPool' /\ Known'
  BY <1>1, <1>2 DEF LossInv, OpenOnlyBusy, ListOfOpenPool, Known
<1>4. BusyInList'
  BY <1>1, <1>2 DEF LossInv, BusyInList, Busy, TypeOK
<1>5. Replacements'
  BY <1>1, <1>2 DEF LossInv, Replacements, TypeOK
<1>6. ListedAlive' /\ ProcessesOwned'
  BY <1>1, <1>2 DEF LossInv, ListedAlive, ProcessesOwned, TypeOK
<1>7. RecyclingHasOwner'
  <2>1. ASSUME NEW v \in (workers' \intersect recycling') \ lost'
        PROVE  Recyclers(v)' # {}
    <3>1. PICK q \in Request : pc[q] \in {"terminating", "spawning"}
                               /\ on[q] = v
      BY <1>1, <2>1 DEF LossInv, RecyclingHasOwner, Recyclers
    <3>2. pc'[q] = pc[q] /\ on'[q] = on[q]
      BY <1>1, <1>2, <2>1, <3>1 DEF TypeOK
    <3>3. QED  BY <3>1, <3>2 DEF Recyclers
  <2>2. QED  BY <2>1 DEF RecyclingHasOwner
<1>8. QED
  BY <1>3, <1>4, <1>5, <1>6, <1>7 DEF LossInv

\* Every step preserves the invariant.
LEMMA NextLoss ==
  ASSUME IInv, LossInv, [Next]_vars
  PROVE  LossInv'
<1>1. CASE StartPool \/ Shutdown \/ (\E w \in Worker : Crash(w))
  BY <1>1, PoolStepLoss
<1>2. ASSUME NEW r \in Request, RequestStep(r) \/ CancelRecycle(r)
      PROVE  LossInv'
  BY <1>2, QueueingLoss, ReleaseLoss, TerminatedLoss, RecycledLoss, CancelLoss
     DEF RequestStep
<1>3. CASE Quiescent \/ UNCHANGED vars
  BY <1>3
     DEF Quiescent, vars, LossInv, OpenOnlyBusy, ListOfOpenPool, Known,
         BusyInList, Replacements, ListedAlive, ProcessesOwned,
         RecyclingHasOwner, Recyclers
<1>4. QED  BY <1>1, <1>2, <1>3 DEF Next

\* The pool loses the capacity of a worker only to a crash of its process or
\* to a cancelled recycle.
THEOREM PoolRecyclingHasOwner == Spec => []RecyclingHasOwner
<1>1. LossInv => RecyclingHasOwner  BY DEF LossInv
<1>2. QED  BY <1>1, InitLoss, NextLoss, PoolInvariant, PTL DEF Spec

\* shutdown() leaves no process running, but for the replacement that a
\* cancelled recycle had started.
THEOREM PoolNoOrphanProcess == Spec => []NoOrphanProcess
<1>1. LossInv => NoOrphanProcess
  BY DEF LossInv, ListOfOpenPool, OpenOnlyBusy, ProcessesOwned, NoOrphanProcess
<1>2. QED  BY <1>1, InitLoss, NextLoss, PoolInvariant, PTL DEF Spec
=============================================================================
