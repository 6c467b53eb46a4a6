------------------------- MODULE DSLScheduler_proofs -------------------------
(***************************************************************************)
(* Proofs about the scheduler.  Type correctness holds for every workflow, *)
(* with scatters, gathers and any failure; the accounting of dependencies  *)
(* is proved for the workflows without scatters, of any size and shape.    *)
(***************************************************************************)
EXTENDS DSLScheduler, FiniteSetTheorems, SequenceTheorems, TLAPS

-----------------------------------------------------------------------------
(***************************************************************************)
(* Facts about streams, tasks and edges.                                   *)
(***************************************************************************)

\* The workflow being run satisfies the assumptions on workflows.
LEMMA DslOK == TypeOK => WorkflowOK(dsl)
BY WorkflowsAssumption DEF TypeOK

\* A stream's child is a stream.
LEMMA ChildStream ==
  ASSUME NEW s \in StreamId, NEW r \in dsl.refs, NEW i \in Int
  PROVE  Child(s, r, i) \in StreamId
BY DEF Child, StreamId

\* A stream's parent is a stream.
LEMMA ParentStream ==
  ASSUME NEW s \in StreamId
  PROVE  Parent(s) \in StreamId
<1>1. CASE Len(s) = 0
  <2>1. Parent(s) = << >>  BY <1>1 DEF Parent, StreamId
  <2>2. QED  BY <2>1 DEF StreamId
<1>2. CASE Len(s) # 0
  <2>1. Len(s) \in Nat  BY DEF StreamId
  <2>2. \A i \in 1 .. Len(s) - 1 : s[i] \in dsl.refs \X Int
    BY <2>1 DEF StreamId
  <2>3. QED  BY <1>2, <2>1, <2>2 DEF Parent, StreamId
<1>3. QED  BY <1>1, <1>2

\* The parent-stream counterpart of a gather task is a task.
LEMMA ParentGatherTask ==
  ASSUME NEW t \in Task
  PROVE  ParentGather(t) \in Task
BY ParentStream DEF Task, ParentGather, TaskOf

\* The child-stream counterpart of a scatter task is a task.
LEMMA ChildTask ==
  ASSUME NEW t \in Task, NEW i \in Int
  PROVE  TaskOf(t.ref, Child(t.stream, t.ref, i)) \in Task
BY ChildStream DEF Task, TaskOf

\* What an outgoing edge is made of.
LEMMA OutEdge ==
  ASSUME NEW t, NEW e \in OutEdges(t)
  PROVE  \E d \in dsl.refs, y \in EdgeTypes :
           /\ <<t.ref, y>> \in dsl.deps[d]
           /\ e = EdgeOf(t.ref, d, y, t.stream)
<1>1. PICK a \in dsl.refs \X EdgeTypes :
        /\ <<t.ref, a[2]>> \in dsl.deps[a[1]]
        /\ e = EdgeOf(t.ref, a[1], a[2], t.stream)
  BY DEF OutEdges
<1>2. a[1] \in dsl.refs /\ a[2] \in EdgeTypes  BY <1>1
<1>3. QED  BY <1>1, <1>2

\* The successors of a task are tasks of its stream, its edges are edges.
LEMMA OutTyped ==
  ASSUME NEW t \in Task
  PROVE  OutEdges(t) \subseteq Edge /\ NextTasks(t) \subseteq Task
<1>1. ASSUME NEW e \in OutEdges(t)
      PROVE  e \in Edge /\ TaskOf(e.dst, t.stream) \in Task
  <2>1. PICK d \in dsl.refs, y \in EdgeTypes :
          e = EdgeOf(t.ref, d, y, t.stream)
    BY OutEdge
  <2>2. t.ref \in dsl.refs /\ t.stream \in StreamId  BY DEF Task
  <2>3. QED  BY <2>1, <2>2 DEF EdgeOf, Edge, Task, TaskOf
<1>2. QED  BY <1>1 DEF NextTasks

\* The dependencies of an action are finitely many.
LEMMA DepsFinite ==
  ASSUME TypeOK, NEW r \in dsl.refs
  PROVE  IsFiniteSet(dsl.deps[r]) /\ Cardinality(dsl.deps[r]) \in Nat
<1>1. IsFiniteSet(EdgeTypes)
  <2>1. IsFiniteSet({"success"})  BY FS_Singleton
  <2>2. EdgeTypes = {"success"} \cup {"error"}  BY DEF EdgeTypes
  <2>3. QED  BY <2>1, <2>2, FS_AddElement
<1>2. IsFiniteSet(dsl.refs \X EdgeTypes)
  BY <1>1, DslOK, FS_Product DEF WorkflowOK
<1>3. dsl.deps[r] \in SUBSET (dsl.refs \X EdgeTypes)
  BY DslOK DEF WorkflowOK
<1>4. QED  BY <1>2, <1>3, FS_Subset, FS_CardinalityType

\* There is one incoming edge for each dependency.
LEMMA InEdgesCount ==
  ASSUME TypeOK, NEW x \in Task
  PROVE  /\ IsFiniteSet(InEdges(x))
         /\ Cardinality(InEdges(x)) = NDeps(x)
         /\ Cardinality(InEdges(x)) \in Nat
<1> DEFINE D == dsl.deps[x.ref]
           f == [d \in D |-> DepEdge(d, x)]
<1>1. x.ref \in dsl.refs  BY DEF Task
<1>2. D \subseteq dsl.refs \X EdgeTypes  BY <1>1, DslOK DEF WorkflowOK
<1>3. f \in Surjection(D, InEdges(x))
  BY DEF Surjection, InEdges
<1>4. ASSUME NEW c \in D, NEW d \in D, f[c] = f[d] PROVE c = d
  BY <1>2, <1>4 DEF DepEdge, EdgeOf
<1>5. f \in Injection(D, InEdges(x))
  BY <1>3, <1>4 DEF Injection, Surjection, IsInjective
<1>6. QED
  BY <1>1, <1>3, <1>5, DepsFinite, FS_Surjection DEF NDeps

\* The edges from one task to one successor are the successor's incoming
\* edges that leave that task.
LEMMA EdgesToIn ==
  ASSUME TypeOK, NEW t \in Task, NEW x \in Task, x.stream = t.stream
  PROVE  /\ EdgesTo(t, x) = InEdges(x) \cap OutEdges(t)
         /\ IsFiniteSet(EdgesTo(t, x))
         /\ Cardinality(EdgesTo(t, x)) \in Nat
<1>1. x.ref \in dsl.refs /\ t.ref \in dsl.refs  BY DEF Task
<1>2. dsl.deps[x.ref] \subseteq dsl.refs \X EdgeTypes
  BY <1>1, DslOK DEF WorkflowOK
<1>3. ASSUME NEW e \in EdgesTo(t, x) PROVE e \in InEdges(x)
  <2>1. PICK y \in EdgeTypes : /\ <<t.ref, y>> \in dsl.deps[x.ref]
                               /\ e = EdgeOf(t.ref, x.ref, y, t.stream)
    BY <1>3, OutEdge, SMTT(30) DEF EdgesTo, EdgeOf
  <2>2. e = DepEdge(<<t.ref, y>>, x)  BY <2>1 DEF DepEdge
  <2>3. QED  BY <2>1, <2>2 DEF InEdges
<1>4. ASSUME NEW e \in InEdges(x) \cap OutEdges(t) PROVE e \in EdgesTo(t, x)
  BY <1>4 DEF EdgesTo, InEdges, DepEdge, EdgeOf
<1>5. EdgesTo(t, x) = InEdges(x) \cap OutEdges(t)
  BY <1>3, <1>4 DEF EdgesTo
<1>6. QED  BY <1>5, InEdgesCount, FS_Intersection, FS_CardinalityType

-----------------------------------------------------------------------------
(***************************************************************************)
(* Type correctness.  TypeOK in four parts, one per group of variables     *)
(* that an operation writes, and the one fact about the control that the   *)
(* scatter loop needs: it counts the streams it has made in task_streams.  *)
(***************************************************************************)
GraphOK ==
  /\ queue \subseteq Task
  /\ DOMAIN indegrees \subseteq Task
  /\ \A t \in DOMAIN indegrees : indegrees[t] \in Int
  /\ DOMAIN edges \subseteq Edge
  /\ \A e \in DOMAIN edges : edges[e] \in {"VISITED", "SKIPPED"}

CoroutinesOK ==
  /\ DOMAIN pending \subseteq Task
  /\ \A t \in DOMAIN pending : pending[t] \in [at : Phases, n : 0 .. MaxItems]
  /\ completed_tasks \subseteq Task
  /\ loop \in {"ready", "waiting", "stopping", "returned"}

ExcsOK ==
  /\ task_exceptions \subseteq dsl.refs
  /\ stream_exceptions \subseteq StreamId

ScopesOK ==
  /\ DOMAIN task_streams \subseteq Task
  /\ \A t \in DOMAIN task_streams : task_streams[t] \in Nat
  /\ DOMAIN open_streams \subseteq Task
  /\ \A t \in DOMAIN open_streams : open_streams[t] \in Int
  /\ DOMAIN results \subseteq Task

ScatterTracked ==
  \A t \in DOMAIN pending :
    pending[t].at = "scattering" => t \in DOMAIN task_streams

TInv == TypeOK /\ ScatterTracked

\* Tasks, edges and streams are those of the workflow, which never changes.
LEMMA SameTasks ==
  ASSUME dsl' = dsl
  PROVE  StreamId' = StreamId /\ Task' = Task /\ Edge' = Edge
BY DEF StreamId, Task, Edge

\* An indegree is an integer before and after it is counted down.
LEMMA IndegreeInt ==
  ASSUME TypeOK, NEW t \in Task, NEW x \in NextTasks(t)
  PROVE  /\ x \in Task
         /\ Indegree(x) \in Int
         /\ Cardinality(EdgesTo(t, x)) \in Nat
<1>1. x \in Task  BY OutTyped
<1>2. x.stream = t.stream  BY DEF NextTasks, TaskOf
<1>3. NDeps(x) \in Nat  BY <1>1, InEdgesCount
<1>4. QED  BY <1>1, <1>2, <1>3, EdgesToIn DEF Indegree, TypeOK

\* _queue_tasks keeps the types of what it writes.
LEMMA QueueTasksType ==
  ASSUME TypeOK, NEW t \in Task, NEW u, QueueTasks(t, u), dsl' = dsl
  PROVE  GraphOK'
<1>1. OutEdges(t) \subseteq Edge /\ NextTasks(t) \subseteq Task  BY OutTyped
<1>2. queue' \subseteq Task  BY <1>1 DEF TypeOK, QueueTasks
<1>3. DOMAIN indegrees' \subseteq Task  BY <1>1 DEF TypeOK, QueueTasks
<1>4. ASSUME NEW x \in DOMAIN indegrees' PROVE indegrees'[x] \in Int
  <2>1. CASE x \in NextTasks(t)
    <3>1. indegrees'[x] = Indegree(x) - Cardinality(EdgesTo(t, x))
      BY <2>1 DEF QueueTasks
    <3>2. QED  BY <2>1, <3>1, IndegreeInt
  <2>2. CASE x \notin NextTasks(t)
    BY <1>4, <2>2 DEF QueueTasks, TypeOK
  <2>3. QED  BY <2>1, <2>2
<1>5. /\ DOMAIN edges' \subseteq Edge
      /\ \A e \in DOMAIN edges' : edges'[e] \in {"VISITED", "SKIPPED"}
  BY <1>1 DEF QueueTasks, TypeOK
<1>6. QED  BY <1>2, <1>3, <1>4, <1>5, SameTasks DEF GraphOK

\* A coroutine that ends, or suspends at another point, keeps the types.
LEMMA CompleteType ==
  ASSUME TInv, NEW t \in DOMAIN pending, dsl' = dsl,
         DOMAIN task_streams \subseteq DOMAIN task_streams',
         \/ Complete(t)
         \/ \E at \in Phases \ {"scattering"} : Suspend(t, at)
  PROVE  CoroutinesOK' /\ ScatterTracked'
<1>1. t \in Task /\ TypeOK  BY DEF TInv, TypeOK
<1>2. 0 \in 0 .. MaxItems  BY MaxItemsAssumption
<1>3. CASE Complete(t)
  <2>1. CoroutinesOK'
    BY <1>1, <1>3, SameTasks DEF Complete, CoroutinesOK, TypeOK
  <2>2. ScatterTracked'  BY <1>3 DEF Complete, TInv, ScatterTracked
  <2>3. QED  BY <2>1, <2>2
<1>4. ASSUME NEW at \in Phases \ {"scattering"}, Suspend(t, at)
      PROVE  CoroutinesOK' /\ ScatterTracked'
  <2>1. CoroutinesOK'
    BY <1>1, <1>2, <1>4, SameTasks DEF Suspend, CoroutinesOK, TypeOK
  <2>2. ScatterTracked'
    BY <1>1, <1>4 DEF Suspend, TInv, ScatterTracked
  <2>3. QED  BY <2>1, <2>2
<1>5. QED  BY <1>3, <1>4

\* The error path keeps the types.
LEMMA ErrorPathType ==
  ASSUME TInv, NEW t \in DOMAIN pending, NEW raised \in SUBSET dsl.refs,
         ErrorPath(t, raised), dsl' = dsl,
         DOMAIN task_streams \subseteq DOMAIN task_streams'
  PROVE  GraphOK' /\ CoroutinesOK' /\ ExcsOK' /\ ScatterTracked'
<1>1. t \in Task /\ TypeOK  BY DEF TInv, TypeOK
<1>2. CoroutinesOK' /\ ScatterTracked'  BY CompleteType DEF ErrorPath
<1>3. ExcsOK'
  BY <1>1, SameTasks DEF ErrorPath, ExcsOK, TypeOK, Task
<1>4. GraphOK'
  <2>1. CASE UNCHANGED graph
    BY <1>1, <2>1, SameTasks DEF graph, GraphOK, TypeOK
  <2>2. CASE \E u : QueueTasks(t, u)
    BY <1>1, <2>2, QueueTasksType
  <2>3. QED  BY <2>1, <2>2 DEF ErrorPath
<1>5. QED  BY <1>2, <1>3, <1>4

\* A failing coroutine keeps the types.
LEMMA HandleErrorPathType ==
  ASSUME TInv, NEW t \in DOMAIN pending, HandleErrorPath(t)
  PROVE  TInv'
<1>1. dsl' = dsl /\ UNCHANGED <<task_streams, open_streams, results>>
  BY DEF HandleErrorPath, scopes
<1>2. GraphOK' /\ CoroutinesOK' /\ ExcsOK' /\ ScatterTracked'
  BY <1>1, ErrorPathType DEF HandleErrorPath
<1>3. ScopesOK'  BY <1>1, SameTasks DEF ScopesOK, TInv, TypeOK
<1>4. QED  BY <1>1, <1>2, <1>3
     DEF TInv, TypeOK, GraphOK, CoroutinesOK, ExcsOK, ScopesOK

\* A coroutine that calls _queue_tasks for a task and ends keeps the types.
LEMMA QueueAndCompleteType ==
  ASSUME TInv, NEW t \in DOMAIN pending, NEW x \in Task, NEW u,
         QueueTasks(x, u), Complete(t), UNCHANGED <<dsl, excs>>, ScopesOK',
         DOMAIN task_streams \subseteq DOMAIN task_streams'
  PROVE  TInv'
<1>1. dsl' = dsl /\ ExcsOK'
  BY SameTasks DEF excs, ExcsOK, TInv, TypeOK
<1>2. GraphOK'  BY <1>1, QueueTasksType DEF TInv
<1>3. CoroutinesOK' /\ ScatterTracked'  BY <1>1, CompleteType
<1>4. QED  BY <1>1, <1>2, <1>3
     DEF TInv, TypeOK, GraphOK, CoroutinesOK, ExcsOK, ScopesOK

\* A coroutine that only moves to another suspension point keeps the types.
LEMMA SuspendType ==
  ASSUME TInv, NEW t \in DOMAIN pending, NEW at \in Phases \ {"scattering"},
         Suspend(t, at), UNCHANGED <<dsl, graph, excs, scopes>>
  PROVE  TInv'
<1>1. dsl' = dsl /\ UNCHANGED <<task_streams, open_streams, results>>
  BY DEF scopes
<1>2. GraphOK' /\ ExcsOK' /\ ScopesOK'
  BY SameTasks DEF graph, excs, scopes, GraphOK, ExcsOK, ScopesOK, TInv, TypeOK
<1>3. CoroutinesOK' /\ ScatterTracked'  BY <1>1, CompleteType
<1>4. QED  BY <1>1, <1>2, <1>3
     DEF TInv, TypeOK, GraphOK, CoroutinesOK, ExcsOK, ScopesOK

-----------------------------------------------------------------------------
(***************************************************************************)
(* One lemma per handler.                                                  *)
(***************************************************************************)

\* Placing a value in the slot of a stream keeps the dict of results typed.
LEMMA SetSlotType ==
  ASSUME TypeOK, NEW t \in Task, NEW v, SetSlot(t, v)
  PROVE  DOMAIN results' \subseteq Task
BY ParentGatherTask DEF SetSlot, TypeOK

\* Closing a stream keeps the types.
LEMMA CloseStreamType ==
  ASSUME TInv, NEW t \in DOMAIN pending, CloseStream(t),
         DOMAIN results' \subseteq Task
  PROVE  TInv'
<1>1. dsl' = dsl /\ task_streams' = task_streams  BY DEF CloseStream
<1>2. GraphOK' /\ ExcsOK'
  BY <1>1, SameTasks DEF CloseStream, graph, excs, GraphOK, ExcsOK, TInv, TypeOK
<1>3. ScopesOK'
  BY <1>1, SameTasks DEF CloseStream, ScopesOK, TInv, TypeOK
<1>4. "finalize_gather" \in Phases \ {"scattering"}  BY DEF Phases
<1>5. CoroutinesOK' /\ ScatterTracked'
  BY <1>1, <1>4, CompleteType DEF CloseStream
<1>6. QED
  BY <1>1, <1>2, <1>3, <1>5
     DEF TInv, TypeOK, GraphOK, CoroutinesOK, ExcsOK, ScopesOK

\* A gather reached by skipping keeps the types.
LEMMA GatherSkippedType ==
  ASSUME TInv, NEW t \in DOMAIN pending, GatherSkipped(t)
  PROVE  TInv'
<1>1. t \in Task /\ TypeOK  BY DEF TInv, TypeOK
<1>2. SetErrorSlot(t) => DOMAIN results' \subseteq Task
  BY <1>1, SetSlotType DEF SetErrorSlot, TypeOK
<1>3. CASE HandleErrorPath(t)  BY <1>3, HandleErrorPathType
<1>4. CASE CloseStream(t) /\ SetErrorSlot(t)
  BY <1>2, <1>4, CloseStreamType
<1>5. CASE /\ open_streams' = [open_streams EXCEPT ![ParentScatter(t)] = @ - 1]
           /\ SetErrorSlot(t)
           /\ ErrorPath(t, {})
           /\ UNCHANGED <<dsl, task_streams>>
  <2>1. GraphOK' /\ CoroutinesOK' /\ ExcsOK' /\ ScatterTracked'
    BY <1>5, ErrorPathType
  <2>2. ScopesOK'  BY <1>1, <1>2, <1>5, SameTasks DEF ScopesOK, TypeOK
  <2>3. QED
    BY <1>1, <1>5, <2>1, <2>2
       DEF TInv, TypeOK, GraphOK, CoroutinesOK, ExcsOK, ScopesOK
<1>6. QED  BY <1>3, <1>4, <1>5 DEF GatherSkipped

\* Scopes that are left alone stay typed.
LEMMA SameScopesType ==
  ASSUME TypeOK, dsl' = dsl, UNCHANGED scopes
  PROVE  ScopesOK' /\ DOMAIN task_streams \subseteq DOMAIN task_streams'
BY SameTasks DEF scopes, ScopesOK, TypeOK

\* _handle_gather keeps the types.
LEMMA HandleGatherType ==
  ASSUME TInv, NEW t \in DOMAIN pending, NEW sk, HandleGather(t, sk)
  PROVE  TInv'
<1>1. t \in Task /\ TypeOK  BY DEF TInv, TypeOK
<1>2. {"finalize_empty", "gather_item"} \subseteq Phases \ {"scattering"}
  BY DEF Phases
<1>3. CASE HandleErrorPath(t)  BY <1>3, HandleErrorPathType
<1>4. CASE GatherSkipped(t)  BY <1>4, GatherSkippedType
<1>5. CASE /\ \/ Suspend(t, "finalize_empty") \/ Suspend(t, "gather_item")
           /\ UNCHANGED <<dsl, graph, excs, scopes>>
  BY <1>2, <1>5, SuspendType
<1>6. CASE /\ QueueTasks(t, OutEdges(t)) /\ Complete(t)
           /\ UNCHANGED <<dsl, excs, scopes>>
  BY <1>1, <1>6, QueueAndCompleteType, SameScopesType
<1>7. QED  BY <1>3, <1>4, <1>5, <1>6 DEF HandleGather

\* _handle_skip_path keeps the types.
LEMMA HandleSkipPathType ==
  ASSUME TInv, NEW t \in DOMAIN pending, HandleSkipPath(t)
  PROVE  TInv'
<1>1. t \in Task /\ TypeOK  BY DEF TInv, TypeOK
<1>2. CASE HandleGather(t, TRUE)  BY <1>2, HandleGatherType
<1>3. ASSUME NEW x \in Task, NEW u, QueueTasks(x, u), Complete(t),
             UNCHANGED <<dsl, excs, scopes>>
      PROVE  TInv'
  BY <1>1, <1>3, QueueAndCompleteType, SameScopesType
<1>4. CASE QueueSkipStream(t) /\ Complete(t) /\ UNCHANGED <<dsl, excs, scopes>>
  BY <1>1, <1>3, <1>4, ChildTask DEF QueueSkipStream, SKIP
<1>5. CASE /\ QueueTasks(t, OutEdges(t)) /\ Complete(t)
           /\ UNCHANGED <<dsl, excs, scopes>>
  BY <1>1, <1>3, <1>5
<1>6. QED  BY <1>2, <1>4, <1>5 DEF HandleSkipPath

\* Running the action itself keeps the types.
LEMMA ProceedType ==
  ASSUME TInv, NEW t \in DOMAIN pending, Proceed(t)
  PROVE  TInv'
<1>1. {"scatter_input", "execute"} \subseteq Phases \ {"scattering"}
  BY DEF Phases
<1>2. CASE HandleGather(t, FALSE)  BY <1>2, HandleGatherType
<1>3. CASE HandleErrorPath(t)  BY <1>3, HandleErrorPathType
<1>4. CASE /\ Suspend(t, "scatter_input") \/ Suspend(t, "execute")
           /\ UNCHANGED <<dsl, graph, excs, scopes>>
  BY <1>1, <1>4, SuspendType
<1>5. QED  BY <1>2, <1>3, <1>4 DEF Proceed

\* The steps up to and including the execution of an ordinary action.
LEMMA ScheduleType ==
  ASSUME TInv, NEW t \in DOMAIN pending,
         \/ ScheduleTask(t) \/ RunIfResolved(t) \/ ExecuteResolved(t)
         \/ ActivityFails(t)
  PROVE  TInv'
<1>1. t \in Task /\ TypeOK  BY DEF TInv, TypeOK
<1>2. "run_if" \in Phases \ {"scattering"}  BY DEF Phases
<1>3. CASE HandleSkipPath(t)  BY <1>3, HandleSkipPathType
<1>4. CASE HandleErrorPath(t)  BY <1>4, HandleErrorPathType
<1>5. CASE Proceed(t)  BY <1>5, ProceedType
<1>6. CASE Suspend(t, "run_if") /\ UNCHANGED <<dsl, graph, excs, scopes>>
  BY <1>2, <1>6, SuspendType
<1>7. CASE HandleSuccessPath(t)
  BY <1>1, <1>7, QueueAndCompleteType, SameScopesType DEF HandleSuccessPath
<1>8. QED
  BY <1>3, <1>4, <1>5, <1>6, <1>7
     DEF ScheduleTask, RunIfResolved, ExecuteResolved, ActivityFails

\* One turn of the scatter loop keeps the types and the count of streams.
LEMMA CreateStreamType ==
  ASSUME TInv, NEW t \in DOMAIN pending, NEW i \in Nat,
         NEW n \in 0 .. MaxItems, CreateStream(t, i, n)
  PROVE  TInv'
<1>1. t \in Task /\ TypeOK /\ dsl' = dsl  BY DEF TInv, TypeOK, CreateStream
<1>2. GraphOK'
  <2>1. TaskOf(t.ref, Child(t.stream, t.ref, i)) \in Task
    BY <1>1, ChildTask
  <2>2. QED  BY <1>1, <2>1, QueueTasksType DEF CreateStream
<1>3. ExcsOK' /\ ScopesOK'
  BY <1>1, SameTasks DEF CreateStream, excs, ExcsOK, ScopesOK, TypeOK
<1>4. CoroutinesOK'
  BY <1>1, SameTasks, MaxItemsAssumption
     DEF CreateStream, CoroutinesOK, TypeOK, Phases
<1>5. ScatterTracked'
  BY <1>1 DEF CreateStream, ScatterTracked, TInv
<1>6. QED
  BY <1>1, <1>2, <1>3, <1>4, <1>5
     DEF TInv, TypeOK, GraphOK, CoroutinesOK, ExcsOK, ScopesOK

\* The steps of _handle_scatter keep the types.
LEMMA ScatterType ==
  ASSUME TInv, NEW t \in DOMAIN pending,
         ScatterInputResolved(t) \/ ScatterNext(t)
  PROVE  TInv'
<1>1. t \in Task /\ TypeOK  BY DEF TInv, TypeOK
<1>2. ASSUME NEW i \in Nat, NEW n \in 0 .. MaxItems, CreateStream(t, i, n)
      PROVE  TInv'
  BY <1>2, CreateStreamType
<1>3. CASE ScatterInputResolved(t)
  <2>1. CASE \E n \in 1 .. MaxItems : CreateStream(t, 0, n)
    BY <1>2, <2>1, MaxItemsAssumption
  <2>2. CASE /\ task_streams' = [x \in DOMAIN task_streams \union {t} |->
                                   IF x = t THEN 0 ELSE task_streams[x]]
             /\ SetOpenStreams(t, 0)
             /\ QueueSkipStream(t)
             /\ Complete(t)
             /\ UNCHANGED <<dsl, excs, results>>
    <3>1. ScopesOK' /\ DOMAIN task_streams \subseteq DOMAIN task_streams'
      BY <1>1, <2>2, SameTasks DEF ScopesOK, SetOpenStreams, TypeOK
    <3>2. TaskOf(t.ref, Child(t.stream, t.ref, SKIP)) \in Task
      BY <1>1, ChildTask DEF SKIP
    <3>3. QED  BY <2>2, <3>1, <3>2, QueueAndCompleteType DEF QueueSkipStream
  <2>3. QED  BY <1>3, <2>1, <2>2 DEF ScatterInputResolved
<1>4. CASE ScatterNext(t)
  <2>1. task_streams[t] \in Nat /\ pending[t].n \in 0 .. MaxItems
    BY <1>1, <1>4 DEF ScatterNext, At, TInv, ScatterTracked, TypeOK
  <2>2. CASE CreateStream(t, task_streams[t], pending[t].n)
    BY <1>2, <2>1, <2>2
  <2>3. CASE /\ SetOpenStreams(t, pending[t].n)
             /\ Complete(t)
             /\ UNCHANGED <<dsl, graph, excs, task_streams, results>>
    <3>1. dsl' = dsl /\ GraphOK' /\ ExcsOK'
      BY <1>1, <2>3, SameTasks DEF graph, excs, GraphOK, ExcsOK, TypeOK
    <3>2. ScopesOK'
      BY <1>1, <2>1, <2>3, SameTasks, MaxItemsAssumption
         DEF ScopesOK, SetOpenStreams, TypeOK
    <3>3. CoroutinesOK' /\ ScatterTracked'  BY <2>3, CompleteType
    <3>4. QED
      BY <1>1, <3>1, <3>2, <3>3
         DEF TInv, TypeOK, GraphOK, CoroutinesOK, ExcsOK, ScopesOK
  <2>4. QED  BY <1>4, <2>2, <2>3 DEF ScatterNext
<1>5. QED  BY <1>3, <1>4

\* The resumed coroutines of gathers keep the types.
LEMMA GatherType ==
  ASSUME TInv, NEW t \in DOMAIN pending,
         \/ GatherItemResolved(t) \/ FinalizeGatherResolved(t)
         \/ NoopGatherResolved(t) \/ FinalizeEmptyResolved(t)
  PROVE  TInv'
<1>1. t \in Task /\ TypeOK /\ t.ref \in dsl.refs  BY DEF TInv, TypeOK, Task
<1>2. CASE GatherItemResolved(t)
  <2>1. CASE HandleErrorPath(t)  BY <2>1, HandleErrorPathType
  <2>2. CASE CloseStream(t) /\ SetSlot(t, "item")
    BY <1>1, <2>2, SetSlotType, CloseStreamType
  <2>3. QED  BY <1>2, <2>1, <2>2 DEF GatherItemResolved
<1>3. CASE FinalizeGatherResolved(t)
  <2>1. CASE ErrorPath(t, {t.ref}) /\ UNCHANGED <<dsl, scopes>>
    <3>1. ScopesOK' /\ DOMAIN task_streams \subseteq DOMAIN task_streams'
      BY <1>1, <2>1, SameScopesType
    <3>2. GraphOK' /\ CoroutinesOK' /\ ExcsOK' /\ ScatterTracked'
      BY <1>1, <2>1, <3>1, ErrorPathType
    <3>3. QED
      BY <1>1, <2>1, <3>1, <3>2
         DEF TInv, TypeOK, GraphOK, CoroutinesOK, ExcsOK, ScopesOK
  <2>2. CASE Suspend(t, "noop_gather") /\ UNCHANGED <<dsl, graph, excs, scopes>>
    <3>1. "noop_gather" \in Phases \ {"scattering"}  BY DEF Phases
    <3>2. QED  BY <2>2, <3>1, SuspendType
  <2>3. QED  BY <1>3, <2>1, <2>2 DEF FinalizeGatherResolved
<1>4. ParentGather(t) \in Task  BY <1>1, ParentGatherTask
<1>5. CASE NoopGatherResolved(t)
  BY <1>1, <1>4, <1>5, QueueAndCompleteType, SameScopesType
     DEF NoopGatherResolved
<1>6. CASE FinalizeEmptyResolved(t)
  <2>1. ScopesOK' /\ DOMAIN task_streams \subseteq DOMAIN task_streams'
    BY <1>1, <1>4, <1>6, SameTasks DEF FinalizeEmptyResolved, ScopesOK, TypeOK
  <2>2. QED
    BY <1>4, <1>6, <2>1, QueueAndCompleteType DEF FinalizeEmptyResolved
<1>7. QED  BY <1>2, <1>3, <1>5, <1>6

\* The main loop and cancellations keep the types.
LEMMA LoopType ==
  ASSUME TInv,
         LoopStep \/ UNCHANGED vars \/ \E t \in DOMAIN pending : Cancelled(t)
  PROVE  TInv'
<1>1. /\ dsl' = dsl /\ indegrees' = indegrees /\ edges' = edges
      /\ UNCHANGED excs /\ UNCHANGED scopes /\ TypeOK
  <2>1. CASE LoopStep
    BY <2>1 DEF TInv, LoopStep, StartQueued, AllTasksCompleted,
                StopOnException, ReturnExceptions, graph
  <2>2. CASE \E t \in DOMAIN pending : Cancelled(t)
    BY <2>2 DEF TInv, Cancelled, graph
  <2>3. CASE UNCHANGED vars  BY <2>3 DEF TInv, vars, excs, scopes
  <2>4. QED  BY <2>1, <2>2, <2>3
<1>2. ExcsOK' /\ ScopesOK'
  BY <1>1, SameTasks DEF excs, scopes, ExcsOK, ScopesOK, TypeOK
<1>3. queue' \in {queue, {}}
  BY DEF LoopStep, StartQueued, AllTasksCompleted, StopOnException,
         ReturnExceptions, Cancelled, graph, vars
<1>4. GraphOK'  BY <1>1, <1>3, SameTasks DEF GraphOK, TypeOK
<1>5. CoroutinesOK' /\ ScatterTracked'
  <2>1. CASE StartQueued
    <3>1. 0 \in 0 .. MaxItems  BY MaxItemsAssumption
    <3>2. CoroutinesOK'
      BY <1>1, <2>1, <3>1, SameTasks
         DEF StartQueued, CoroutinesOK, TypeOK, Phases
    <3>3. ScatterTracked'
      BY <1>1, <2>1 DEF StartQueued, TInv, ScatterTracked, scopes
    <3>4. QED  BY <3>2, <3>3
  <2>2. CASE StopOnException
    <3>1. CoroutinesOK'
      BY <1>1, <2>2, SameTasks DEF StopOnException, CoroutinesOK, TypeOK
    <3>2. ScatterTracked'
      BY <1>1, <2>2 DEF StopOnException, TInv, ScatterTracked, scopes
    <3>3. QED  BY <3>1, <3>2
  <2>3. CASE \E t \in DOMAIN pending : Cancelled(t)
    BY <1>1, <2>3, CompleteType DEF Cancelled, scopes
  <2>4. CASE AllTasksCompleted \/ ReturnExceptions \/ UNCHANGED vars
    <3>1. /\ pending' = pending /\ completed_tasks' = completed_tasks
          /\ loop' \in {loop, "returned"}
      BY <2>4 DEF AllTasksCompleted, ReturnExceptions, vars
    <3>2. CoroutinesOK'  BY <1>1, <3>1, SameTasks DEF CoroutinesOK, TypeOK
    <3>3. ScatterTracked'
      BY <1>1, <3>1 DEF TInv, ScatterTracked, scopes
    <3>4. QED  BY <3>2, <3>3
  <2>5. QED  BY <2>1, <2>2, <2>3, <2>4 DEF LoopStep
<1>6. QED
  BY <1>1, <1>2, <1>4, <1>5
     DEF TInv, TypeOK, GraphOK, CoroutinesOK, ExcsOK, ScopesOK

\* The initial state is typed.
LEMMA InitTInv == Init => TInv
<1> SUFFICES ASSUME Init PROVE TInv  OBVIOUS
<1>1. dsl \in Workflows /\ WorkflowOK(dsl)
  BY WorkflowsAssumption DEF Init
<1>2. RootTasks(dsl) \subseteq Task
  <2>1. ROOT_STREAM \in StreamId  BY DEF StreamId, ROOT_STREAM
  <2>2. QED  BY <2>1 DEF RootTasks, Task
<1>3. ASSUME NEW t \in RootTasks(dsl) PROVE NDeps(t) \in Int
  <2>1. t.ref \in dsl.refs  BY DEF RootTasks
  <2>2. IsFiniteSet(dsl.refs \X EdgeTypes)
    <3>1. IsFiniteSet({"success"} \cup {"error"})
      BY FS_Singleton, FS_AddElement
    <3>2. IsFiniteSet(EdgeTypes)
      <4>1. EdgeTypes = {"success"} \cup {"error"}  BY DEF EdgeTypes
      <4>2. QED  BY <3>1, <4>1
    <3>3. QED  BY <1>1, <3>2, FS_Product DEF WorkflowOK
  <2>3. dsl.deps[t.ref] \in SUBSET (dsl.refs \X EdgeTypes)
    BY <1>1, <2>1 DEF WorkflowOK
  <2>4. QED  BY <2>2, <2>3, FS_Subset, FS_CardinalityType DEF NDeps
<1>4. GraphOK  BY <1>2, <1>3 DEF Init, GraphOK, EmptyDict
<1>5. CoroutinesOK /\ ExcsOK /\ ScopesOK /\ ScatterTracked
  BY DEF Init, CoroutinesOK, ExcsOK, ScopesOK, ScatterTracked, EmptyDict
<1>6. QED
  BY <1>1, <1>4, <1>5
     DEF TInv, TypeOK, GraphOK, CoroutinesOK, ExcsOK, ScopesOK

\* Every step keeps the types.
LEMMA NextTInv ==
  ASSUME TInv, [Next]_vars
  PROVE  TInv'
<1>1. ASSUME NEW t \in DOMAIN pending, TaskStep(t) PROVE TInv'
  BY <1>1, ScheduleType, ScatterType, GatherType, LoopType DEF TaskStep
<1>2. CASE LoopStep \/ Returned \/ UNCHANGED vars
  BY <1>2, LoopType DEF Returned
<1>3. QED  BY <1>1, <1>2 DEF Next

\* For every workflow, scatters and cycles included, and whatever fails, the
\* scheduler's tables stay well formed: edges in the dict are decided, tasks
\* and streams belong to the workflow, and the scatter loop finds its own
\* entry in task_streams.
THEOREM SchedulerTypeCorrect == Spec => []TypeOK
<1>1. Spec => []TInv  BY InitTInv, NextTInv, PTL DEF Spec
<1>2. TInv => TypeOK  BY DEF TInv
<1>3. QED  BY <1>1, <1>2, PTL

-----------------------------------------------------------------------------
(***************************************************************************)
(* The accounting of dependencies: indegrees, edges, and the at-most-once  *)
(* execution of tasks.  The effect of _queue_tasks on it is stated for     *)
(* every stream; the theorems are about the workflows without scatters, of *)
(* any size and any shape (cycles included), whatever fails or is skipped. *)
(***************************************************************************)

\* No action of any workflow is a scatter or a gather.
ScatterFree == \A w \in Workflows : \A r \in w.refs : w.kind[r] = "action"

(***************************************************************************)
(* The strengthening.  A task that has no indegree yet has no decided      *)
(* dependency, an edge is decided only by the end of its source, and a     *)
(* coroutine is at a suspension point of an ordinary action.               *)
(***************************************************************************)
Untouched ==
  \A x \in Task : x \notin DOMAIN indegrees =>
                    InEdges(x) \intersect DOMAIN edges = {}

SourceCompleted ==
  \A e \in DOMAIN edges : TaskOf(e.src, e.stream) \in completed_tasks

PlainPhases ==
  \A t \in DOMAIN pending : pending[t].at \in {"created", "run_if", "execute"}

Counted ==
  /\ IndegreeExact
  /\ Untouched
  /\ ReadyMeansDecided
  /\ RunsOnce

AccInv == Counted /\ SourceCompleted

GInv == TypeOK /\ AccInv /\ PlainPhases

(***************************************************************************)
(* What makes the run come to all of its tasks.  Without scatters there is *)
(* one stream.  As long as no task has failed the run, a task that ended   *)
(* has decided its edges, and a task whose dependencies are all decided is *)
(* queued, running or completed.                                           *)
(***************************************************************************)
RootOnly ==
  /\ \A x \in queue \union DOMAIN pending \union completed_tasks \union DOMAIN indegrees :
       x.stream = ROOT_STREAM
  /\ RootTasks(dsl) \subseteq DOMAIN indegrees

NothingDropped ==
  task_exceptions = {} =>
    /\ loop # "stopping"
    /\ loop = "returned" => queue = {} /\ DOMAIN pending = {}
    /\ \A x \in completed_tasks : OutEdges(x) \subseteq DOMAIN edges
    /\ \A x \in RootTasks(dsl) :
         InEdges(x) \subseteq DOMAIN edges =>
           x \in queue \union DOMAIN pending \union completed_tasks

LiveInv == RootOnly /\ NothingDropped

-----------------------------------------------------------------------------
\* The edges of a workflow that does not change do not change.
LEMMA SameEdges ==
  ASSUME dsl' = dsl
  PROVE  /\ \A x : InEdges(x)' = InEdges(x)
         /\ \A x : OutEdges(x)' = OutEdges(x)
BY DEF InEdges, OutEdges, DepEdge

\* The indegree, entered or not, is the number of undecided dependencies.
LEMMA IndegreeCounts ==
  ASSUME TypeOK, Counted, NEW x \in Task
  PROVE  /\ Indegree(x) = Cardinality(InEdges(x) \ DOMAIN edges)
         /\ IsFiniteSet(InEdges(x) \ DOMAIN edges)
         /\ Indegree(x) \in Nat
<1>1. /\ IsFiniteSet(InEdges(x) \ DOMAIN edges)
      /\ Cardinality(InEdges(x) \ DOMAIN edges) \in Nat
  BY InEdgesCount, FS_Difference, FS_CardinalityType
<1>2. CASE x \in DOMAIN indegrees
  BY <1>1, <1>2 DEF Indegree, Counted, IndegreeExact
<1>3. CASE x \notin DOMAIN indegrees
  <2>1. InEdges(x) \ DOMAIN edges = InEdges(x)
    BY <1>3 DEF Counted, Untouched
  <2>2. QED  BY <1>1, <1>3, <2>1, InEdgesCount DEF Indegree
<1>4. QED  BY <1>2, <1>3

\* An edge into x that leaves t makes x a successor of t.
LEMMA SuccessorOf ==
  ASSUME TypeOK, NEW t \in Task, NEW x \in Task,
         NEW e \in InEdges(x) \intersect OutEdges(t)
  PROVE  x \in NextTasks(t)
<1>1. e.dst = x.ref /\ e.stream = x.stream  BY DEF InEdges, DepEdge, EdgeOf
<1>2. e.stream = t.stream
  <2>1. PICK d \in dsl.refs, y \in EdgeTypes :
          e = EdgeOf(t.ref, d, y, t.stream)
    BY OutEdge
  <2>2. QED  BY <2>1 DEF EdgeOf
<1>3. x = TaskOf(e.dst, t.stream)  BY <1>1, <1>2 DEF Task, TaskOf
<1>4. QED  BY <1>3 DEF NextTasks

(***************************************************************************)
(* The heart of the matter.  When none of the task's outgoing edges was    *)
(* decided before, _queue_tasks counts every one of them exactly once, and *)
(* enqueues a successor exactly when its last dependency is decided.       *)
(***************************************************************************)
LEMMA QueueTasksExact ==
  ASSUME TypeOK, Counted, NEW t \in Task, NEW u, QueueTasks(t, u), dsl' = dsl,
         OutEdges(t) \intersect DOMAIN edges = {}
  PROVE  /\ IndegreeExact'
         /\ Untouched'
         /\ \A x \in queue' \ queue :
              /\ x \in Task
              /\ x \notin DOMAIN pending /\ x \notin completed_tasks
              /\ InEdges(x) \subseteq DOMAIN edges'
<1>1. /\ DOMAIN edges' = DOMAIN edges \union OutEdges(t)
      /\ DOMAIN indegrees' = DOMAIN indegrees \union NextTasks(t)
  BY DEF QueueTasks
<1>2. ASSUME NEW x \in NextTasks(t)
      PROVE  /\ x \in Task
             /\ Indegree(x) - Cardinality(EdgesTo(t, x))
                  = Cardinality(InEdges(x) \ DOMAIN edges')
             /\ IsFiniteSet(InEdges(x) \ DOMAIN edges')
             /\ Cardinality(InEdges(x) \ DOMAIN edges') \in Nat
             /\ Cardinality(EdgesTo(t, x)) \in Nat
  <2> DEFINE U == InEdges(x) \ DOMAIN edges
  <2>1. x \in Task /\ x.stream = t.stream  BY OutTyped DEF NextTasks, TaskOf
  <2>2. /\ EdgesTo(t, x) = InEdges(x) \cap OutEdges(t)
        /\ Cardinality(EdgesTo(t, x)) \in Nat
    BY <2>1, EdgesToIn
  <2>3. /\ InEdges(x) \ DOMAIN edges' = U \ OutEdges(t)
        /\ U \cap OutEdges(t) = EdgesTo(t, x)
    BY <1>1, <2>2
  <2>4. Indegree(x) = Cardinality(U) /\ IsFiniteSet(U)
    BY <2>1, IndegreeCounts
  <2>5. /\ IsFiniteSet(U \ OutEdges(t))
        /\ Cardinality(U \ OutEdges(t))
             = Cardinality(U) - Cardinality(U \cap OutEdges(t))
    BY <2>4, FS_Difference
  <2>6. Cardinality(U \ OutEdges(t)) \in Nat  BY <2>5, FS_CardinalityType
  <2>7. QED  BY <2>1, <2>2, <2>3, <2>4, <2>5, <2>6
<1>3. ASSUME NEW x \in DOMAIN indegrees'
      PROVE  indegrees'[x] = Cardinality(InEdges(x) \ DOMAIN edges')
  <2>1. CASE x \in NextTasks(t)
    <3>1. indegrees'[x] = Indegree(x) - Cardinality(EdgesTo(t, x))
      BY <2>1 DEF QueueTasks
    <3>2. QED  BY <1>2, <2>1, <3>1
  <2>2. CASE x \notin NextTasks(t)
    <3>1. x \in DOMAIN indegrees /\ x \in Task
      BY <1>1, <1>3, <2>2 DEF TypeOK
    <3>2. indegrees'[x] = indegrees[x]  BY <2>2, <3>1 DEF QueueTasks
    <3>3. InEdges(x) \intersect OutEdges(t) = {}
      BY <2>2, <3>1, SuccessorOf
    <3>4. InEdges(x) \ DOMAIN edges' = InEdges(x) \ DOMAIN edges
      BY <1>1, <3>3
    <3>5. QED  BY <3>1, <3>2, <3>4 DEF Counted, IndegreeExact
  <2>3. QED  BY <2>1, <2>2
<1>4. IndegreeExact'  BY <1>3, SameEdges DEF IndegreeExact
<1>5. Untouched'
  <2>1. ASSUME NEW x \in Task, x \notin DOMAIN indegrees'
        PROVE  InEdges(x) \intersect DOMAIN edges' = {}
    <3>1. x \notin DOMAIN indegrees /\ x \notin NextTasks(t)  BY <1>1, <2>1
    <3>2. InEdges(x) \intersect OutEdges(t) = {}  BY <3>1, SuccessorOf
    <3>3. QED  BY <1>1, <3>1, <3>2 DEF Counted, Untouched
  <2>2. QED  BY <2>1, SameTasks, SameEdges DEF Untouched
<1>6. ASSUME NEW x \in queue' \ queue
      PROVE  /\ x \in Task
             /\ x \notin DOMAIN pending /\ x \notin completed_tasks
             /\ InEdges(x) \subseteq DOMAIN edges'
  <2>1. /\ x \in NextTasks(t) /\ Indegree(x) > 0
        /\ Indegree(x) <= Cardinality(EdgesTo(t, x))
    BY <1>6 DEF QueueTasks
  <2>2. x \in Task  BY <1>2, <2>1
  <2>3. InEdges(x) \ DOMAIN edges # {}
    BY <2>1, <2>2, IndegreeCounts, FS_EmptySet
  <2>4. x \notin DOMAIN pending /\ x \notin completed_tasks
    BY <2>3 DEF Counted, ReadyMeansDecided
  <2>5. Cardinality(InEdges(x) \ DOMAIN edges') = 0
    <3>1. Indegree(x) \in Nat  BY <2>2, IndegreeCounts
    <3>2. QED  BY <1>2, <2>1, <3>1
  <2>6. InEdges(x) \ DOMAIN edges' = {}  BY <1>2, <2>1, <2>5, FS_EmptySet
  <2>7. QED  BY <2>2, <2>4, <2>6
<1>7. QED  BY <1>4, <1>5, <1>6

-----------------------------------------------------------------------------
(***************************************************************************)
(* Steps of a coroutine and of the main loop.                              *)
(***************************************************************************)

\* A running task has decided none of its outgoing edges yet.
LEMMA RunningUndecided ==
  ASSUME TypeOK, AccInv, NEW t \in DOMAIN pending
  PROVE  OutEdges(t) \intersect DOMAIN edges = {}
<1> SUFFICES ASSUME NEW e \in OutEdges(t), e \in DOMAIN edges PROVE FALSE
  OBVIOUS
<1>1. t \in Task  BY DEF TypeOK
<1>2. PICK d \in dsl.refs, y \in EdgeTypes : e = EdgeOf(t.ref, d, y, t.stream)
  BY OutEdge
<1>3. TaskOf(e.src, e.stream) = t  BY <1>1, <1>2 DEF EdgeOf, Task, TaskOf
<1>4. QED  BY <1>3 DEF AccInv, Counted, SourceCompleted, RunsOnce

\* A task that decides its edges and ends keeps the accounting.
LEMMA QueueAndCompleteAcc ==
  ASSUME TypeOK, AccInv, NEW t \in DOMAIN pending, NEW u,
         QueueTasks(t, u), Complete(t), dsl' = dsl
  PROVE  AccInv'
<1>1. t \in Task  BY DEF TypeOK
<1>2. OutEdges(t) \intersect DOMAIN edges = {}  BY RunningUndecided
<1>3. /\ IndegreeExact' /\ Untouched'
      /\ \A x \in queue' \ queue :
           /\ x \in Task
           /\ x \notin DOMAIN pending /\ x \notin completed_tasks
           /\ InEdges(x) \subseteq DOMAIN edges'
  BY <1>1, <1>2, QueueTasksExact DEF AccInv
<1>4. /\ DOMAIN pending' = DOMAIN pending \ {t}
      /\ completed_tasks' = completed_tasks \union {t}
  BY DEF Complete
<1>5. DOMAIN edges' = DOMAIN edges \union OutEdges(t)  BY DEF QueueTasks
<1>6. ReadyMeansDecided'
  <2>1. ASSUME NEW x \in queue' \union DOMAIN pending' \union completed_tasks'
        PROVE  InEdges(x) \subseteq DOMAIN edges'
    BY <1>3, <1>4, <1>5 DEF AccInv, Counted, ReadyMeansDecided
  <2>2. QED  BY <2>1, SameEdges DEF ReadyMeansDecided
<1>7. RunsOnce'
  BY <1>3, <1>4 DEF AccInv, Counted, RunsOnce
<1>8. SourceCompleted'
  <2>1. ASSUME NEW e \in OutEdges(t) PROVE TaskOf(e.src, e.stream) = t
    <3>1. PICK d \in dsl.refs, y \in EdgeTypes :
            e = EdgeOf(t.ref, d, y, t.stream)
      BY OutEdge
    <3>2. QED  BY <1>1, <3>1 DEF EdgeOf, Task, TaskOf
  <2>2. QED  BY <1>4, <1>5, <2>1 DEF AccInv, Counted, SourceCompleted
<1>9. QED  BY <1>3, <1>6, <1>7, <1>8 DEF AccInv, Counted

\* A step that leaves the graph alone and only moves tasks from the queue to
\* the running ones, or from the running ones to the completed ones (or drops
\* them), keeps the accounting.
LEMMA MoveCounted ==
  ASSUME TypeOK, Counted, dsl' = dsl, indegrees' = indegrees, edges' = edges,
         queue' \subseteq queue,
         DOMAIN pending' \subseteq DOMAIN pending \union (queue \ queue'),
         completed_tasks' \subseteq
           completed_tasks \union (DOMAIN pending \ DOMAIN pending')
  PROVE  Counted'
<1>1. IndegreeExact' /\ Untouched'
  BY SameEdges, SameTasks DEF Counted, IndegreeExact, Untouched
<1>2. ReadyMeansDecided'  BY SameEdges DEF Counted, ReadyMeansDecided
<1>3. RunsOnce'  BY DEF Counted, RunsOnce
<1>4. QED  BY <1>1, <1>2, <1>3 DEF Counted

\* The same with the sources of the decided edges.
LEMMA MoveAcc ==
  ASSUME TypeOK, AccInv, dsl' = dsl, indegrees' = indegrees, edges' = edges,
         queue' \subseteq queue,
         DOMAIN pending' \subseteq DOMAIN pending \union (queue \ queue'),
         completed_tasks' \subseteq
           completed_tasks \union (DOMAIN pending \ DOMAIN pending'),
         completed_tasks \subseteq completed_tasks'
  PROVE  AccInv'
<1>1. Counted /\ SourceCompleted  BY DEF AccInv
<1>2. Counted'  BY <1>1, MoveCounted
<1>3. SourceCompleted'  BY <1>1 DEF SourceCompleted
<1>4. QED  BY <1>2, <1>3 DEF AccInv

\* The error path keeps the accounting.
LEMMA ErrorPathAcc ==
  ASSUME TypeOK, AccInv, NEW t \in DOMAIN pending, HandleErrorPath(t)
  PROVE  AccInv'
<1>1. dsl' = dsl /\ Complete(t)  BY DEF HandleErrorPath, ErrorPath
<1>2. CASE \E u : QueueTasks(t, u)
  BY <1>1, <1>2, QueueAndCompleteAcc
<1>3. CASE UNCHANGED graph
  BY <1>1, <1>3, MoveAcc DEF Complete, graph
<1>4. QED  BY <1>2, <1>3 DEF HandleErrorPath, ErrorPath

\* A coroutine that suspends at another point keeps the accounting.
LEMMA SuspendAcc ==
  ASSUME TypeOK, AccInv, NEW t \in DOMAIN pending, NEW at, Suspend(t, at),
         UNCHANGED <<dsl, graph, excs, scopes>>
  PROVE  AccInv'
<1>1. DOMAIN pending' = DOMAIN pending /\ completed_tasks' = completed_tasks
  BY DEF Suspend
<1>2. QED  BY <1>1, MoveAcc DEF graph

\* Every step of a coroutine keeps the accounting in a workflow without
\* scatters.
LEMMA TaskStepAcc ==
  ASSUME ScatterFree, GInv, NEW t \in DOMAIN pending, TaskStep(t)
  PROVE  AccInv' /\ PlainPhases'
<1>1. TypeOK /\ AccInv /\ dsl.kind[t.ref] = "action"
  BY DEF GInv, TypeOK, Task, ScatterFree
<1>2. CASE HandleErrorPath(t)
  <2>1. AccInv'  BY <1>1, <1>2, ErrorPathAcc
  <2>2. PlainPhases'
    BY <1>2 DEF HandleErrorPath, ErrorPath, Complete, GInv, PlainPhases
  <2>3. QED  BY <2>1, <2>2
<1>3. CASE HandleSuccessPath(t) \/ HandleSkipPath(t)
  <2>1. /\ Complete(t) /\ dsl' = dsl
        /\ \E u : QueueTasks(t, u)
    BY <1>1, <1>3 DEF HandleSuccessPath, HandleSkipPath
  <2>2. AccInv'  BY <1>1, <2>1, QueueAndCompleteAcc
  <2>3. PlainPhases'  BY <2>1 DEF Complete, GInv, PlainPhases
  <2>4. QED  BY <2>2, <2>3
<1>4. CASE /\ Suspend(t, "run_if") \/ Suspend(t, "execute")
           /\ UNCHANGED <<dsl, graph, excs, scopes>>
  <2>1. AccInv'  BY <1>1, <1>4, SuspendAcc
  <2>2. PlainPhases'  BY <1>4 DEF Suspend, GInv, PlainPhases
  <2>3. QED  BY <2>1, <2>2
<1>5. CASE Cancelled(t)
  <2>1. AccInv'
    BY <1>1, <1>5, MoveAcc DEF Cancelled, Complete, graph
  <2>2. PlainPhases'  BY <1>5 DEF Cancelled, Complete, GInv, PlainPhases
  <2>3. QED  BY <2>1, <2>2
<1>6. Proceed(t) =>
        \/ HandleErrorPath(t)
        \/ Suspend(t, "execute") /\ UNCHANGED <<dsl, graph, excs, scopes>>
  BY <1>1 DEF Proceed
<1>7. CASE ScheduleTask(t) \/ RunIfResolved(t) \/ ExecuteResolved(t)
           \/ ActivityFails(t)
  BY <1>2, <1>3, <1>4, <1>6, <1>7
     DEF ScheduleTask, RunIfResolved, ExecuteResolved, ActivityFails
<1>8. ~ \/ ScatterInputResolved(t) \/ ScatterNext(t) \/ GatherItemResolved(t)
        \/ FinalizeGatherResolved(t) \/ NoopGatherResolved(t)
        \/ FinalizeEmptyResolved(t)
  BY DEF GInv, PlainPhases, At, ScatterInputResolved, ScatterNext,
         GatherItemResolved, FinalizeGatherResolved, NoopGatherResolved,
         FinalizeEmptyResolved
<1>9. QED  BY <1>5, <1>7, <1>8 DEF TaskStep

\* The main loop keeps the accounting, for every workflow.
LEMMA LoopAcc ==
  ASSUME GInv, LoopStep \/ UNCHANGED vars
  PROVE  AccInv' /\ PlainPhases'
<1>1. TypeOK /\ AccInv  BY DEF GInv
<1>2. CASE StartQueued
  <2>1. AccInv'  BY <1>1, <1>2, MoveAcc DEF StartQueued
  <2>2. PlainPhases'  BY <1>2 DEF StartQueued, GInv, PlainPhases
  <2>3. QED  BY <2>1, <2>2
<1>3. CASE StopOnException
  <2>1. AccInv'  BY <1>1, <1>3, MoveAcc DEF StopOnException, graph
  <2>2. PlainPhases'  BY <1>3 DEF StopOnException, GInv, PlainPhases
  <2>3. QED  BY <2>1, <2>2
<1>4. CASE AllTasksCompleted \/ ReturnExceptions \/ UNCHANGED vars
  <2>1. UNCHANGED <<dsl, queue, indegrees, edges, pending, completed_tasks>>
    BY <1>4 DEF AllTasksCompleted, ReturnExceptions, graph, vars
  <2>2. AccInv'  BY <1>1, <2>1, MoveAcc
  <2>3. PlainPhases'  BY <2>1 DEF GInv, PlainPhases
  <2>4. QED  BY <2>2, <2>3
<1>5. QED  BY <1>2, <1>3, <1>4 DEF LoopStep

\* The initial state counts every dependency as undecided.
LEMMA InitAcc == Init /\ TypeOK => AccInv /\ PlainPhases
<1> SUFFICES ASSUME Init, TypeOK PROVE AccInv /\ PlainPhases  OBVIOUS
<1>1. DOMAIN edges = {} /\ DOMAIN pending = {} /\ completed_tasks = {}
  BY DEF Init, EmptyDict
<1>2. IndegreeExact
  <2>1. ASSUME NEW t \in DOMAIN indegrees
        PROVE  indegrees[t] = Cardinality(InEdges(t) \ DOMAIN edges)
    <3>1. t \in Task  BY DEF TypeOK
    <3>2. indegrees[t] = NDeps(t)  BY DEF Init
    <3>3. InEdges(t) \ DOMAIN edges = InEdges(t)  BY <1>1
    <3>4. QED  BY <3>1, <3>2, <3>3, InEdgesCount
  <2>2. QED  BY <2>1 DEF IndegreeExact
<1>3. ReadyMeansDecided
  BY <1>1 DEF Init, ReadyMeansDecided, InEdges
<1>4. Untouched /\ RunsOnce /\ SourceCompleted /\ PlainPhases
  BY <1>1 DEF Untouched, RunsOnce, SourceCompleted, PlainPhases
<1>5. QED  BY <1>2, <1>3, <1>4 DEF AccInv, Counted

-----------------------------------------------------------------------------
\* In a workflow without scatters, of any shape: the indegree of a task is
\* always the number of its undecided dependencies, a task is started only
\* when all of them are decided, and at most once.
THEOREM GraphAccounting ==
  ASSUME ScatterFree
  PROVE  Spec => [](IndegreeExact /\ ReadyMeansDecided /\ RunsOnce)
<1>1. Init => TInv /\ GInv  BY InitTInv, InitAcc DEF GInv, TInv
<1>2. TInv /\ GInv /\ [Next]_vars => (TInv /\ GInv)'
  <2> SUFFICES ASSUME TInv, GInv, [Next]_vars PROVE (TInv /\ GInv)'
    OBVIOUS
  <2>1. TInv'  BY NextTInv
  <2>2. AccInv' /\ PlainPhases'
    BY TaskStepAcc, LoopAcc DEF Next, Returned
  <2>3. QED  BY <2>1, <2>2 DEF GInv, TInv
<1>3. GInv => IndegreeExact /\ ReadyMeansDecided /\ RunsOnce
  BY DEF GInv, AccInv, Counted
<1>4. QED  BY <1>1, <1>2, <1>3, PTL DEF Spec

\* No task is queued, started or ended while what its reachability reads is
\* still undecided.
THEOREM GraphReadyMeansDecided ==
  ASSUME ScatterFree
  PROVE  Spec => []ReadyMeansDecided
<1>1. IndegreeExact /\ ReadyMeansDecided /\ RunsOnce => ReadyMeansDecided  OBVIOUS
<1>2. QED  BY <1>1, GraphAccounting, PTL

\* No task is enqueued or started twice.
THEOREM GraphRunsOnce ==
  ASSUME ScatterFree
  PROVE  Spec => []RunsOnce
<1>1. IndegreeExact /\ ReadyMeansDecided /\ RunsOnce => RunsOnce  OBVIOUS
<1>2. QED  BY <1>1, GraphAccounting, PTL

-----------------------------------------------------------------------------
(***************************************************************************)
(* Every task is reached.                                                  *)
(***************************************************************************)
\* The dependencies have no cycle: any set of actions has one that depends on
\* none of them.
WellFoundedDeps ==
  \A w \in Workflows : \A S \in SUBSET w.refs :
    S # {} => \E r \in S : \A d \in w.deps[r] : d[1] \notin S

\* When start() returns without exceptions every action of the workflow has
\* been run or skipped.
AllTasksReached ==
  loop = "returned" /\ task_exceptions = {} => RootTasks(dsl) \subseteq completed_tasks

\* What a step of a coroutine is in a workflow without scatters: it decides the
\* edges of its task and ends, ends a run that fails, or suspends.
LEMMA TaskStepShape ==
  ASSUME ScatterFree, GInv, LiveInv, NEW t \in DOMAIN pending, TaskStep(t)
  PROVE  /\ dsl' = dsl
         /\ \/ /\ Complete(t) /\ \E u : QueueTasks(t, u)
               /\ task_exceptions' = task_exceptions
            \/ /\ Complete(t) /\ UNCHANGED graph
               /\ task_exceptions' # {}
            \/ /\ \E at : Suspend(t, at)
               /\ UNCHANGED <<graph, task_exceptions>>
<1>1. dsl.kind[t.ref] = "action"  BY DEF GInv, TypeOK, Task, ScatterFree
<1>2. CASE HandleErrorPath(t)
  BY <1>2 DEF HandleErrorPath, ErrorPath
<1>3. CASE HandleSuccessPath(t) \/ HandleSkipPath(t)
  BY <1>1, <1>3 DEF HandleSuccessPath, HandleSkipPath, excs
<1>4. CASE /\ Suspend(t, "run_if") \/ Suspend(t, "execute")
           /\ UNCHANGED <<dsl, graph, excs, scopes>>
  BY <1>4 DEF excs
<1>5. CASE Cancelled(t)
  BY <1>5 DEF Cancelled, excs, LiveInv, NothingDropped
<1>6. Proceed(t) =>
        \/ HandleErrorPath(t)
        \/ Suspend(t, "execute") /\ UNCHANGED <<dsl, graph, excs, scopes>>
  BY <1>1 DEF Proceed
<1>7. CASE ScheduleTask(t) \/ RunIfResolved(t) \/ ExecuteResolved(t)
           \/ ActivityFails(t)
  BY <1>2, <1>3, <1>4, <1>6, <1>7
     DEF ScheduleTask, RunIfResolved, ExecuteResolved, ActivityFails
<1>8. ~ \/ ScatterInputResolved(t) \/ ScatterNext(t) \/ GatherItemResolved(t)
        \/ FinalizeGatherResolved(t) \/ NoopGatherResolved(t)
        \/ FinalizeEmptyResolved(t)
  BY DEF GInv, PlainPhases, At, ScatterInputResolved, ScatterNext,
         GatherItemResolved, FinalizeGatherResolved, NoopGatherResolved,
         FinalizeEmptyResolved
<1>9. QED  BY <1>5, <1>7, <1>8 DEF TaskStep

\* A task whose last dependency is decided by _queue_tasks is enqueued by it.
LEMMA QueueTasksReaches ==
  ASSUME TypeOK, Counted, NEW t \in Task, NEW u, QueueTasks(t, u), dsl' = dsl,
         NEW x \in Task, InEdges(x) \subseteq DOMAIN edges',
         ~ (InEdges(x) \subseteq DOMAIN edges)
  PROVE  x \in queue'
<1>1. t \in Task  OBVIOUS
<1>2. DOMAIN edges' = DOMAIN edges \union OutEdges(t)  BY DEF QueueTasks
<1>3. x \in NextTasks(t)  BY <1>1, <1>2, SuccessorOf
<1>4. x.stream = t.stream  BY <1>3 DEF NextTasks, TaskOf
<1>5. EdgesTo(t, x) = InEdges(x) \cap OutEdges(t)  BY <1>1, <1>4, EdgesToIn
<1>6. /\ Indegree(x) = Cardinality(InEdges(x) \ DOMAIN edges)
      /\ IsFiniteSet(InEdges(x) \ DOMAIN edges) /\ Indegree(x) \in Nat
  BY IndegreeCounts
<1>7. InEdges(x) \ DOMAIN edges \subseteq EdgesTo(t, x)  BY <1>2, <1>5
<1>8. /\ IsFiniteSet(EdgesTo(t, x)) /\ Cardinality(EdgesTo(t, x)) \in Nat
  BY <1>1, <1>4, EdgesToIn
<1>9. Indegree(x) <= Cardinality(EdgesTo(t, x))  BY <1>6, <1>7, <1>8, FS_Subset
<1>10. Indegree(x) # 0
  <2>1. InEdges(x) \ DOMAIN edges # {}  OBVIOUS
  <2>2. QED  BY <1>6, <2>1, FS_EmptySet
<1>11. QED  BY <1>3, <1>6, <1>9, <1>10 DEF QueueTasks

\* A coroutine that decides its edges and ends drops nothing.
LEMMA QueueAndCompleteLive ==
  ASSUME GInv, LiveInv, NEW t \in DOMAIN pending, NEW u, QueueTasks(t, u), Complete(t),
         dsl' = dsl, task_exceptions' = task_exceptions
  PROVE  LiveInv'
<1>1. TypeOK /\ AccInv /\ t \in Task /\ t.stream = ROOT_STREAM
  BY DEF GInv, TypeOK, LiveInv, RootOnly
<1>2. /\ DOMAIN edges' = DOMAIN edges \union OutEdges(t)
      /\ DOMAIN indegrees' = DOMAIN indegrees \union NextTasks(t)
      /\ queue \subseteq queue' /\ queue' \subseteq queue \union NextTasks(t)
      /\ DOMAIN pending' = DOMAIN pending \ {t}
      /\ completed_tasks' = completed_tasks \union {t}
  BY DEF QueueTasks, Complete
<1>3. \A x \in NextTasks(t) : x.stream = ROOT_STREAM  BY <1>1 DEF NextTasks, TaskOf
<1>4. RootTasks(dsl)' = RootTasks(dsl)  BY DEF RootTasks, ROOT_STREAM
<1>5. RootOnly'  BY <1>1, <1>2, <1>3, <1>4 DEF LiveInv, RootOnly
<1>6. NothingDropped'
  <2> SUFFICES ASSUME task_exceptions = {}  PROVE NothingDropped'
    BY DEF NothingDropped
  <2>1. loop \notin {"stopping", "returned"}  BY DEF LiveInv, NothingDropped
  <2>2. loop' \notin {"stopping", "returned"}  BY <2>1 DEF Complete
  <2>3. ASSUME NEW x \in completed_tasks'  PROVE OutEdges(x)' \subseteq DOMAIN edges'
    BY <1>2, <2>3, SameEdges DEF LiveInv, NothingDropped
  <2>4. ASSUME NEW x \in RootTasks(dsl), InEdges(x) \subseteq DOMAIN edges'
        PROVE  x \in queue' \union DOMAIN pending' \union completed_tasks'
    <3>1. x \in Task  BY DEF LiveInv, RootOnly, GInv, TypeOK
    <3>2. CASE InEdges(x) \subseteq DOMAIN edges
      BY <1>2, <3>2 DEF LiveInv, NothingDropped
    <3>3. CASE ~ (InEdges(x) \subseteq DOMAIN edges)
      BY <1>1, <2>4, <3>1, <3>3, QueueTasksReaches DEF AccInv
    <3>4. QED  BY <3>2, <3>3
  <2>5. QED  BY <1>4, <2>2, <2>3, <2>4, SameEdges DEF NothingDropped
<1>7. QED  BY <1>5, <1>6 DEF LiveInv

\* A step that leaves the graph alone and moves tasks on.
LEMMA MoveLive ==
  ASSUME GInv, LiveInv, dsl' = dsl, indegrees' = indegrees, edges' = edges,
         queue' \subseteq queue,
         DOMAIN pending' \subseteq DOMAIN pending \union queue,
         completed_tasks' \subseteq completed_tasks \union DOMAIN pending,
         task_exceptions' = {} =>
           /\ task_exceptions = {}
           /\ completed_tasks' = completed_tasks
           /\ queue \union DOMAIN pending \subseteq queue' \union DOMAIN pending'
           /\ loop' # "stopping"
           /\ loop' = "returned" => queue' = {} /\ DOMAIN pending' = {}
  PROVE  LiveInv'
<1>1. RootTasks(dsl)' = RootTasks(dsl)  BY DEF RootTasks, ROOT_STREAM
<1>2. RootOnly'  BY <1>1 DEF LiveInv, RootOnly
<1>3. NothingDropped'
  <2> SUFFICES ASSUME task_exceptions' = {}  PROVE NothingDropped'
    BY DEF NothingDropped
  <2>1. /\ \A x \in completed_tasks : OutEdges(x) \subseteq DOMAIN edges
        /\ \A x \in RootTasks(dsl) :
             InEdges(x) \subseteq DOMAIN edges =>
               x \in queue \union DOMAIN pending \union completed_tasks
    BY DEF LiveInv, NothingDropped
  <2>2. QED  BY <1>1, <2>1, SameEdges DEF NothingDropped
<1>4. QED  BY <1>2, <1>3 DEF LiveInv

\* The initial state: the actions without dependencies are queued.
LEMMA InitLive == Init /\ TypeOK => LiveInv
<1> SUFFICES ASSUME Init, TypeOK PROVE LiveInv  OBVIOUS
<1>1. /\ DOMAIN edges = {} /\ DOMAIN pending = {} /\ completed_tasks = {}
      /\ DOMAIN indegrees = RootTasks(dsl) /\ queue \subseteq RootTasks(dsl)
  BY DEF Init, EmptyDict
<1>2. RootOnly  BY <1>1 DEF RootOnly, RootTasks
<1>3. ASSUME NEW x \in RootTasks(dsl), InEdges(x) \subseteq DOMAIN edges  PROVE x \in queue
  <2>1. dsl.deps[x.ref] = {}  BY <1>1, <1>3 DEF InEdges
  <2>2. QED  BY <2>1 DEF Init
<1>4. NothingDropped  BY <1>1, <1>3 DEF NothingDropped, Init
<1>5. QED  BY <1>2, <1>4 DEF LiveInv

\* Every step keeps it.
LEMMA NextLive ==
  ASSUME ScatterFree, GInv, LiveInv, [Next]_vars
  PROVE  LiveInv'
<1>1. ASSUME NEW t \in DOMAIN pending, TaskStep(t)  PROVE LiveInv'
  <2>1. dsl' = dsl  BY <1>1, TaskStepShape
  <2>2. CASE /\ Complete(t) /\ \E u : QueueTasks(t, u)
             /\ task_exceptions' = task_exceptions
    BY <2>1, <2>2, QueueAndCompleteLive
  <2>3. CASE Complete(t) /\ UNCHANGED graph /\ task_exceptions' # {}
    BY <2>1, <2>3, MoveLive DEF Complete, graph
  <2>4. CASE (\E at : Suspend(t, at)) /\ UNCHANGED <<graph, task_exceptions>>
    <3>1. DOMAIN pending' = DOMAIN pending /\ UNCHANGED <<completed_tasks, loop>>
      BY <2>4 DEF Suspend
    <3>2. task_exceptions = {} =>
            loop # "stopping" /\ (loop = "returned" => queue = {} /\ DOMAIN pending = {})
      BY DEF LiveInv, NothingDropped
    <3>3. QED  BY <2>1, <2>4, <3>1, <3>2, MoveLive DEF graph
  <2>5. QED  BY <1>1, <2>2, <2>3, <2>4, TaskStepShape
<1>2. task_exceptions = {} =>
        loop # "stopping" /\ (loop = "returned" => queue = {} /\ DOMAIN pending = {})
  BY DEF LiveInv, NothingDropped
<1>3. CASE StartQueued
  BY <1>3, MoveLive DEF StartQueued, excs
<1>4. CASE AllTasksCompleted
  BY <1>4, MoveLive DEF AllTasksCompleted, excs, graph
<1>5. CASE StopOnException
  BY <1>5, MoveLive DEF StopOnException, excs, graph
<1>6. CASE ReturnExceptions
  BY <1>2, <1>6, MoveLive DEF ReturnExceptions, excs, graph
<1>7. CASE UNCHANGED vars
  BY <1>2, <1>7, MoveLive DEF vars
<1>8. QED
  BY <1>1, <1>3, <1>4, <1>5, <1>6, <1>7 DEF Next, LoopStep, Returned

\* A run that has returned without exceptions has no first task that it did
\* not come to.
LEMMA ReturnedReached ==
  ASSUME WellFoundedDeps, GInv, LiveInv
  PROVE  AllTasksReached /\ NoStrandedJoin
<1>1. AllTasksReached
  <2> SUFFICES ASSUME loop = "returned", task_exceptions = {}
               PROVE  RootTasks(dsl) \subseteq completed_tasks
    BY DEF AllTasksReached
  <2> DEFINE S == {r \in dsl.refs : TaskOf(r, ROOT_STREAM) \notin completed_tasks}
  <2>1. CASE S = {}  BY <2>1 DEF RootTasks, TaskOf
  <2>2. CASE S # {}
    <3>1. PICK r \in S : \A d \in dsl.deps[r] : d[1] \notin S
      BY <2>2 DEF WellFoundedDeps, GInv, TypeOK
    <3>2. PICK x : x = TaskOf(r, ROOT_STREAM)  OBVIOUS
    <3>3. x \in RootTasks(dsl) /\ x.ref = r /\ x.stream = ROOT_STREAM /\ x \notin completed_tasks
      BY <3>2 DEF RootTasks, TaskOf
    <3>4. ASSUME NEW d \in dsl.deps[r]  PROVE DepEdge(d, x) \in DOMAIN edges
      <4>1. d \in dsl.refs \X EdgeTypes
        BY <3>1, DslOK DEF WorkflowOK, GInv
      <4>2. d[1] \in dsl.refs /\ d[2] \in EdgeTypes /\ d = <<d[1], d[2]>>  BY <4>1
      <4>3. PICK y : y = TaskOf(d[1], ROOT_STREAM)  OBVIOUS
      <4>4. y \in completed_tasks  BY <3>1, <4>2, <4>3
      <4>5. y.ref = d[1] /\ y.stream = ROOT_STREAM  BY <4>3 DEF TaskOf
      <4>6. <<r, d[2]>> \in dsl.refs \X EdgeTypes  BY <3>1, <4>2
      <4>7. <<y.ref, d[2]>> \in dsl.deps[r]  BY <4>2, <4>5
      <4>8. EdgeOf(y.ref, r, d[2], y.stream) \in OutEdges(y)
        BY <4>6, <4>7 DEF OutEdges
      <4>9. DepEdge(d, x) = EdgeOf(y.ref, r, d[2], y.stream)
        BY <3>3, <4>5 DEF DepEdge
      <4>10. QED  BY <4>4, <4>8, <4>9 DEF LiveInv, NothingDropped
    <3>5. InEdges(x) \subseteq DOMAIN edges  BY <3>3, <3>4 DEF InEdges
    <3>6. x \in completed_tasks  BY <3>3, <3>5 DEF LiveInv, NothingDropped
    <3>7. QED  BY <3>3, <3>6
  <2>3. QED  BY <2>1, <2>2
<1>2. ASSUME NEW t \in DOMAIN indegrees  PROVE t \in RootTasks(dsl)
  <2>1. t \in Task /\ t.stream = ROOT_STREAM  BY DEF GInv, TypeOK, LiveInv, RootOnly
  <2>2. QED  BY <2>1 DEF Task, RootTasks
<1>3. NoStrandedJoin  BY <1>1, <1>2 DEF AllTasksReached, NoStrandedJoin
<1>4. QED  BY <1>1, <1>3

\* An acyclic workflow without scatters, of any size: when start() returns
\* without exceptions every action has been run or skipped, so no join is left
\* half decided.
THEOREM GraphNoStrandedJoin ==
  ASSUME ScatterFree, WellFoundedDeps
  PROVE  Spec => [](AllTasksReached /\ NoStrandedJoin)
<1>1. Init => TInv /\ GInv /\ LiveInv
  BY InitTInv, InitAcc, InitLive DEF GInv, TInv
<1>2. TInv /\ GInv /\ LiveInv /\ [Next]_vars => (TInv /\ GInv /\ LiveInv)'
  <2> SUFFICES ASSUME TInv, GInv, LiveInv, [Next]_vars PROVE (TInv /\ GInv /\ LiveInv)'
    OBVIOUS
  <2>1. TInv'  BY NextTInv
  <2>2. AccInv' /\ PlainPhases'
    BY TaskStepAcc, LoopAcc DEF Next, Returned
  <2>3. LiveInv'  BY NextLive
  <2>4. QED  BY <2>1, <2>2, <2>3 DEF GInv, TInv
<1>3. GInv /\ LiveInv => AllTasksReached /\ NoStrandedJoin  BY ReturnedReached
<1>4. QED  BY <1>1, <1>2, <1>3, PTL DEF Spec
=============================================================================
