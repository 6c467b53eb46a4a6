---------------------------- MODULE DSLScheduler ----------------------------
(***************************************************************************)
(* The scheduler of a workflow run (allama/dsl/scheduler.py).              *)
(*                                                                         *)
(* A workflow is a graph of actions.  A Task is an action instance: an     *)
(* action reference together with the stream it runs in.  The root stream  *)
(* runs the top level of the graph; a scatter opens one execution stream   *)
(* per item of its collection (or one skip stream) and a gather closes     *)
(* them and continues in the parent stream.                                *)
(*                                                                         *)
(* All coroutines share one event loop, so a step of the model is what one *)
(* coroutine does between two suspension points: an activity, a timer or   *)
(* the explicit yield of the scatter loop.  asyncio.Queue.put on an        *)
(* unbounded queue never suspends.                                         *)
(***************************************************************************)
EXTENDS Integers, Sequences, FiniteSets

CONSTANTS
  Workflows,  \* the DSL inputs a run may be given
  MaxItems    \* bound: the largest collection a scatter is given

(***************************************************************************)
(* A workflow: its action references, for each one the dependencies (a     *)
(* reference and the edge type, "a" or "a.error" in the DSL), the platform *)
(* action it is, its join strategy, whether a gather raises on errors, and *)
(* what its environment may do: which references have a run_if, which ones *)
(* may fail after a suspension and which ones before the first one (an     *)
(* argument model that does not validate).                                 *)
(***************************************************************************)
EdgeTypes == {"success", "error"}

WorkflowOK(w) ==
  /\ IsFiniteSet(w.refs)
  /\ w.deps \in [w.refs -> SUBSET (w.refs \X EdgeTypes)]
  /\ w.kind \in [w.refs -> {"action", "scatter", "gather"}]
  /\ w.join \in [w.refs -> {"any", "all"}]
  /\ w.raises \subseteq w.refs
  /\ w.runIf \subseteq w.refs
  /\ w.mayFail \subseteq w.refs
  /\ w.mayFailSync \subseteq w.refs

ASSUME WorkflowsAssumption == \A w \in Workflows : WorkflowOK(w)

ASSUME MaxItemsAssumption == MaxItems \in Nat

VARIABLES
  dsl,               \* the workflow being run
  queue,             \* tasks ready to be started
  indegrees,         \* task -> dependencies not yet decided (a dict)
  edges,             \* edge -> marker (a defaultdict of PENDING)
  pending,           \* running coroutine -> where it is suspended
  completed_tasks,   \* tasks whose coroutine reached its finally block
  task_exceptions,   \* references that failed the workflow
  stream_exceptions, \* execution streams that failed
  task_streams,      \* scatter task -> number of streams created
  open_streams,      \* scatter task -> streams not yet gathered
  results,           \* gather task in the parent stream -> item slots
  loop               \* the main loop of start()

graph  == <<queue, indegrees, edges>>
excs   == <<task_exceptions, stream_exceptions>>
scopes == <<task_streams, open_streams, results>>
vars   == <<dsl, queue, indegrees, edges, pending, completed_tasks,
            task_exceptions, stream_exceptions, task_streams, open_streams,
            results, loop>>

-----------------------------------------------------------------------------
(***************************************************************************)
(* Streams.  A stream identifier is the path of (scatter, index) pairs     *)
(* from the root; the index SKIP marks a skip stream.                      *)
(***************************************************************************)
ROOT_STREAM == << >>
SKIP == -1
StreamId == Seq(dsl.refs \X Int)
Child(s, r, i)  == Append(s, <<r, i>>)
Parent(s)       == SubSeq(s, 1, Len(s) - 1)
LeafRef(s)      == s[Len(s)][1]
LeafIndex(s)    == s[Len(s)][2]
IsSkipStream(s) == s # ROOT_STREAM /\ LeafIndex(s) = SKIP

Task == [ref : dsl.refs, stream : StreamId]
TaskOf(r, s) == [ref |-> r, stream |-> s]

(***************************************************************************)
(* Edges between tasks of one stream.                                      *)
(***************************************************************************)
Edge == [src : dsl.refs, dst : dsl.refs, type : EdgeTypes, stream : StreamId]
EdgeOf(r, d, y, s) == [src |-> r, dst |-> d, type |-> y, stream |-> s]
DepEdge(d, t) == EdgeOf(d[1], t.ref, d[2], t.stream)
InEdges(t)  == {DepEdge(d, t) : d \in dsl.deps[t.ref]}
OutEdges(t) == {EdgeOf(t.ref, a[1], a[2], t.stream) :
                  a \in {b \in dsl.refs \X EdgeTypes :
                           <<t.ref, b[2]>> \in dsl.deps[b[1]]}}
Marker(e) == IF e \in DOMAIN edges THEN edges[e] ELSE "PENDING"

\* _is_reachable: one dependency ignores the join strategy.
IsReachable(t) ==
  LET visited == {e \in InEdges(t) : Marker(e) = "VISITED"}
  IN  IF dsl.join[t.ref] = "any" /\ Cardinality(InEdges(t)) > 1
      THEN visited # {}
      ELSE visited = InEdges(t)

\* _skip_should_propagate: every dependency was skipped in this stream.
SkipShouldPropagate(t) ==
  /\ InEdges(t) # {}
  /\ \A e \in InEdges(t) : Marker(e) = "SKIPPED"

-----------------------------------------------------------------------------
(***************************************************************************)
(* _queue_tasks: mark every outgoing edge of t, decrement the indegree of  *)
(* each successor in t's stream (entered in the dict on first use) and     *)
(* enqueue the ones that reach 0.                                          *)
(***************************************************************************)
\* Mutant: several edges from one source are counted once.
NDepsDistinctSources(x) == Cardinality({d[1] : d \in dsl.deps[x.ref]})

NDeps(x) == Cardinality(dsl.deps[x.ref])
Indegree(x) == IF x \in DOMAIN indegrees THEN indegrees[x] ELSE NDeps(x)
EdgesTo(t, x) == {e \in OutEdges(t) : e.dst = x.ref}
NextTasks(t) == {TaskOf(e.dst, t.stream) : e \in OutEdges(t)}

\* Mutant: a successor is enqueued one dependency early.
QueueTasksEarly(t, unreachable) ==
  /\ edges' = [e \in DOMAIN edges \union OutEdges(t) |->
                 IF e \notin OutEdges(t) THEN edges[e]
                 ELSE IF e \in unreachable THEN "SKIPPED" ELSE "VISITED"]
  /\ indegrees' = [x \in DOMAIN indegrees \union NextTasks(t) |->
                     IF x \in NextTasks(t)
                     THEN Indegree(x) - Cardinality(EdgesTo(t, x))
                     ELSE indegrees[x]]
  /\ queue' = queue \union
       {x \in NextTasks(t) : Indegree(x) <= Cardinality(EdgesTo(t, x)) + 1}

\* Mutant: an unreachable edge is entered in the dict but left PENDING.
QueueTasksUnmarked(t, unreachable) ==
  /\ edges' = [e \in DOMAIN edges \union OutEdges(t) |->
                 IF e \notin OutEdges(t) THEN edges[e]
                 ELSE IF e \in unreachable THEN "PENDING" ELSE "VISITED"]
  /\ indegrees' = [x \in DOMAIN indegrees \union NextTasks(t) |->
                     IF x \in NextTasks(t)
                     THEN Indegree(x) - Cardinality(EdgesTo(t, x))
                     ELSE indegrees[x]]
  /\ queue' = queue \union
       {x \in NextTasks(t) : /\ Indegree(x) > 0
                             /\ Indegree(x) <= Cardinality(EdgesTo(t, x))}

QueueTasks(t, unreachable) ==
  /\ edges' = [e \in DOMAIN edges \union OutEdges(t) |->
                 IF e \notin OutEdges(t) THEN edges[e]
                 ELSE IF e \in unreachable THEN "SKIPPED" ELSE "VISITED"]
  /\ indegrees' = [x \in DOMAIN indegrees \union NextTasks(t) |->
                     IF x \in NextTasks(t)
                     THEN Indegree(x) - Cardinality(EdgesTo(t, x))
                     ELSE indegrees[x]]
  /\ queue' = queue \union
       {x \in NextTasks(t) : /\ Indegree(x) > 0
                             /\ Indegree(x) <= Cardinality(EdgesTo(t, x))}

\* The coroutine of t ends; the main loop waits for the first one to end.
Complete(t) ==
  /\ pending' = [x \in DOMAIN pending \ {t} |-> pending[x]]
  /\ completed_tasks' = completed_tasks \union {t}
  /\ loop' = IF loop = "waiting" THEN "ready" ELSE loop

\* The coroutine of t suspends at the given point.
Suspend(t, at) ==
  /\ pending' = [pending EXCEPT ![t] = [at |-> at, n |-> 0]]
  /\ UNCHANGED <<completed_tasks, loop>>

(***************************************************************************)
(* _handle_success_path and _handle_error_path.  raised is what the        *)
(* failing code itself has already put in task_exceptions.                 *)
(***************************************************************************)
HandleSuccessPath(t) ==
  /\ QueueTasks(t, {e \in OutEdges(t) : e.type # "success"})
  /\ Complete(t)
  /\ UNCHANGED <<dsl, excs, scopes>>

ErrorPath(t, raised) ==
  LET nonErr == {e \in OutEdges(t) : e.type # "error"}
  IN  /\ Complete(t)
      /\ \/ /\ nonErr # OutEdges(t)
            /\ QueueTasks(t, nonErr)
            /\ task_exceptions' = task_exceptions \union raised
            /\ UNCHANGED stream_exceptions
         \/ /\ nonErr = OutEdges(t)
            /\ t.stream = ROOT_STREAM
            /\ task_exceptions' = task_exceptions \union raised \union {t.ref}
            /\ UNCHANGED <<graph, stream_exceptions>>
         \/ /\ nonErr = OutEdges(t)
            /\ t.stream # ROOT_STREAM
            /\ QueueTasks(t, OutEdges(t))
            /\ stream_exceptions' = stream_exceptions \union {t.stream}
            /\ task_exceptions' = task_exceptions \union raised

HandleErrorPath(t) == ErrorPath(t, {}) /\ UNCHANGED <<dsl, scopes>>

-----------------------------------------------------------------------------
(***************************************************************************)
(* Gather.  The scatter of an execution stream is the leaf of its path, in *)
(* the parent stream, whatever gather is reached there.                    *)
(***************************************************************************)
ParentScatter(t) == TaskOf(LeafRef(t.stream), Parent(t.stream))
ParentGather(t)  == TaskOf(t.ref, Parent(t.stream))
TaskObserved(t)  == t \in DOMAIN open_streams

SetSlot(t, value) ==
  LET g     == ParentGather(t)
      size  == task_streams[ParentScatter(t)]
      slots == IF g \in DOMAIN results THEN results[g]
               ELSE [i \in 0 .. size - 1 |-> "unset"]
  IN  results' = [x \in DOMAIN results \union {g} |->
                    IF x = g THEN [slots EXCEPT ![LeafIndex(t.stream)] = value]
                    ELSE results[x]]

\* Close the stream of t: the last one to close finalizes the gather.
\* Mutant: the stream before the last one already finalizes.
LastToCloseEarly(t) == open_streams[ParentScatter(t)] \in {1, 2}

LastToClose(t) == open_streams[ParentScatter(t)] = 1

CloseStream(t) ==
  /\ open_streams' = [open_streams EXCEPT ![ParentScatter(t)] = @ - 1]
  /\ IF LastToClose(t) THEN Suspend(t, "finalize_gather") ELSE Complete(t)
  /\ UNCHANGED <<dsl, graph, excs, task_streams>>

\* Mutant: the error of the stream is not placed in its slot.
SetErrorSlotForgotten(t) == UNCHANGED results

SetErrorSlot(t) ==
  IF t.stream \in stream_exceptions
  THEN SetSlot(t, "error")
  ELSE UNCHANGED results

\* Mutant: a stream that was skipped up to the gather is not closed.
GatherSkippedStaysOpen(t) ==
  /\ Complete(t)
  /\ UNCHANGED <<dsl, graph, excs, scopes>>

\* _handle_gather in an execution stream that was skipped up to the gather.
GatherSkipped(t) ==
  \/ /\ ~ TaskObserved(ParentScatter(t))   \* KeyError
     /\ HandleErrorPath(t)
  \/ /\ TaskObserved(ParentScatter(t))
     /\ CloseStream(t)
     /\ SetErrorSlot(t)
  \/ /\ TaskObserved(ParentScatter(t))     \* the arguments do not validate
     /\ LastToClose(t) /\ t.ref \in dsl.mayFailSync
     /\ open_streams' = [open_streams EXCEPT ![ParentScatter(t)] = @ - 1]
     /\ SetErrorSlot(t)
     /\ ErrorPath(t, {})
     /\ UNCHANGED <<dsl, task_streams>>

HandleGather(t, isSkipping) ==
  \/ /\ t.stream = ROOT_STREAM             \* RuntimeError in both cases
     /\ HandleErrorPath(t)
  \/ /\ IsSkipStream(t.stream)
     /\ IF TaskObserved(ParentScatter(t))
        THEN /\ Suspend(t, "finalize_empty")
             /\ UNCHANGED <<dsl, graph, excs, scopes>>
        ELSE /\ QueueTasks(t, OutEdges(t))
             /\ Complete(t)
             /\ UNCHANGED <<dsl, excs, scopes>>
  \/ /\ t.stream # ROOT_STREAM /\ ~ IsSkipStream(t.stream)
     /\ isSkipping
     /\ GatherSkipped(t)
  \/ /\ t.stream # ROOT_STREAM /\ ~ IsSkipStream(t.stream)
     /\ ~ isSkipping
     /\ \/ /\ Suspend(t, "gather_item")
           /\ UNCHANGED <<dsl, graph, excs, scopes>>
        \/ t.ref \in dsl.mayFailSync /\ HandleErrorPath(t)

(***************************************************************************)
(* A skipped or empty scatter opens a skip stream below its own stream, in *)
(* which all its outgoing edges are skipped.                               *)
(***************************************************************************)
QueueSkipStream(t) ==
  LET skipTask == TaskOf(t.ref, Child(t.stream, t.ref, SKIP))
  IN  QueueTasks(skipTask, OutEdges(skipTask))

\* Mutant: a skipped action ends without deciding its outgoing edges.
HandleSkipPathDropsEdges(t) ==
  CASE dsl.kind[t.ref] = "scatter" ->
         /\ QueueSkipStream(t)
         /\ Complete(t)
         /\ UNCHANGED <<dsl, excs, scopes>>
    [] dsl.kind[t.ref] = "gather" -> HandleGather(t, TRUE)
    [] OTHER -> Complete(t) /\ UNCHANGED <<dsl, graph, excs, scopes>>

HandleSkipPath(t) ==
  CASE dsl.kind[t.ref] = "scatter" ->
         /\ QueueSkipStream(t)
         /\ Complete(t)
         /\ UNCHANGED <<dsl, excs, scopes>>
    [] dsl.kind[t.ref] = "gather" -> HandleGather(t, TRUE)
    [] OTHER ->
         /\ QueueTasks(t, OutEdges(t))
         /\ Complete(t)
         /\ UNCHANGED <<dsl, excs, scopes>>

-----------------------------------------------------------------------------
(***************************************************************************)
(* _schedule_task.  The stagger delay of a scattered task is one more      *)
(* suspension that reads and writes nothing; it is part of "run_if".       *)
(***************************************************************************)
Proceed(t) ==
  IF dsl.kind[t.ref] = "gather"
  THEN HandleGather(t, FALSE)
  ELSE \/ /\ Suspend(t, IF dsl.kind[t.ref] = "scatter" THEN "scatter_input"
                        ELSE "execute")
          /\ UNCHANGED <<dsl, graph, excs, scopes>>
       \/ t.ref \in dsl.mayFailSync /\ HandleErrorPath(t)

At(t, at) == t \in DOMAIN pending /\ pending[t].at = at /\ loop # "stopping"

\* Force-skip first, then reachability (TaskUnreachable is handled as an
\* error), then run_if.
ScheduleTask(t) ==
  /\ At(t, "created")
  /\ \/ /\ SkipShouldPropagate(t)
        /\ HandleSkipPath(t)
     \/ /\ ~ SkipShouldPropagate(t)
        /\ ~ IsReachable(t)
        /\ HandleErrorPath(t)
     \/ /\ ~ SkipShouldPropagate(t)
        /\ IsReachable(t)
        /\ IF t.ref \in dsl.runIf
           THEN Suspend(t, "run_if") /\ UNCHANGED <<dsl, graph, excs, scopes>>
           ELSE Proceed(t)

(***************************************************************************)
(* Activities complete between activations of the workflow; the scatter    *)
(* loop runs inside one activation, so nothing that was started in a       *)
(* stream it has just created can be resolved before the loop ends.        *)
(***************************************************************************)
Resolvable(t) ==
  \A x \in DOMAIN pending :
    pending[x].at = "scattering" =>
      ~ /\ Len(t.stream) > Len(x.stream)
        /\ SubSeq(t.stream, 1, Len(x.stream)) = x.stream
        /\ t.stream[Len(x.stream) + 1][1] = x.ref

\* An awaited activity of t ends in an error (or in the cancellation that
\* start() requested, which the SDK raises as an error).
ActivityFails(t) ==
  /\ t \in DOMAIN pending
  /\ pending[t].at \notin {"created", "scattering"}
  /\ t.ref \in dsl.mayFail \/ loop = "stopping"
  /\ Resolvable(t)
  /\ HandleErrorPath(t)

\* _task_should_skip returns.
RunIfResolved(t) ==
  /\ At(t, "run_if")
  /\ Resolvable(t)
  /\ HandleSkipPath(t) \/ Proceed(t)

ExecuteResolved(t) ==
  /\ At(t, "execute")
  /\ Resolvable(t)
  /\ HandleSuccessPath(t)

(***************************************************************************)
(* _handle_scatter.  One stream per item, yielding to the event loop after *)
(* each one; open_streams is entered after the loop.                       *)
(***************************************************************************)
CreateStream(t, i, n) ==
  /\ task_streams' = [x \in DOMAIN task_streams \union {t} |->
                        IF x = t THEN i + 1 ELSE task_streams[x]]
  /\ QueueTasks(TaskOf(t.ref, Child(t.stream, t.ref, i)), {})
  /\ pending' = [pending EXCEPT ![t] = [at |-> "scattering", n |-> n]]
  /\ UNCHANGED <<dsl, excs, open_streams, results, completed_tasks, loop>>

SetOpenStreams(t, n) ==
  open_streams' = [x \in DOMAIN open_streams \union {t} |->
                     IF x = t THEN n ELSE open_streams[x]]

ScatterInputResolved(t) ==
  /\ At(t, "scatter_input")
  /\ Resolvable(t)
  /\ \/ /\ task_streams' = [x \in DOMAIN task_streams \union {t} |->
                              IF x = t THEN 0 ELSE task_streams[x]]
        /\ SetOpenStreams(t, 0)
        /\ QueueSkipStream(t)
        /\ Complete(t)
        /\ UNCHANGED <<dsl, excs, results>>
     \/ \E n \in 1 .. MaxItems : CreateStream(t, 0, n)

\* Mutant: the loop goes on after the last item.
ScatterNextForever(t) ==
  /\ At(t, "scattering")
  /\ LET made == task_streams[t]
         n    == pending[t].n
     IN  \/ /\ made < n
            /\ CreateStream(t, made, n)
         \/ /\ made = n
            /\ SetOpenStreams(t, n)
            /\ UNCHANGED <<dsl, graph, excs, task_streams, results, pending,
                           completed_tasks, loop>>

ScatterNext(t) ==
  /\ At(t, "scattering")
  /\ LET made == task_streams[t]
         n    == pending[t].n
     IN  \/ /\ made < n
            /\ CreateStream(t, made, n)
         \/ /\ made = n
            /\ SetOpenStreams(t, n)
            /\ Complete(t)
            /\ UNCHANGED <<dsl, graph, excs, task_streams, results>>

(***************************************************************************)
(* The suspension points of _handle_gather and _handle_gather_result.      *)
(***************************************************************************)
GatherItemResolved(t) ==
  /\ At(t, "gather_item")
  /\ Resolvable(t)
  /\ \/ /\ ~ TaskObserved(ParentScatter(t))   \* KeyError
        /\ HandleErrorPath(t)
     \/ /\ TaskObserved(ParentScatter(t))
        /\ CloseStream(t)
        /\ SetSlot(t, "item")

GatherErrors(t) ==
  /\ ParentGather(t) \in DOMAIN results
  /\ \E i \in DOMAIN results[ParentGather(t)] :
       results[ParentGather(t)][i] = "error"

\* Mutant: the error is raised without registering it in task_exceptions.
FinalizeGatherUnregistered(t) ==
  /\ At(t, "finalize_gather")
  /\ Resolvable(t)
  /\ IF t.ref \in dsl.raises /\ GatherErrors(t)
     THEN ErrorPath(t, {}) /\ UNCHANGED <<dsl, scopes>>
     ELSE Suspend(t, "noop_gather") /\ UNCHANGED <<dsl, graph, excs, scopes>>

FinalizeGatherResolved(t) ==
  /\ At(t, "finalize_gather")
  /\ Resolvable(t)
  /\ IF t.ref \in dsl.raises /\ GatherErrors(t)
     THEN ErrorPath(t, {t.ref}) /\ UNCHANGED <<dsl, scopes>>
     ELSE Suspend(t, "noop_gather") /\ UNCHANGED <<dsl, graph, excs, scopes>>

NoopGatherResolved(t) ==
  /\ At(t, "noop_gather")
  /\ Resolvable(t)
  /\ QueueTasks(ParentGather(t), {})
  /\ Complete(t)
  /\ UNCHANGED <<dsl, excs, scopes>>

FinalizeEmptyResolved(t) ==
  /\ At(t, "finalize_empty")
  /\ Resolvable(t)
  /\ QueueTasks(ParentGather(t), {})
  /\ Complete(t)
  /\ results' = [x \in DOMAIN results \union {ParentGather(t)} |->
                   IF x = ParentGather(t) THEN << >> ELSE results[x]]
  /\ UNCHANGED <<dsl, excs, task_streams, open_streams>>

-----------------------------------------------------------------------------
(***************************************************************************)
(* The main loop of start().  It drains the whole queue without            *)
(* suspending, then waits until one of the running coroutines ends.        *)
(***************************************************************************)
StartQueued ==
  /\ loop = "ready"
  /\ task_exceptions = {}
  /\ queue # {} \/ DOMAIN pending # {}
  /\ pending' = [t \in DOMAIN pending \union queue |->
                   IF t \in queue THEN [at |-> "created", n |-> 0]
                   ELSE pending[t]]
  /\ queue' = {}
  /\ loop' = "waiting"
  /\ UNCHANGED <<dsl, indegrees, edges, completed_tasks, excs, scopes>>

AllTasksCompleted ==
  /\ loop = "ready"
  /\ task_exceptions = {}
  /\ queue = {} /\ DOMAIN pending = {}
  /\ loop' = "returned"
  /\ UNCHANGED <<dsl, graph, pending, completed_tasks, excs, scopes>>

\* Stop on the first exception and cancel what is still running.  A
\* coroutine that has not started never does.
StopOnException ==
  /\ loop = "ready"
  /\ task_exceptions # {}
  /\ pending' = [t \in {x \in DOMAIN pending : pending[x].at # "created"} |->
                   pending[t]]
  /\ loop' = "stopping"
  /\ UNCHANGED <<dsl, graph, completed_tasks, excs, scopes>>

\* CancelledError passes through `except Exception` to the finally block.
Cancelled(t) ==
  /\ loop = "stopping"
  /\ t \in DOMAIN pending
  /\ Complete(t)
  /\ UNCHANGED <<dsl, graph, excs, scopes>>

ReturnExceptions ==
  /\ loop = "stopping"
  /\ DOMAIN pending = {}
  /\ loop' = "returned"
  /\ UNCHANGED <<dsl, graph, pending, completed_tasks, excs, scopes>>

Returned == loop = "returned" /\ UNCHANGED vars

-----------------------------------------------------------------------------
EmptyDict == [x \in {} |-> 0]
RootTasks(w) == {[ref |-> r, stream |-> ROOT_STREAM] : r \in w.refs}

\* __init__ and the first lines of start(): every task of the root stream
\* has its indegree, the ones without dependencies are queued.
Init ==
  /\ dsl \in Workflows
  /\ indegrees = [t \in RootTasks(dsl) |-> NDeps(t)]
  /\ queue = {t \in RootTasks(dsl) : dsl.deps[t.ref] = {}}
  /\ edges = EmptyDict
  /\ pending = EmptyDict
  /\ completed_tasks = {}
  /\ task_exceptions = {}
  /\ stream_exceptions = {}
  /\ task_streams = EmptyDict
  /\ open_streams = EmptyDict
  /\ results = EmptyDict
  /\ loop = "ready"

TaskStep(t) ==
  \/ ScheduleTask(t)
  \/ RunIfResolved(t)
  \/ ExecuteResolved(t)
  \/ ActivityFails(t)
  \/ ScatterInputResolved(t)
  \/ ScatterNext(t)
  \/ GatherItemResolved(t)
  \/ FinalizeGatherResolved(t)
  \/ NoopGatherResolved(t)
  \/ FinalizeEmptyResolved(t)
  \/ Cancelled(t)

LoopStep ==
  \/ StartQueued
  \/ AllTasksCompleted
  \/ StopOnException
  \/ ReturnExceptions

Next ==
  \/ \E t \in DOMAIN pending : TaskStep(t)
  \/ LoopStep
  \/ Returned

Spec == Init /\ [][Next]_vars

\* Activities have a start-to-close timeout and timers fire, so a suspended
\* coroutine is eventually resumed; the event loop runs every ready callback.
FairSpec == Spec /\ WF_vars(LoopStep \/ \E t \in DOMAIN pending : TaskStep(t))

-----------------------------------------------------------------------------
(***************************************************************************)
(* Properties.                                                             *)
(***************************************************************************)
Phases == {"created", "run_if", "execute", "scatter_input", "scattering",
           "gather_item", "finalize_gather", "finalize_empty", "noop_gather"}

\* The state keeps its shape: an edge in the dict is decided, a coroutine is
\* at one of the suspension points of the scheduler.
TypeOK ==
  /\ dsl \in Workflows
  /\ queue \subseteq Task
  /\ DOMAIN indegrees \subseteq Task
  /\ \A t \in DOMAIN indegrees : indegrees[t] \in Int
  /\ DOMAIN edges \subseteq Edge
  /\ \A e \in DOMAIN edges : edges[e] \in {"VISITED", "SKIPPED"}
  /\ DOMAIN pending \subseteq Task
  /\ \A t \in DOMAIN pending : pending[t] \in [at : Phases, n : 0 .. MaxItems]
  /\ completed_tasks \subseteq Task
  /\ task_exceptions \subseteq dsl.refs
  /\ stream_exceptions \subseteq StreamId
  /\ DOMAIN task_streams \subseteq Task
  /\ \A t \in DOMAIN task_streams : task_streams[t] \in Nat
  /\ DOMAIN open_streams \subseteq Task
  /\ \A t \in DOMAIN open_streams : open_streams[t] \in Int
  /\ DOMAIN results \subseteq Task
  /\ loop \in {"ready", "waiting", "stopping", "returned"}

\* A task is queued, running or completed only when every one of its
\* dependency edges in its stream has been decided: what _is_reachable and
\* _skip_should_propagate read is never PENDING.
ReadyMeansDecided ==
  \A t \in queue \union DOMAIN pending \union completed_tasks :
    InEdges(t) \subseteq DOMAIN edges

\* The indegree of a task is the number of its dependency edges that are
\* still undecided: every edge is counted down exactly once, whichever
\* coroutine calls _queue_tasks for its source (for a gather, the last of its
\* streams to close).
IndegreeExact ==
  \A t \in DOMAIN indegrees :
    indegrees[t] = Cardinality(InEdges(t) \ DOMAIN edges)

\* A task is enqueued and started at most once: the indegree reaches 0 once,
\* and no coroutine is started again for a task that is running or completed.
RunsOnce ==
  /\ queue \intersect (DOMAIN pending \union completed_tasks) = {}
  /\ DOMAIN pending \intersect completed_tasks = {}

\* When start() returns without exceptions no task is left half decided: one
\* of whose dependencies was decided has completed.
NoStrandedJoin ==
  loop = "returned" /\ task_exceptions = {} =>
    \A t \in DOMAIN indegrees :
      t \in completed_tasks \/ InEdges(t) \intersect DOMAIN edges = {}

\* A gather is finalized only after the gather task of every stream of its
\* scatter has run: the barrier of _handle_gather.
GatherBarrier ==
  \A t \in DOMAIN pending :
    pending[t].at \in {"finalize_gather", "noop_gather"} =>
      \A i \in 0 .. task_streams[ParentScatter(t)] - 1 :
        TaskOf(t.ref, Child(Parent(t.stream), LeafRef(t.stream), i))
          \in completed_tasks \union {t}

\* When start() returns without exceptions every stream a scatter opened has
\* been closed by a gather (for workflows where every scatter has one).
AllStreamsClosed ==
  loop = "returned" /\ task_exceptions = {} =>
    \A t \in DOMAIN open_streams : open_streams[t] = 0

\* When a gather is finalized, the slot of every stream that failed holds
\* its error.
StreamErrorsGathered ==
  \A t \in DOMAIN pending :
    pending[t].at \in {"finalize_gather", "noop_gather"} =>
      \A i \in 0 .. task_streams[ParentScatter(t)] - 1 :
        Child(Parent(t.stream), LeafRef(t.stream), i) \in stream_exceptions =>
          /\ ParentGather(t) \in DOMAIN results
          /\ results[ParentGather(t)][i] = "error"

\* With a gather that raises on errors behind every scatter, a run in which
\* an execution stream failed does not return as a success.
RaisingGathersFail ==
  /\ loop = "returned"
  /\ stream_exceptions # {}
  /\ \A r \in dsl.refs : dsl.kind[r] = "gather" => r \in dsl.raises
  => task_exceptions # {}

\* A join with strategy "any" one of whose parents was not skipped is
\* executed, whatever happened to the other branch (the comment of
\* _queue_tasks on diamond-shaped graphs).
JoinAnyRuns ==
  loop = "returned" /\ task_exceptions = {} =>
    \A t \in DOMAIN indegrees :
      /\ dsl.join[t.ref] = "any"
      /\ \E e \in InEdges(t) : Marker(e) = "VISITED"
      => t \in completed_tasks

\* A gather that has run in an execution stream found its scatter in the
\* tracking structures (the comment at the top of the scatter's stream
\* creation; _handle_gather looks the scatter up in open_streams).
GatherFindsScatter ==
  \A t \in completed_tasks :
    /\ dsl.kind[t.ref] = "gather"
    /\ t.stream # ROOT_STREAM /\ ~ IsSkipStream(t.stream)
    => TaskObserved(ParentScatter(t))

\* The run always comes to an end.
Termination == <>(loop = "returned")
=============================================================================
