------------------------ MODULE ScatterScopes_proofs ------------------------
(***************************************************************************)
(* The scheduler on workflows with scatters: the accounting of             *)
(* dependencies in every stream, and the barrier of a gather.              *)
(***************************************************************************)
EXTENDS DSLScheduler_proofs

(***************************************************************************)
(* Scopes.  The scope of an action is the scatter whose streams it runs in *)
(* (a set of one scatter, or empty for the root), as validate_structure    *)
(* assigns it: what depends on a scatter is in its scope, what depends on  *)
(* a gather is in the scope of the gather's scatter.  The rank of an       *)
(* action shows that the dependencies have no cycle.                       *)
(***************************************************************************)
SuccScope(w, scope, r) ==
  IF w.kind[r] = "scatter" THEN {r}
  ELSE IF w.kind[r] = "gather" THEN UNION {scope[q] : q \in scope[r]}
  ELSE scope[r]

ScopedBy(w, scope, rank) ==
  /\ scope \in [w.refs -> {{}} \union {{q} : q \in w.refs}]
  /\ rank \in [w.refs -> Nat]
  /\ \A r \in w.refs : \A d \in w.deps[r] :
       rank[d[1]] < rank[r] /\ scope[r] = SuccScope(w, scope, d[1])
  /\ \A r \in w.refs : w.deps[r] = {} => scope[r] = {}
  /\ \A r \in w.refs : w.kind[r] = "gather" => scope[r] # {}
  /\ \A g, h \in w.refs :
       w.kind[g] = "gather" /\ w.kind[h] = "gather" /\ scope[g] = scope[h] => g = h

\* Scatters and gathers do not fail and are never unreachable, and an action
\* fails only while it is executed; a gather may still raise what its streams
\* failed with.
OnlyActionsFail(w) ==
  /\ w.mayFailSync = {}
  /\ \A r \in w.mayFail : w.kind[r] = "action"
  /\ \A r \in w.refs :
       w.kind[r] = "action" \/ w.join[r] = "any" \/ Cardinality(w.deps[r]) <= 1

Scoped ==
  \A w \in Workflows :
    /\ OnlyActionsFail(w)
    /\ \E scope, rank : ScopedBy(w, scope, rank)

ScopesOf(w) == CHOOSE f : ScopedBy(w, f[1], f[2])
Scope(w) == ScopesOf(w)[1]
Rank(w)  == ScopesOf(w)[2]

\* The scope of a stream, and the scatter task that made it.
Home(s) == IF s = ROOT_STREAM THEN {} ELSE {LeafRef(s)}
Maker(s) == TaskOf(LeafRef(s), Parent(s))

-----------------------------------------------------------------------------
(***************************************************************************)
(* The inductive invariant.                                                *)
(***************************************************************************)
Calm    == task_exceptions = {}
Started == DOMAIN pending \union completed_tasks
\* The tasks that run, have run or will run.
Alive   == Started \union {x \in queue : Calm}

\* The skip stream of a scatter that was skipped itself: nobody gathers it.
Dead(s) == IsSkipStream(s) /\ Maker(s) \notin DOMAIN open_streams

\* The suspension points between the closing of a gather's last stream and
\* its result in the parent stream.
Finalizing(t) == t \in DOMAIN pending /\ pending[t].at \in {"finalize_gather", "noop_gather"}
Closing(t) == Finalizing(t) \/ (t \in DOMAIN pending /\ pending[t].at = "finalize_empty")
Scattering(t) == t \in DOMAIN pending /\ pending[t].at = "scattering"

\* A stream in which an edge is decided was made by its scatter.
StreamMade(s) ==
  s # ROOT_STREAM =>
    LET p == Maker(s)
        i == LeafIndex(s)
    IN  /\ dsl.kind[LeafRef(s)] = "scatter"
        /\ i = SKIP => /\ p \in completed_tasks
                       /\ p \in DOMAIN task_streams => task_streams[p] = 0
        /\ i # SKIP => p \in DOMAIN task_streams /\ i \in 0 .. task_streams[p] - 1

StreamsMade == \A e \in DOMAIN edges : StreamMade(e.stream)

\* Dependencies lead away from the scatter of a stream.
RanksGrow ==
  \A e \in DOMAIN edges :
    e.stream # ROOT_STREAM => Rank(dsl)[e.src] >= Rank(dsl)[LeafRef(e.stream)]

EntriesAtRoot ==
  \A t \in Started \union queue : dsl.deps[t.ref] = {} => t.stream = ROOT_STREAM

\* What the tables say of a scatter task, and where it is.
ScattersKnown ==
  /\ DOMAIN open_streams \subseteq DOMAIN task_streams \intersect completed_tasks
  /\ \A p \in DOMAIN task_streams :
       /\ p \in Started /\ dsl.kind[p.ref] = "scatter" /\ ~ IsSkipStream(p.stream)
       /\ p \in DOMAIN pending => pending[p].at = "scattering"
       /\ loop \in {"ready", "waiting"} /\ p \in completed_tasks => p \in DOMAIN open_streams

\* Who decides the edges of a task: the task itself, its scatter in the
\* streams below, or the gather that has closed the last stream below.
GatherSpent(x) ==
  \E u \in completed_tasks :
    /\ dsl.kind[u.ref] = "gather" /\ u.stream # ROOT_STREAM /\ ParentGather(u) = x
    /\ ParentScatter(u) \in DOMAIN open_streams
    /\ open_streams[ParentScatter(u)] = 0

SourcesSpent ==
  \A e \in DOMAIN edges :
    \/ TaskOf(e.src, e.stream) \in completed_tasks
    \/ e.stream # ROOT_STREAM /\ LeafRef(e.stream) = e.src
    \/ GatherSpent(TaskOf(e.src, e.stream))

Undecided(x) == OutEdges(x) \intersect DOMAIN edges = {}

OwnUndecided ==
  \A t \in DOMAIN pending \union {x \in queue : Calm} : Undecided(t)

ClosersUnique ==
  /\ \A t \in DOMAIN pending : Closing(t) =>
       /\ Undecided(ParentGather(t))
       /\ ParentScatter(t) \in DOMAIN open_streams
       /\ open_streams[ParentScatter(t)] = 0
  /\ \A t, u \in DOMAIN pending :
       Closing(t) /\ Closing(u) /\ ParentScatter(t) = ParentScatter(u) => t = u

\* A task runs in a stream of its scope, or in a stream nobody gathers.
PlacedAt(t) == Scope(dsl)[t.ref] = Home(t.stream) \/ Dead(t.stream)
Placed == \A t \in Alive : PlacedAt(t)

\* In a skip stream everything is skipped.
SkipsSkip ==
  /\ \A t \in Alive : IsSkipStream(t.stream) => \A e \in InEdges(t) : Marker(e) = "SKIPPED"
  /\ Calm => \A e \in DOMAIN edges : IsSkipStream(e.stream) => edges[e] = "SKIPPED"

\* While a scatter makes its streams nothing in them is decided but by it.
LoopsVisit ==
  \A p \in DOMAIN pending : Scattering(p) =>
    \A e \in DOMAIN edges :
      e.stream # ROOT_STREAM /\ Maker(e.stream) = p => edges[e] = "VISITED"

\* The streams of a scatter whose gather has not ended.
Unclosed(p) ==
  {i \in 0 .. task_streams[p] - 1 :
     \A g \in dsl.refs :
       dsl.kind[g] = "gather" /\ Scope(dsl)[g] = {p.ref} =>
         LET u == TaskOf(g, Child(p.stream, p.ref, i))
         IN  u \notin completed_tasks /\ ~ Finalizing(u)}

OpenCounts ==
  \A p \in DOMAIN open_streams :
    /\ Cardinality(Unclosed(p)) <= open_streams[p]
    /\ open_streams[p] <= task_streams[p]

PhaseFit(t) ==
  /\ pending[t].at = "run_if" => t.ref \in dsl.runIf
  /\ pending[t].at \in {"scatter_input", "scattering"} => dsl.kind[t.ref] = "scatter"
  /\ pending[t].at = "execute" => dsl.kind[t.ref] = "action"
  /\ pending[t].at = "gather_item" \/ Closing(t) =>
       dsl.kind[t.ref] = "gather" /\ t.stream # ROOT_STREAM
  /\ pending[t].at = "gather_item" \/ Finalizing(t) => ~ IsSkipStream(t.stream)
  /\ pending[t].at = "finalize_empty" => IsSkipStream(t.stream)
  /\ IsSkipStream(t.stream) => pending[t].at \in {"created", "finalize_empty"}

PhasesFit ==
  /\ \A t \in DOMAIN pending : PhaseFit(t)
  /\ Calm => loop # "stopping"
  /\ loop = "returned" => DOMAIN pending = {}

TreeInv   == StreamsMade /\ RanksGrow /\ EntriesAtRoot /\ ScattersKnown /\ PhasesFit
SpentInv  == SourcesSpent /\ OwnUndecided /\ ClosersUnique
PlaceInv  == Placed /\ SkipsSkip /\ LoopsVisit
ScopeInv  == TypeOK /\ Counted /\ TreeInv /\ SpentInv /\ PlaceInv /\ OpenCounts

-----------------------------------------------------------------------------
(***************************************************************************)
(* Streams and scopes.                                                     *)
(***************************************************************************)
\* A child stream has the scatter and the index it was made with.
LEMMA ChildParts ==
  ASSUME NEW s \in StreamId, NEW r \in dsl.refs, NEW i \in Int
  PROVE  /\ Child(s, r, i) # ROOT_STREAM
         /\ LeafRef(Child(s, r, i)) = r
         /\ LeafIndex(Child(s, r, i)) = i
         /\ Parent(Child(s, r, i)) = s
<1> DEFINE c == Append(s, <<r, i>>)
<1>1. s \in Seq(dsl.refs \X Int)  BY DEF StreamId
<1>2. Len(s) \in Nat /\ Len(c) = Len(s) + 1 /\ c[Len(c)] = <<r, i>>
  BY <1>1
<1>3. c # << >>  BY <1>2
<1>4. SubSeq(c, 1, Len(c) - 1) = s
  <2>1. SubSeq(c, 1, Len(s)) = s  BY <1>1
  <2>2. QED  BY <1>2, <2>1
<1>5. QED  BY <1>2, <1>3, <1>4 DEF Child, ROOT_STREAM, LeafRef, LeafIndex, Parent

\* A stream other than the root is a child of its parent.
LEMMA StreamParts ==
  ASSUME NEW s \in StreamId, s # ROOT_STREAM
  PROVE  /\ LeafRef(s) \in dsl.refs /\ LeafIndex(s) \in Int /\ Parent(s) \in StreamId
         /\ s = Child(Parent(s), LeafRef(s), LeafIndex(s))
<1>1. s \in Seq(dsl.refs \X Int) /\ Len(s) \in Nat /\ Len(s) > 0
  BY EmptySeq DEF StreamId, ROOT_STREAM
<1>2. s[Len(s)] \in dsl.refs \X Int  BY <1>1
<1>3. s[Len(s)] = <<s[Len(s)][1], s[Len(s)][2]>> /\ s[Len(s)][1] \in dsl.refs /\ s[Len(s)][2] \in Int
  BY <1>2
<1>4. Parent(s) \in StreamId  BY ParentStream
<1>5. s = Append(SubSeq(s, 1, Len(s) - 1), s[Len(s)])
  BY <1>1
<1>6. QED  BY <1>3, <1>4, <1>5 DEF LeafRef, LeafIndex, Child, Parent

\* The laws of scopes and ranks.
LEMMA ScopeLaws ==
  ASSUME Scoped, TypeOK
  PROVE  ScopedBy(dsl, Scope(dsl), Rank(dsl)) /\ OnlyActionsFail(dsl)
<1>1. OnlyActionsFail(dsl) /\ \E scope, rank : ScopedBy(dsl, scope, rank)
  BY DEF Scoped, TypeOK
<1>2. PICK scope, rank : ScopedBy(dsl, scope, rank)  BY <1>1
<1>3. \E f : ScopedBy(dsl, f[1], f[2])
  <2> DEFINE f == <<scope, rank>>
  <2>1. f[1] = scope /\ f[2] = rank  OBVIOUS
  <2>2. ScopedBy(dsl, f[1], f[2])  BY <1>2, <2>1
  <2>3. QED  BY <2>2
<1>4. QED  BY <1>1, <1>3 DEF ScopesOf, Scope, Rank

\* The stream of a task that has been reached was made by its scatter, and the
\* task is further from the entry points than that scatter.
LEMMA ReachedStream ==
  ASSUME Scoped, TypeOK, Counted, TreeInv, NEW t \in Started \union queue,
         t.stream # ROOT_STREAM
  PROVE  /\ t \in Task /\ InEdges(t) # {}
         /\ StreamMade(t.stream)
         /\ LeafRef(t.stream) \in dsl.refs
         /\ Rank(dsl)[t.ref] > Rank(dsl)[LeafRef(t.stream)]
<1>1. t \in Task /\ t.ref \in dsl.refs /\ t.stream \in StreamId
  BY DEF Started, TypeOK, Task
<1>2. LeafRef(t.stream) \in dsl.refs  BY <1>1, StreamParts
<1>3. PICK d \in dsl.deps[t.ref] : TRUE  BY DEF TreeInv, EntriesAtRoot
<1>4. DepEdge(d, t) \in InEdges(t)  BY <1>3 DEF InEdges
<1>5. DepEdge(d, t) \in DOMAIN edges
  BY <1>4 DEF Counted, ReadyMeansDecided, Started
<1>6. DepEdge(d, t).stream = t.stream /\ DepEdge(d, t).src = d[1]
  BY DEF DepEdge, EdgeOf
<1>7. StreamMade(t.stream)  BY <1>5, <1>6 DEF TreeInv, StreamsMade
<1>8. Rank(dsl)[d[1]] >= Rank(dsl)[LeafRef(t.stream)]
  BY <1>5, <1>6 DEF TreeInv, RanksGrow
<1>9. d[1] \in dsl.refs  BY <1>1, <1>3, DslOK DEF WorkflowOK
<1>10. Rank(dsl)[d[1]] < Rank(dsl)[t.ref] /\ Rank(dsl) \in [dsl.refs -> Nat]
  BY <1>1, <1>3, ScopeLaws DEF ScopedBy
<1>11. QED  BY <1>1, <1>2, <1>4, <1>7, <1>8, <1>9, <1>10

\* The parent of a stream that a scatter task made, and that task's own stream.
LEMMA MakerStarted ==
  ASSUME TypeOK, TreeInv, NEW s \in StreamId, s # ROOT_STREAM, StreamMade(s)
  PROVE  Maker(s) \in Started /\ Maker(s).ref = LeafRef(s) /\ Maker(s).stream = Parent(s)
BY DEF StreamMade, TreeInv, ScattersKnown, Maker, TaskOf, Started

\* A gather whose scatter is tracked runs in the scope of that scatter, and the
\* counterpart of the gather in the parent stream is not a task of its own.
LEMMA GatherBelow ==
  ASSUME Scoped, TypeOK, Counted, TreeInv, PlaceInv, NEW u \in Started,
         u.stream # ROOT_STREAM, ParentScatter(u) \in DOMAIN open_streams
  PROVE  /\ Scope(dsl)[u.ref] = {LeafRef(u.stream)}
         /\ ~ IsSkipStream(Parent(u.stream))
         /\ Scope(dsl)[LeafRef(u.stream)] = Home(Parent(u.stream))
         /\ Scope(dsl)[u.ref] # Home(Parent(u.stream))
         /\ ~ PlacedAt(ParentGather(u))
<1> DEFINE s == u.stream
           q == LeafRef(s)
           p == ParentScatter(u)
<1>1. /\ u \in Task /\ s \in StreamId /\ StreamMade(s) /\ q \in dsl.refs
  BY ReachedStream DEF Started, Task
<1>2. p.ref = q /\ p.stream = Parent(s) /\ p = Maker(s)
  BY DEF ParentScatter, TaskOf, Maker
<1>3. p \in completed_tasks /\ p \in Started /\ ~ IsSkipStream(p.stream)
  BY DEF TreeInv, ScattersKnown, Started
<1>4. Scope(dsl)[u.ref] = {q}
  <2>1. PlacedAt(u) /\ ~ Dead(s)
    BY <1>2 DEF PlaceInv, Placed, Alive, Dead
  <2>2. QED  BY <2>1 DEF PlacedAt, Home
<1>5. Scope(dsl)[q] = Home(Parent(s))
  <2>1. PlacedAt(p) /\ ~ Dead(p.stream)
    BY <1>3 DEF PlaceInv, Placed, Alive, Dead
  <2>2. QED  BY <1>2, <2>1 DEF PlacedAt
<1>6. Home(Parent(s)) # {q}
  <2>1. CASE Parent(s) = ROOT_STREAM  BY <2>1 DEF Home
  <2>2. CASE Parent(s) # ROOT_STREAM
    <3>1. /\ LeafRef(Parent(s)) \in dsl.refs
          /\ Rank(dsl)[q] > Rank(dsl)[LeafRef(Parent(s))]
      BY <1>2, <1>3, <2>2, ReachedStream DEF Started
    <3>2. Rank(dsl) \in [dsl.refs -> Nat]  BY ScopeLaws DEF ScopedBy
    <3>3. LeafRef(Parent(s)) # q  BY <1>1, <3>1, <3>2
    <3>4. QED  BY <2>2, <3>3 DEF Home
  <2>3. QED  BY <2>1, <2>2
<1>7. ~ PlacedAt(ParentGather(u))
  <2>1. ParentGather(u).ref = u.ref /\ ParentGather(u).stream = Parent(s)
    BY DEF ParentGather, TaskOf
  <2>2. QED  BY <1>2, <1>3, <1>4, <1>6, <2>1 DEF PlacedAt, Dead
<1>8. QED  BY <1>2, <1>3, <1>4, <1>5, <1>6, <1>7

\* An edge has one source task.
LEMMA OneSource ==
  ASSUME NEW x \in Task, NEW e \in OutEdges(x)
  PROVE  e.src = x.ref /\ e.stream = x.stream /\ TaskOf(e.src, e.stream) = x
<1>1. PICK d \in dsl.refs, y \in EdgeTypes : e = EdgeOf(x.ref, d, y, x.stream)
  BY OutEdge
<1>2. QED  BY <1>1 DEF EdgeOf, Task, TaskOf

\* What _queue_tasks does for a task whose edges are undecided.
LEMMA Emits ==
  ASSUME TypeOK, Counted, NEW x \in Task, NEW u, QueueTasks(x, u), dsl' = dsl, Undecided(x)
  PROVE  /\ IndegreeExact' /\ Untouched'
         /\ DOMAIN edges' = DOMAIN edges \union OutEdges(x)
         /\ \A e \in DOMAIN edges : edges'[e] = edges[e]
         /\ \A e \in OutEdges(x) : edges'[e] = IF e \in u THEN "SKIPPED" ELSE "VISITED"
         /\ queue \subseteq queue'
         /\ \A y \in queue' \ queue :
              /\ y \in Task /\ y \notin Started /\ y.stream = x.stream
              /\ InEdges(y) \subseteq DOMAIN edges'
              /\ \E d \in dsl.deps[y.ref] : d[1] = x.ref
<1>1. /\ IndegreeExact' /\ Untouched'
      /\ \A y \in queue' \ queue :
           /\ y \in Task /\ y \notin DOMAIN pending /\ y \notin completed_tasks
           /\ InEdges(y) \subseteq DOMAIN edges'
  BY QueueTasksExact DEF Undecided
<1>2. /\ DOMAIN edges' = DOMAIN edges \union OutEdges(x)
      /\ queue \subseteq queue' /\ queue' \subseteq queue \union NextTasks(x)
      /\ \A e \in OutEdges(x) : edges'[e] = IF e \in u THEN "SKIPPED" ELSE "VISITED"
      /\ \A e \in DOMAIN edges \ OutEdges(x) : edges'[e] = edges[e]
  BY DEF QueueTasks
<1>3. ASSUME NEW y \in NextTasks(x)
      PROVE  y.stream = x.stream /\ \E d \in dsl.deps[y.ref] : d[1] = x.ref
  <2>1. PICK e \in OutEdges(x) : y = TaskOf(e.dst, x.stream)  BY DEF NextTasks
  <2>2. PICK r \in dsl.refs, k \in EdgeTypes :
          <<x.ref, k>> \in dsl.deps[r] /\ e = EdgeOf(x.ref, r, k, x.stream)
    BY OutEdge
  <2>3. y.ref = r /\ y.stream = x.stream  BY <2>1, <2>2 DEF TaskOf, EdgeOf
  <2>4. QED  BY <2>2, <2>3
<1>4. QED  BY <1>1, <1>2, <1>3 DEF Undecided, Started

-----------------------------------------------------------------------------
(***************************************************************************)
(* The steps of a coroutine, by what they do to streams and edges.         *)
(***************************************************************************)
\* A task that is not skipped with everything before it.
Live(t) == pending[t].at # "created" \/ ~ SkipShouldPropagate(t)

\* How a task ends: skipped, by its success or its error edges, or as the
\* failure of its stream.
Outcome(t, u) ==
  \/ stream_exceptions' = stream_exceptions /\ u = OutEdges(t)
  \/ /\ stream_exceptions' = stream_exceptions /\ Live(t)
     /\ \E y \in EdgeTypes : u = {e \in OutEdges(t) : e.type # y}
  \/ /\ stream_exceptions' = stream_exceptions \union {t.stream} /\ Live(t)
     /\ u = OutEdges(t) /\ t.stream # ROOT_STREAM
     /\ Calm' => ~ IsSkipStream(t.stream)

\* The task decides its own edges and ends.
OwnStep(t, u) ==
  /\ QueueTasks(t, u) /\ Complete(t) /\ Outcome(t, u)
  /\ UNCHANGED <<dsl, task_streams, open_streams, results>>
  /\ dsl.kind[t.ref] = "action" \/ Dead(t.stream) \/ loop = "stopping" \/ Finalizing(t)
  /\ task_exceptions \subseteq task_exceptions'
  /\ Calm' => /\ dsl.kind[t.ref] = "action" \/ Dead(t.stream)
              /\ IsSkipStream(t.stream) => OutEdges(t) \subseteq u
  /\ ~ Scattering(t)
  /\ t.stream # ROOT_STREAM => ~ Scattering(ParentScatter(t))

\* The task ends a run that has failed.
DropStep(t) ==
  /\ Complete(t)
  /\ UNCHANGED <<dsl, graph, stream_exceptions, scopes>>
  /\ task_exceptions \subseteq task_exceptions' /\ ~ Calm'
  /\ Scattering(t) => loop = "stopping"
  /\ loop = "stopping" \/ t.stream = ROOT_STREAM

\* A scatter that is skipped.
SkipStep(t) ==
  /\ QueueSkipStream(t) /\ Complete(t)
  /\ UNCHANGED <<dsl, excs, scopes>>
  /\ dsl.kind[t.ref] = "scatter" /\ t \notin DOMAIN task_streams
  /\ SkipShouldPropagate(t) \/ t.ref \in dsl.runIf

\* A scatter without items.
EmptyStep(t) ==
  /\ QueueSkipStream(t) /\ Complete(t)
  /\ UNCHANGED <<dsl, excs, results>>
  /\ dsl.kind[t.ref] = "scatter" /\ t \notin DOMAIN task_streams
  /\ pending[t].at = "scatter_input" /\ ~ IsSkipStream(t.stream)
  /\ task_streams' = [x \in DOMAIN task_streams \union {t} |->
                        IF x = t THEN 0 ELSE task_streams[x]]
  /\ SetOpenStreams(t, 0)

\* One turn of the scatter loop, and its end.
MakeStep(t, i) ==
  /\ \E n : CreateStream(t, i, n)
  /\ dsl.kind[t.ref] = "scatter" /\ ~ IsSkipStream(t.stream)
  /\ pending[t].at \in {"scatter_input", "scattering"}
  /\ \/ t \notin DOMAIN task_streams /\ i = 0
     \/ t \in DOMAIN task_streams /\ i = task_streams[t]

EndStep(t) ==
  /\ Scattering(t)
  /\ SetOpenStreams(t, task_streams[t])
  /\ Complete(t)
  /\ UNCHANGED <<dsl, graph, excs, task_streams, results>>

\* A gather closes its stream.
CloseStep(t) ==
  /\ CloseStream(t)
  /\ (pending[t].at = "gather_item" /\ SetSlot(t, "item")) \/ SetErrorSlot(t)
  /\ dsl.kind[t.ref] = "gather" /\ t.stream # ROOT_STREAM /\ ~ IsSkipStream(t.stream)
  /\ ~ Closing(t) /\ ~ Scattering(t) /\ loop # "stopping"
  /\ ParentScatter(t) \in DOMAIN open_streams

\* A finalized gather goes on in the parent stream.
UpStep(t) ==
  /\ QueueTasks(ParentGather(t), {}) /\ Complete(t)
  /\ Closing(t) /\ Resolvable(t) /\ pending[t].at # "finalize_gather"
  /\ \/ results' = results
     \/ /\ IsSkipStream(t.stream)
        /\ results' = [x \in DOMAIN results \union {ParentGather(t)} |->
                         IF x = ParentGather(t) THEN << >> ELSE results[x]]
  /\ UNCHANGED <<dsl, excs, task_streams, open_streams>>

\* The coroutine suspends at another point.
MoveStep(t, at) ==
  /\ Suspend(t, at)
  /\ UNCHANGED <<dsl, graph, excs, scopes>>
  /\ ~ Scattering(t)
  /\ at # "finalize_empty" => Live(t)
  /\ \/ at = "run_if" /\ t.ref \in dsl.runIf /\ ~ IsSkipStream(t.stream) /\ ~ Closing(t)
     \/ at = "execute" /\ dsl.kind[t.ref] = "action" /\ ~ IsSkipStream(t.stream) /\ ~ Closing(t)
     \/ at = "scatter_input" /\ dsl.kind[t.ref] = "scatter" /\ ~ IsSkipStream(t.stream) /\ ~ Closing(t)
     \/ at = "gather_item" /\ dsl.kind[t.ref] = "gather" /\ t.stream # ROOT_STREAM
        /\ ~ IsSkipStream(t.stream) /\ ~ Closing(t)
     \/ at = "finalize_empty" /\ dsl.kind[t.ref] = "gather" /\ IsSkipStream(t.stream)
        /\ ~ Closing(t) /\ ParentScatter(t) \in DOMAIN open_streams
     \/ at = "noop_gather" /\ Finalizing(t) /\ ~ (t.ref \in dsl.raises /\ GatherErrors(t))

StepKind(t) ==
  \/ \E u : OwnStep(t, u)
  \/ DropStep(t)
  \/ SkipStep(t)
  \/ EmptyStep(t)
  \/ \E i \in Nat : MakeStep(t, i)
  \/ EndStep(t)
  \/ CloseStep(t)
  \/ UpStep(t)
  \/ \E at : MoveStep(t, at)

-----------------------------------------------------------------------------
(***************************************************************************)
(* Every step of a coroutine is one of these.                              *)
(***************************************************************************)
\* Nothing is resolved in a stream whose scatter is still making streams.
LEMMA LoopHolds ==
  ASSUME NEW t \in Task, t.stream # ROOT_STREAM, Resolvable(t)
  PROVE  ~ Scattering(ParentScatter(t))
<1> SUFFICES ASSUME Scattering(ParentScatter(t)) PROVE FALSE  OBVIOUS
<1> DEFINE s == t.stream
           x == ParentScatter(t)
<1>1. s \in Seq(dsl.refs \X Int) /\ Len(s) \in Nat /\ Len(s) > 0
  BY EmptySeq DEF Task, StreamId, ROOT_STREAM
<1>2. x.ref = LeafRef(s) /\ x.stream = SubSeq(s, 1, Len(s) - 1)
  BY DEF ParentScatter, TaskOf, Parent
<1>3. Len(x.stream) = Len(s) - 1  BY <1>1, <1>2
<1>4. x \in DOMAIN pending /\ pending[x].at = "scattering"  BY DEF Scattering
<1>5. Len(s) > Len(x.stream)  BY <1>1, <1>3
<1>6. SubSeq(s, 1, Len(x.stream)) = x.stream  BY <1>2, <1>3
<1>7. s[Len(x.stream) + 1][1] = x.ref
  <2>1. Len(x.stream) + 1 = Len(s)  BY <1>1, <1>3
  <2>2. QED  BY <1>2, <2>1 DEF LeafRef
<1>8. QED  BY <1>4, <1>5, <1>6, <1>7 DEF Resolvable

\* A scatter or a gather that is not skipped is reachable.
LEMMA GateReachable ==
  ASSUME Scoped, TypeOK, Counted, NEW t \in Started, dsl.kind[t.ref] # "action",
         ~ SkipShouldPropagate(t)
  PROVE  IsReachable(t)
<1>1. t \in Task /\ t.ref \in dsl.refs  BY DEF Started, TypeOK, Task
<1>2. \A e \in InEdges(t) : Marker(e) \in {"VISITED", "SKIPPED"}
  BY DEF Counted, ReadyMeansDecided, Started, Marker, TypeOK
<1>3. CASE InEdges(t) = {}
  <2>1. Cardinality(InEdges(t)) = 0  BY <1>3, FS_EmptySet
  <2>2. ~ (Cardinality(InEdges(t)) > 1)  BY <2>1
  <2>3. QED  BY <1>3, <2>2 DEF IsReachable
<1>4. CASE InEdges(t) # {}
  <2>1. PICK e \in InEdges(t) : Marker(e) = "VISITED"
    BY <1>2, <1>4 DEF SkipShouldPropagate
  <2>2. CASE dsl.join[t.ref] = "any" /\ Cardinality(InEdges(t)) > 1
    BY <2>1, <2>2 DEF IsReachable
  <2>3. CASE ~ (dsl.join[t.ref] = "any" /\ Cardinality(InEdges(t)) > 1)
    <3>1. Cardinality(InEdges(t)) = Cardinality(dsl.deps[t.ref]) /\ Cardinality(InEdges(t)) \in Nat
      BY <1>1, InEdgesCount DEF NDeps
    <3>2. ~ (Cardinality(InEdges(t)) > 1)
      BY <1>1, <2>3, <3>1, ScopeLaws DEF OnlyActionsFail
    <3>3. Cardinality(InEdges(t)) = 1 /\ IsFiniteSet(InEdges(t))
      BY <1>1, <1>4, <3>1, <3>2, InEdgesCount, FS_EmptySet
    <3>4. PICK f : InEdges(t) = {f}  BY <3>3, FS_Singleton
    <3>5. {d \in InEdges(t) : Marker(d) = "VISITED"} = InEdges(t)  BY <2>1, <3>4
    <3>6. QED  BY <2>3, <3>5 DEF IsReachable
  <2>4. QED  BY <2>2, <2>3
<1>5. QED  BY <1>3, <1>4
\* What is reached in a skip stream is skipped.
LEMMA SkipStreamSkips ==
  ASSUME Scoped, ScopeInv, NEW t \in DOMAIN pending, IsSkipStream(t.stream)
  PROVE  SkipShouldPropagate(t)
<1>1. InEdges(t) # {}
  BY ReachedStream DEF ScopeInv, Started, IsSkipStream
<1>2. \A e \in InEdges(t) : Marker(e) = "SKIPPED"
  BY DEF ScopeInv, PlaceInv, SkipsSkip, Alive, Started
<1>3. QED  BY <1>1, <1>2 DEF SkipShouldPropagate

\* What is reached in a stream of a scatter that is making its streams runs.
LEMMA LoopStreamRuns ==
  ASSUME Scoped, ScopeInv, NEW t \in DOMAIN pending, t.stream # ROOT_STREAM,
         Scattering(ParentScatter(t))
  PROVE  ~ SkipShouldPropagate(t) /\ IsReachable(t)
<1>1. ParentScatter(t) = Maker(t.stream) /\ ParentScatter(t) \in DOMAIN pending
  BY DEF ParentScatter, Maker, Scattering
<1>2. InEdges(t) # {}
  BY ReachedStream DEF ScopeInv, Started
<1>3. ASSUME NEW e \in InEdges(t)  PROVE Marker(e) = "VISITED"
  <2>1. e \in DOMAIN edges
    BY DEF ScopeInv, Counted, ReadyMeansDecided
  <2>2. e.stream = t.stream  BY DEF InEdges, DepEdge, EdgeOf
  <2>3. edges[e] = "VISITED"
    BY <1>1, <2>1, <2>2 DEF ScopeInv, PlaceInv, LoopsVisit
  <2>4. QED  BY <2>1, <2>3 DEF Marker
<1>4. ~ SkipShouldPropagate(t)  BY <1>2, <1>3 DEF SkipShouldPropagate
<1>5. {e \in InEdges(t) : Marker(e) = "VISITED"} = InEdges(t)  BY <1>3
<1>6. QED  BY <1>2, <1>4, <1>5 DEF IsReachable

\* A gather is reached below a scatter only.
LEMMA GatherNested ==
  ASSUME Scoped, ScopeInv, NEW t \in DOMAIN pending, dsl.kind[t.ref] = "gather"
  PROVE  t.stream # ROOT_STREAM
<1>1. t.ref \in dsl.refs  BY DEF ScopeInv, TypeOK, Task
<1>2. Scope(dsl)[t.ref] # {}  BY <1>1, ScopeLaws DEF ScopeInv, ScopedBy
<1>3. PlacedAt(t)  BY DEF ScopeInv, PlaceInv, Placed, Alive, Started
<1>4. QED  BY <1>2, <1>3 DEF PlacedAt, Home, Dead, IsSkipStream

\* In an execution stream it finds its scatter in the tables.
LEMMA GatherFinds ==
  ASSUME Scoped, ScopeInv, NEW t \in DOMAIN pending, t.stream # ROOT_STREAM,
         ~ IsSkipStream(t.stream), ~ Scattering(ParentScatter(t)), loop # "stopping"
  PROVE  ParentScatter(t) \in DOMAIN open_streams
<1>1. ParentScatter(t) = Maker(t.stream)  BY DEF ParentScatter, Maker
<1>2. StreamMade(t.stream)  BY ReachedStream DEF ScopeInv, Started
<1>3. Maker(t.stream) \in DOMAIN task_streams
  BY <1>2 DEF StreamMade, IsSkipStream
<1>4. Maker(t.stream) \in completed_tasks
  BY <1>1, <1>3 DEF ScopeInv, TreeInv, ScattersKnown, Scattering, Started
<1>5. loop \in {"ready", "waiting"}
  BY DEF ScopeInv, TypeOK, TreeInv, PhasesFit, PhaseFit
<1>6. QED  BY <1>1, <1>3, <1>4, <1>5 DEF ScopeInv, TreeInv, ScattersKnown

\* A coroutine that fails.
LEMMA ErrorKind ==
  ASSUME NEW t \in DOMAIN pending, NEW raised, ErrorPath(t, raised), UNCHANGED <<dsl, scopes>>,
         \/ dsl.kind[t.ref] = "action" /\ ~ IsSkipStream(t.stream)
         \/ loop = "stopping" /\ ~ Calm
         \/ Finalizing(t) /\ raised # {},
         t.stream = ROOT_STREAM => dsl.kind[t.ref] # "gather", Live(t),
         ~ Scattering(t), t.stream # ROOT_STREAM => ~ Scattering(ParentScatter(t))
  PROVE  StepKind(t)
<1>1. Complete(t) /\ UNCHANGED <<dsl, scopes, task_streams, open_streams, results>>
  BY DEF ErrorPath, scopes
<1>2. task_exceptions \subseteq task_exceptions' /\ raised \subseteq task_exceptions'
  BY DEF ErrorPath
<1>3. Calm' => dsl.kind[t.ref] = "action" /\ ~ IsSkipStream(t.stream)
  BY <1>2 DEF Calm
<1>4. ASSUME NEW u, QueueTasks(t, u), Outcome(t, u)  PROVE StepKind(t)
  <2>1. OwnStep(t, u)  BY <1>1, <1>2, <1>3, <1>4 DEF OwnStep
  <2>2. QED  BY <2>1 DEF StepKind
<1>5. CASE QueueTasks(t, {e \in OutEdges(t) : e.type # "error"}) /\ UNCHANGED stream_exceptions
  <2>1. Outcome(t, {e \in OutEdges(t) : e.type # "error"})
    BY <1>5 DEF Outcome, EdgeTypes
  <2>2. QED  BY <1>4, <1>5, <2>1
<1>6. CASE /\ QueueTasks(t, OutEdges(t)) /\ t.stream # ROOT_STREAM
           /\ stream_exceptions' = stream_exceptions \union {t.stream}
  <2>1. Outcome(t, OutEdges(t))  BY <1>3, <1>6 DEF Outcome
  <2>2. QED  BY <1>4, <1>6, <2>1
<1>7. CASE /\ UNCHANGED <<graph, stream_exceptions>> /\ t.ref \in task_exceptions'
           /\ t.stream = ROOT_STREAM
  <2>1. ~ Calm'  BY <1>7 DEF Calm
  <2>2. DropStep(t)  BY <1>1, <1>2, <1>7, <2>1 DEF DropStep
  <2>3. QED  BY <2>2 DEF StepKind
<1>8. QED  BY <1>5, <1>6, <1>7 DEF ErrorPath

\* A coroutine before its action: it is not in the tables of scatters.
LEMMA EarlyPhase ==
  ASSUME ScopeInv, NEW t \in DOMAIN pending, pending[t].at # "scattering"
  PROVE  ~ Scattering(t) /\ t \notin DOMAIN task_streams
BY DEF Scattering, ScopeInv, TreeInv, ScattersKnown

\* A task that is skipped.
LEMMA SkipPathKind ==
  ASSUME Scoped, ScopeInv, NEW t \in DOMAIN pending, HandleSkipPath(t),
         \/ pending[t].at = "created" /\ SkipShouldPropagate(t)
         \/ pending[t].at = "run_if",
         loop # "stopping", t.stream # ROOT_STREAM => ~ Scattering(ParentScatter(t))
  PROVE  StepKind(t)
<1>1. /\ ~ Scattering(t) /\ t \notin DOMAIN task_streams /\ ~ Closing(t)
      /\ t.ref \in dsl.refs
  BY EarlyPhase DEF Closing, Finalizing, ScopeInv, TypeOK, Task
<1>2. CASE dsl.kind[t.ref] = "scatter"
  <2>0. pending[t].at = "run_if" => t.ref \in dsl.runIf
    BY DEF ScopeInv, TreeInv, PhasesFit, PhaseFit
  <2>1. SkipStep(t)  BY <1>1, <1>2, <2>0 DEF HandleSkipPath, SkipStep
  <2>2. QED  BY <2>1 DEF StepKind
<1>3. CASE dsl.kind[t.ref] = "gather"
  <2>1. HandleGather(t, TRUE) /\ t.stream # ROOT_STREAM
    BY <1>3, GatherNested DEF HandleSkipPath
  <2>2. CASE IsSkipStream(t.stream) /\ TaskObserved(ParentScatter(t))
    <3>1. Suspend(t, "finalize_empty") /\ UNCHANGED <<dsl, graph, excs, scopes>>
      BY <2>1, <2>2 DEF HandleGather
    <3>2. MoveStep(t, "finalize_empty")
      BY <1>1, <1>3, <2>2, <3>1 DEF MoveStep, TaskObserved
    <3>3. QED  BY <3>2 DEF StepKind
  <2>3. CASE IsSkipStream(t.stream) /\ ~ TaskObserved(ParentScatter(t))
    <3>1. QueueTasks(t, OutEdges(t)) /\ Complete(t) /\ UNCHANGED <<dsl, excs, scopes>>
      BY <2>1, <2>3 DEF HandleGather
    <3>2. Dead(t.stream)
      BY <2>3 DEF Dead, TaskObserved, Maker, ParentScatter
    <3>3. OwnStep(t, OutEdges(t))
      BY <1>1, <2>1, <3>1, <3>2 DEF OwnStep, Outcome, excs, scopes
    <3>4. QED  BY <3>3 DEF StepKind
  <2>4. CASE ~ IsSkipStream(t.stream)
    <3>1. ParentScatter(t) \in DOMAIN open_streams
      BY <2>1, <2>4, GatherFinds
    <3>2. t.ref \notin dsl.mayFailSync
      BY ScopeLaws DEF ScopeInv, OnlyActionsFail
    <3>3. CloseStream(t) /\ SetErrorSlot(t)
      BY <2>1, <2>4, <3>1, <3>2 DEF HandleGather, GatherSkipped, TaskObserved
    <3>4. CloseStep(t)
      BY <1>1, <1>3, <2>1, <2>4, <3>1, <3>3 DEF CloseStep
    <3>5. QED  BY <3>4 DEF StepKind
  <2>5. QED  BY <2>2, <2>3, <2>4
<1>4. CASE dsl.kind[t.ref] = "action"
  <2>1. QueueTasks(t, OutEdges(t)) /\ Complete(t) /\ UNCHANGED <<dsl, excs, scopes>>
    BY <1>4 DEF HandleSkipPath
  <2>2. OwnStep(t, OutEdges(t))
    BY <1>1, <1>4, <2>1 DEF OwnStep, Outcome, excs, scopes
  <2>3. QED  BY <2>2 DEF StepKind
<1>5. dsl.kind[t.ref] \in {"action", "scatter", "gather"}
  BY <1>1, DslOK DEF ScopeInv, WorkflowOK
<1>6. QED  BY <1>2, <1>3, <1>4, <1>5

\* A task that runs.
LEMMA ProceedKind ==
  ASSUME Scoped, ScopeInv, NEW t \in DOMAIN pending, Proceed(t),
         pending[t].at \in {"created", "run_if"}, ~ IsSkipStream(t.stream), Live(t)
  PROVE  StepKind(t)
<1>1. /\ ~ Scattering(t) /\ ~ Closing(t) /\ t.ref \in dsl.refs
      /\ t.ref \notin dsl.mayFailSync
  BY EarlyPhase, ScopeLaws DEF Closing, Finalizing, ScopeInv, TypeOK, Task, OnlyActionsFail
<1>2. CASE dsl.kind[t.ref] = "gather"
  <2>1. HandleGather(t, FALSE) /\ t.stream # ROOT_STREAM
    BY <1>2, GatherNested DEF Proceed
  <2>2. Suspend(t, "gather_item") /\ UNCHANGED <<dsl, graph, excs, scopes>>
    BY <1>1, <2>1 DEF HandleGather
  <2>3. MoveStep(t, "gather_item")
    BY <1>1, <1>2, <2>1, <2>2 DEF MoveStep
  <2>4. QED  BY <2>3 DEF StepKind
<1>3. CASE dsl.kind[t.ref] = "scatter"
  <2>1. Suspend(t, "scatter_input") /\ UNCHANGED <<dsl, graph, excs, scopes>>
    BY <1>1, <1>3 DEF Proceed
  <2>2. MoveStep(t, "scatter_input")  BY <1>1, <1>3, <2>1 DEF MoveStep
  <2>3. QED  BY <2>2 DEF StepKind
<1>4. CASE dsl.kind[t.ref] = "action"
  <2>1. Suspend(t, "execute") /\ UNCHANGED <<dsl, graph, excs, scopes>>
    BY <1>1, <1>4 DEF Proceed
  <2>2. MoveStep(t, "execute")  BY <1>1, <1>4, <2>1 DEF MoveStep
  <2>3. QED  BY <2>2 DEF StepKind
<1>5. dsl.kind[t.ref] \in {"action", "scatter", "gather"}
  BY <1>1, DslOK DEF ScopeInv, WorkflowOK
<1>6. QED  BY <1>2, <1>3, <1>4, <1>5

\* The steps up to and including the execution of an ordinary action.
LEMMA ScheduleKind ==
  ASSUME Scoped, ScopeInv, NEW t \in DOMAIN pending,
         ScheduleTask(t) \/ RunIfResolved(t) \/ ExecuteResolved(t) \/ ActivityFails(t)
  PROVE  StepKind(t)
<1>1. t \in Task /\ t.ref \in dsl.refs /\ t \in Started /\ TypeOK /\ Counted
  BY DEF ScopeInv, TypeOK, Task, Started
<1>2. CASE ScheduleTask(t)
  <2>1. pending[t].at = "created" /\ loop # "stopping"  BY <1>2 DEF ScheduleTask, At
  <2>2. CASE SkipShouldPropagate(t)
    <3>1. HandleSkipPath(t)  BY <1>2, <2>2 DEF ScheduleTask
    <3>2. t.stream # ROOT_STREAM => ~ Scattering(ParentScatter(t))
      BY <2>2, LoopStreamRuns
    <3>3. QED  BY <2>1, <2>2, <3>1, <3>2, SkipPathKind
  <2>3. CASE ~ SkipShouldPropagate(t) /\ ~ IsReachable(t)
    <3>1. HandleErrorPath(t)  BY <1>2, <2>3 DEF ScheduleTask
    <3>2. dsl.kind[t.ref] = "action"  BY <1>1, <2>3, GateReachable
    <3>3. ~ IsSkipStream(t.stream)  BY <2>3, SkipStreamSkips
    <3>4. t.stream # ROOT_STREAM => ~ Scattering(ParentScatter(t))
      BY <2>3, LoopStreamRuns
    <3>5. ~ Scattering(t)  BY <2>1 DEF Scattering
    <3>6. ErrorPath(t, {}) /\ UNCHANGED <<dsl, scopes>>  BY <3>1 DEF HandleErrorPath
    <3>7. Live(t)  BY <2>3 DEF Live
    <3>8. QED  BY <3>2, <3>3, <3>4, <3>5, <3>6, <3>7, ErrorKind
  <2>4. CASE ~ SkipShouldPropagate(t) /\ IsReachable(t)
    <3>1. ~ IsSkipStream(t.stream)  BY <2>4, SkipStreamSkips
    <3>0. Live(t)  BY <2>4 DEF Live
    <3>2. CASE Proceed(t)  BY <2>1, <3>0, <3>1, <3>2, ProceedKind
    <3>3. CASE Suspend(t, "run_if") /\ t.ref \in dsl.runIf /\ UNCHANGED <<dsl, graph, excs, scopes>>
      <4>1. MoveStep(t, "run_if")
        BY <2>1, <3>0, <3>1, <3>3 DEF MoveStep, Scattering, Closing, Finalizing
      <4>2. QED  BY <4>1 DEF StepKind
    <3>4. QED  BY <1>2, <2>4, <3>2, <3>3 DEF ScheduleTask
  <2>5. QED  BY <2>2, <2>3, <2>4
<1>3. CASE RunIfResolved(t)
  <2>1. pending[t].at = "run_if" /\ loop # "stopping" /\ Resolvable(t)
    BY <1>3 DEF RunIfResolved, At
  <2>2. ~ IsSkipStream(t.stream)
    BY <2>1 DEF ScopeInv, TreeInv, PhasesFit, PhaseFit
  <2>3. t.stream # ROOT_STREAM => ~ Scattering(ParentScatter(t))
    BY <1>1, <2>1, LoopHolds
  <2>4. Live(t)  BY <2>1 DEF Live
  <2>5. QED  BY <1>3, <2>1, <2>2, <2>3, <2>4, SkipPathKind, ProceedKind DEF RunIfResolved
<1>4. CASE ExecuteResolved(t)
  <2>1. pending[t].at = "execute" /\ Resolvable(t) /\ HandleSuccessPath(t)
    BY <1>4 DEF ExecuteResolved, At
  <2>2. dsl.kind[t.ref] = "action" /\ ~ IsSkipStream(t.stream) /\ ~ Scattering(t)
    BY <2>1 DEF ScopeInv, TreeInv, PhasesFit, PhaseFit, Scattering
  <2>3. t.stream # ROOT_STREAM => ~ Scattering(ParentScatter(t))
    BY <1>1, <2>1, LoopHolds
  <2> DEFINE u == {e \in OutEdges(t) : e.type # "success"}
  <2>4. QueueTasks(t, u) /\ Complete(t) /\ UNCHANGED <<dsl, excs, scopes>>
    BY <2>1 DEF HandleSuccessPath
  <2>5. Outcome(t, u)  BY <2>1, <2>4 DEF Outcome, Live, EdgeTypes, excs
  <2>6. OwnStep(t, u)  BY <2>2, <2>3, <2>4, <2>5 DEF OwnStep, excs, scopes
  <2>7. QED  BY <2>6 DEF StepKind
<1>5. CASE ActivityFails(t)
  <2>1. /\ pending[t].at \notin {"created", "scattering"} /\ Resolvable(t)
        /\ ErrorPath(t, {}) /\ UNCHANGED <<dsl, scopes>>
        /\ t.ref \in dsl.mayFail \/ loop = "stopping"
    BY <1>5 DEF ActivityFails, HandleErrorPath
  <2>2. t.stream # ROOT_STREAM => ~ Scattering(ParentScatter(t))
    BY <1>1, <2>1, LoopHolds
  <2>3. ~ Scattering(t) /\ Live(t)  BY <2>1 DEF Scattering, Live
  <2>0. t.stream = ROOT_STREAM => dsl.kind[t.ref] # "gather"  BY GatherNested
  <2>4. CASE loop = "stopping"
    <3>1. ~ Calm  BY <2>4 DEF ScopeInv, TreeInv, PhasesFit, PhaseFit
    <3>2. QED  BY <2>0, <2>1, <2>2, <2>3, <2>4, <3>1, ErrorKind
  <2>5. CASE t.ref \in dsl.mayFail
    <3>1. dsl.kind[t.ref] = "action"
      BY <1>1, <2>5, ScopeLaws DEF OnlyActionsFail
    <3>2. ~ IsSkipStream(t.stream)
      BY <2>1, <3>1 DEF ScopeInv, TreeInv, PhasesFit, PhaseFit, Closing
    <3>3. QED  BY <2>1, <2>2, <2>3, <3>1, <3>2, ErrorKind
  <2>6. QED  BY <2>1, <2>4, <2>5
<1>6. QED  BY <1>2, <1>3, <1>4, <1>5
\* The steps of a scatter.
LEMMA ScatterKind ==
  ASSUME Scoped, ScopeInv, TInv, NEW t \in DOMAIN pending,
         ScatterInputResolved(t) \/ ScatterNext(t)
  PROVE  StepKind(t)
<1>1. CASE ScatterInputResolved(t)
  <2>1. pending[t].at = "scatter_input"  BY <1>1 DEF ScatterInputResolved, At
  <2>2. /\ dsl.kind[t.ref] = "scatter" /\ ~ IsSkipStream(t.stream)
        /\ t \notin DOMAIN task_streams
    BY <2>1, EarlyPhase DEF ScopeInv, TreeInv, PhasesFit, PhaseFit
  <2>3. CASE \E n \in 1 .. MaxItems : CreateStream(t, 0, n)
    <3>1. MakeStep(t, 0)  BY <2>1, <2>2, <2>3 DEF MakeStep
    <3>2. QED  BY <3>1 DEF StepKind
  <2>4. CASE /\ task_streams' = [x \in DOMAIN task_streams \union {t} |->
                                   IF x = t THEN 0 ELSE task_streams[x]]
             /\ SetOpenStreams(t, 0)
             /\ QueueSkipStream(t)
             /\ Complete(t)
             /\ UNCHANGED <<dsl, excs, results>>
    <3>1. EmptyStep(t)  BY <2>1, <2>2, <2>4 DEF EmptyStep
    <3>2. QED  BY <3>1 DEF StepKind
  <2>5. QED  BY <1>1, <2>3, <2>4 DEF ScatterInputResolved
<1>2. CASE ScatterNext(t)
  <2>1. Scattering(t) /\ t \in DOMAIN task_streams
    BY <1>2 DEF ScatterNext, At, Scattering, TInv, ScatterTracked
  <2>2. dsl.kind[t.ref] = "scatter" /\ ~ IsSkipStream(t.stream) /\ task_streams[t] \in Nat
    BY <2>1 DEF ScopeInv, TreeInv, ScattersKnown, TypeOK
  <2>3. CASE CreateStream(t, task_streams[t], pending[t].n)
    <3>1. MakeStep(t, task_streams[t])  BY <2>1, <2>2, <2>3 DEF MakeStep, Scattering
    <3>2. QED  BY <2>2, <3>1 DEF StepKind
  <2>4. CASE /\ task_streams[t] = pending[t].n
             /\ SetOpenStreams(t, pending[t].n)
             /\ Complete(t)
             /\ UNCHANGED <<dsl, graph, excs, task_streams, results>>
    <3>1. EndStep(t)  BY <2>1, <2>4 DEF EndStep
    <3>2. QED  BY <3>1 DEF StepKind
  <2>5. QED  BY <1>2, <2>3, <2>4 DEF ScatterNext
<1>3. QED  BY <1>1, <1>2

\* The steps of a gather after its first suspension.
LEMMA GatherKind ==
  ASSUME Scoped, ScopeInv, NEW t \in DOMAIN pending,
         \/ GatherItemResolved(t) \/ FinalizeGatherResolved(t)
         \/ NoopGatherResolved(t) \/ FinalizeEmptyResolved(t)
  PROVE  StepKind(t)
<1>1. t \in Task  BY DEF ScopeInv, TypeOK
<1>2. Resolvable(t) /\ loop # "stopping"
  BY DEF GatherItemResolved, FinalizeGatherResolved, NoopGatherResolved,
         FinalizeEmptyResolved, At
<1>3. t.stream # ROOT_STREAM => ~ Scattering(ParentScatter(t))  BY <1>1, <1>2, LoopHolds
<1>4. CASE GatherItemResolved(t)
  <2>1. pending[t].at = "gather_item"  BY <1>4 DEF GatherItemResolved, At
  <2>2. dsl.kind[t.ref] = "gather" /\ t.stream # ROOT_STREAM /\ ~ IsSkipStream(t.stream)
    BY <2>1 DEF ScopeInv, TreeInv, PhasesFit, PhaseFit
  <2>3. ParentScatter(t) \in DOMAIN open_streams
    BY <1>2, <1>3, <2>2, GatherFinds
  <2>4. CloseStream(t) /\ SetSlot(t, "item")
    BY <1>4, <2>3 DEF GatherItemResolved, TaskObserved
  <2>5. CloseStep(t)
    BY <1>2, <2>1, <2>2, <2>3, <2>4 DEF CloseStep, Closing, Finalizing, Scattering
  <2>6. QED  BY <2>5 DEF StepKind
<1>5. CASE FinalizeGatherResolved(t)
  <2>1. Finalizing(t) /\ ~ Scattering(t)
    BY <1>5 DEF FinalizeGatherResolved, At, Finalizing, Scattering
  <2>0. Live(t) /\ (t.stream = ROOT_STREAM => dsl.kind[t.ref] # "gather")
    BY <2>1, GatherNested DEF Finalizing, Live
  <2>2. CASE ErrorPath(t, {t.ref}) /\ UNCHANGED <<dsl, scopes>>
    BY <1>3, <2>0, <2>1, <2>2, ErrorKind
  <2>3. CASE /\ ~ (t.ref \in dsl.raises /\ GatherErrors(t))
             /\ Suspend(t, "noop_gather") /\ UNCHANGED <<dsl, graph, excs, scopes>>
    <3>1. MoveStep(t, "noop_gather")  BY <2>0, <2>1, <2>3 DEF MoveStep
    <3>2. QED  BY <3>1 DEF StepKind
  <2>4. QED  BY <1>5, <2>2, <2>3 DEF FinalizeGatherResolved
<1>6. CASE NoopGatherResolved(t) \/ FinalizeEmptyResolved(t)
  <2>1. Closing(t) /\ pending[t].at # "finalize_gather"
    BY <1>6 DEF NoopGatherResolved, FinalizeEmptyResolved, At, Closing, Finalizing
  <2>2. /\ QueueTasks(ParentGather(t), {}) /\ Complete(t)
        /\ UNCHANGED <<dsl, excs, task_streams, open_streams>>
    BY <1>6 DEF NoopGatherResolved, FinalizeEmptyResolved, scopes
  <2>0. FinalizeEmptyResolved(t) => IsSkipStream(t.stream)
    BY DEF FinalizeEmptyResolved, At, ScopeInv, TreeInv, PhasesFit, PhaseFit
  <2>3. UpStep(t)
    BY <1>2, <1>6, <2>0, <2>1, <2>2
    DEF UpStep, NoopGatherResolved, FinalizeEmptyResolved, scopes
  <2>4. QED  BY <2>3 DEF StepKind
<1>7. QED  BY <1>4, <1>5, <1>6

\* Every step of a coroutine, in a workflow with well-formed scopes.
LEMMA TaskKind ==
  ASSUME Scoped, ScopeInv, TInv, NEW t \in DOMAIN pending, TaskStep(t)
  PROVE  StepKind(t)
<1>1. CASE Cancelled(t)
  <2>1. ~ Calm /\ Complete(t) /\ loop = "stopping" /\ UNCHANGED <<dsl, graph, excs, scopes>>
    BY <1>1 DEF Cancelled, ScopeInv, TreeInv, PhasesFit, PhaseFit
  <2>2. DropStep(t)  BY <2>1 DEF DropStep, excs, scopes, Calm
  <2>3. QED  BY <2>2 DEF StepKind
<1>2. QED  BY <1>1, ScheduleKind, ScatterKind, GatherKind DEF TaskStep
-----------------------------------------------------------------------------
(***************************************************************************)
(* Whose edges a step decides: those of the task itself, those of a        *)
(* scatter in a stream it has just made, or those of a gather in the       *)
(* parent stream.                                                          *)
(***************************************************************************)
Fresh(t, i) ==
  \/ i = SKIP
  \/ i \in Nat /\ (t \in DOMAIN task_streams => i = task_streams[t])

Below(t, i) == TaskOf(t.ref, Child(t.stream, t.ref, i))

Emitter(t, x) ==
  \/ x = t
  \/ dsl.kind[t.ref] = "scatter" /\ \E i \in Int : Fresh(t, i) /\ x = Below(t, i)
  \/ Closing(t) /\ x = ParentGather(t)

\* The parts of the invariant by name.
LEMMA Parts ==
  ASSUME ScopeInv
  PROVE  /\ TypeOK /\ Counted /\ TreeInv /\ SpentInv /\ PlaceInv /\ OpenCounts
         /\ StreamsMade /\ RanksGrow /\ EntriesAtRoot /\ ScattersKnown /\ PhasesFit
         /\ SourcesSpent /\ OwnUndecided /\ ClosersUnique
         /\ Placed /\ SkipsSkip /\ LoopsVisit
BY DEF ScopeInv, TreeInv, SpentInv, PlaceInv

\* The scatter of a scatter's new stream.
LEMMA BelowParts ==
  ASSUME NEW t \in Task, NEW i \in Int
  PROVE  /\ Below(t, i) \in Task /\ Below(t, i).ref = t.ref
         /\ Below(t, i).stream = Child(t.stream, t.ref, i)
         /\ Below(t, i).stream \in StreamId
         /\ Below(t, i).stream # ROOT_STREAM
         /\ LeafRef(Below(t, i).stream) = t.ref
         /\ LeafIndex(Below(t, i).stream) = i
         /\ Parent(Below(t, i).stream) = t.stream
         /\ Maker(Below(t, i).stream) = t
<1>1. t.ref \in dsl.refs /\ t.stream \in StreamId /\ t = TaskOf(t.ref, t.stream)
  BY DEF Task, TaskOf
<1>2. Below(t, i) \in Task  BY ChildTask DEF Below
<1>3. Below(t, i).ref = t.ref /\ Below(t, i).stream = Child(t.stream, t.ref, i)
  BY DEF Below, TaskOf
<1>4. /\ Child(t.stream, t.ref, i) # ROOT_STREAM
      /\ LeafRef(Child(t.stream, t.ref, i)) = t.ref
      /\ LeafIndex(Child(t.stream, t.ref, i)) = i
      /\ Parent(Child(t.stream, t.ref, i)) = t.stream
  BY <1>1, ChildParts
<1>5. Child(t.stream, t.ref, i) \in StreamId  BY <1>1, ChildStream
<1>6. QED  BY <1>1, <1>2, <1>3, <1>4, <1>5 DEF Maker

\* It is not the scatter task itself.
LEMMA BelowOther ==
  ASSUME NEW t \in Task, NEW i \in Int
  PROVE  Below(t, i) # t
<1>1. t.stream \in Seq(dsl.refs \X Int) /\ t.ref \in dsl.refs  BY DEF Task, StreamId
<1>2. Len(Append(t.stream, <<t.ref, i>>)) # Len(t.stream)
  <2>1. Len(t.stream) \in Nat /\ Len(Append(t.stream, <<t.ref, i>>)) = Len(t.stream) + 1
    BY <1>1
  <2>2. QED  BY <2>1
<1>3. QED  BY <1>2, BelowParts DEF Child

\* Nothing is decided in a stream that is not made yet.
LEMMA BelowUndecided ==
  ASSUME Scoped, ScopeInv, NEW t \in DOMAIN pending, NEW i \in Int, Fresh(t, i)
  PROVE  \A e \in DOMAIN edges : e.stream # Below(t, i).stream
<1> SUFFICES ASSUME NEW e \in DOMAIN edges, e.stream = Below(t, i).stream PROVE FALSE
  OBVIOUS
<1>1. t \in Task /\ t \notin completed_tasks
  BY Parts DEF TypeOK, Counted, RunsOnce
<1>2. /\ e.stream # ROOT_STREAM /\ Maker(e.stream) = t /\ LeafIndex(e.stream) = i
  BY <1>1, BelowParts
<1>3. StreamMade(e.stream)  BY Parts DEF StreamsMade
<1>4. CASE i = SKIP  BY <1>1, <1>2, <1>3, <1>4 DEF StreamMade
<1>5. CASE i # SKIP
  <2>1. t \in DOMAIN task_streams /\ i \in 0 .. task_streams[t] - 1
    BY <1>2, <1>3, <1>5 DEF StreamMade
  <2>2. i = task_streams[t] /\ task_streams[t] \in Nat
    BY <1>5, <2>1, Parts DEF Fresh, TypeOK
  <2>3. QED  BY <2>1, <2>2
<1>6. QED  BY <1>4, <1>5

\* A gather that closes its last stream.
LEMMA ClosingParts ==
  ASSUME Scoped, ScopeInv, NEW t \in DOMAIN pending, Closing(t)
  PROVE  /\ t \in Started /\ t.stream # ROOT_STREAM /\ dsl.kind[t.ref] = "gather"
         /\ ParentScatter(t) \in DOMAIN open_streams /\ open_streams[ParentScatter(t)] = 0
         /\ Undecided(ParentGather(t)) /\ ~ PlacedAt(ParentGather(t))
         /\ Scope(dsl)[t.ref] = {LeafRef(t.stream)}
         /\ ParentGather(t) \in Task /\ ParentGather(t).ref = t.ref
         /\ ParentGather(t).stream = Parent(t.stream)
<1>1. t \in Task /\ t \in Started  BY Parts DEF TypeOK, Started
<1>2. t.stream # ROOT_STREAM /\ dsl.kind[t.ref] = "gather"  BY Parts DEF PhasesFit, PhaseFit
<1>3. /\ ParentScatter(t) \in DOMAIN open_streams /\ open_streams[ParentScatter(t)] = 0
      /\ Undecided(ParentGather(t))
  BY Parts DEF ClosersUnique
<1>4. ~ PlacedAt(ParentGather(t)) /\ Scope(dsl)[t.ref] = {LeafRef(t.stream)}
  BY <1>1, <1>2, <1>3, Parts, GatherBelow
<1>5. QED  BY <1>1, <1>2, <1>3, <1>4, ParentGatherTask DEF ParentGather, TaskOf

\* The emitter is a task none of whose edges is decided, and it is further
\* from the entry points than the scatter of its stream.
LEMMA EmitterTask ==
  ASSUME Scoped, ScopeInv, NEW t \in DOMAIN pending, NEW x, Emitter(t, x)
  PROVE  /\ x \in Task /\ Undecided(x)
         /\ x.stream # ROOT_STREAM =>
              LeafRef(x.stream) \in dsl.refs /\ Rank(dsl)[x.ref] >= Rank(dsl)[LeafRef(x.stream)]
<1>1. t \in Task /\ t \in Started /\ t.ref \in dsl.refs /\ t.stream \in StreamId
  BY Parts DEF TypeOK, Started, Task
<1>2. Rank(dsl) \in [dsl.refs -> Nat]  BY Parts, ScopeLaws DEF ScopedBy
<1>3. CASE x = t
  <2>1. Undecided(t)  BY Parts DEF OwnUndecided
  <2>2. t.stream # ROOT_STREAM =>
          LeafRef(t.stream) \in dsl.refs /\ Rank(dsl)[t.ref] > Rank(dsl)[LeafRef(t.stream)]
    BY <1>1, Parts, ReachedStream
  <2>3. QED  BY <1>1, <1>2, <1>3, <2>1, <2>2
<1>4. CASE \E i \in Int : Fresh(t, i) /\ x = Below(t, i)
  <2>0. PICK i \in Int : Fresh(t, i) /\ x = Below(t, i)  BY <1>4
  <2>1. x \in Task /\ LeafRef(x.stream) = t.ref /\ x.ref = t.ref  BY <1>1, <2>0, BelowParts
  <2>2. Undecided(x)
    <3>1. ASSUME NEW e \in OutEdges(x)  PROVE e.stream = x.stream
      BY <2>1, <3>1, OneSource
    <3>2. QED  BY <2>0, <3>1, BelowUndecided DEF Undecided
  <2>3. QED  BY <1>1, <1>2, <2>1, <2>2
<1>5. CASE Closing(t) /\ x = ParentGather(t)
  <2>1. x \in Task /\ Undecided(x) /\ t.stream # ROOT_STREAM /\ x.ref = t.ref /\ x.stream = Parent(t.stream)
    BY <1>5, ClosingParts
  <2>2. /\ StreamMade(t.stream) /\ LeafRef(t.stream) \in dsl.refs
        /\ Rank(dsl)[t.ref] > Rank(dsl)[LeafRef(t.stream)]
    BY <1>1, <2>1, Parts, ReachedStream
  <2>3. /\ Maker(t.stream) \in Started /\ Maker(t.stream).ref = LeafRef(t.stream)
        /\ Maker(t.stream).stream = x.stream
    BY <1>1, <2>1, <2>2, Parts, MakerStarted
  <2>4. x.stream # ROOT_STREAM =>
          /\ LeafRef(x.stream) \in dsl.refs
          /\ Rank(dsl)[LeafRef(t.stream)] > Rank(dsl)[LeafRef(x.stream)]
    BY <2>3, Parts, ReachedStream
  <2>5. QED  BY <1>1, <1>2, <2>1, <2>2, <2>4
<1>6. QED  BY <1>3, <1>4, <1>5 DEF Emitter
\* What the emitter leads to is in the scope of its stream.
LEMMA EmitterPlaces ==
  ASSUME Scoped, ScopeInv, NEW t \in DOMAIN pending, NEW x, Emitter(t, x),
         x = t => dsl.kind[t.ref] = "action" \/ Dead(t.stream),
         NEW y \in Task, y.stream = x.stream, NEW d \in dsl.deps[y.ref], d[1] = x.ref
  PROVE  /\ PlacedAt(y)
         /\ Scope(dsl)[y.ref] = Home(y.stream) \/ (x = t /\ Dead(t.stream))
<1>1. t \in Task /\ t \in Started /\ t.ref \in dsl.refs /\ y.ref \in dsl.refs
  BY Parts DEF TypeOK, Started, Task
<1>2. Scope(dsl)[y.ref] = SuccScope(dsl, Scope(dsl), x.ref)
  BY <1>1, Parts, ScopeLaws DEF ScopedBy
<1>3. CASE x = t
  <2>1. PlacedAt(t)  BY <1>1, Parts DEF Placed, Alive
  <2>2. CASE Dead(t.stream)  BY <1>3, <2>2 DEF PlacedAt
  <2>3. CASE dsl.kind[t.ref] = "action"
    BY <1>2, <1>3, <2>1, <2>3 DEF SuccScope, PlacedAt
  <2>4. QED  BY <1>3, <2>2, <2>3
<1>4. CASE dsl.kind[t.ref] = "scatter" /\ \E i \in Int : Fresh(t, i) /\ x = Below(t, i)
  <2>1. PICK i \in Int : x = Below(t, i)  BY <1>4
  <2>2. x.ref = t.ref /\ x.stream # ROOT_STREAM /\ LeafRef(x.stream) = t.ref
    BY <1>1, <2>1, BelowParts
  <2>3. QED  BY <1>2, <1>4, <2>2 DEF SuccScope, PlacedAt, Home
<1>5. CASE Closing(t) /\ x = ParentGather(t)
  <2>1. /\ t.stream # ROOT_STREAM /\ dsl.kind[t.ref] = "gather" /\ x.ref = t.ref
        /\ x.stream = Parent(t.stream) /\ ParentScatter(t) \in DOMAIN open_streams
    BY <1>5, ClosingParts
  <2>2. /\ Scope(dsl)[t.ref] = {LeafRef(t.stream)}
        /\ Scope(dsl)[LeafRef(t.stream)] = Home(Parent(t.stream))
    BY <1>1, <2>1, Parts, GatherBelow
  <2>3. SuccScope(dsl, Scope(dsl), x.ref) = UNION {Scope(dsl)[q] : q \in {LeafRef(t.stream)}}
    BY <2>1, <2>2 DEF SuccScope
  <2>4. QED  BY <1>2, <2>1, <2>2, <2>3 DEF PlacedAt
<1>6. QED  BY <1>3, <1>4, <1>5 DEF Emitter

\* The emitter is no other task that runs or will run, nor the counterpart of
\* another gather in the parent stream.
LEMMA EmitterAlone ==
  ASSUME Scoped, ScopeInv, NEW t \in DOMAIN pending, NEW x, Emitter(t, x)
  PROVE  /\ \A z \in Started \union queue : PlacedAt(z) /\ z = x => x = t
         /\ \A z \in DOMAIN pending : Closing(z) /\ z # t => ParentGather(z) # x
<1>1. t \in Task /\ t \in Started /\ t.ref \in dsl.refs
  BY Parts DEF TypeOK, Started, Task
<1>2. PlacedAt(t)  BY <1>1, Parts DEF Placed, Alive
<1>3. CASE x = t
  <2>1. ASSUME NEW z \in DOMAIN pending, Closing(z)  PROVE ParentGather(z) # x
    BY <1>2, <1>3, <2>1, ClosingParts
  <2>2. QED  BY <1>3, <2>1
<1>4. CASE dsl.kind[t.ref] = "scatter" /\ \E i \in Int : Fresh(t, i) /\ x = Below(t, i)
  <2>1. PICK i \in Int : x = Below(t, i)  BY <1>4
  <2>2. x.ref = t.ref /\ x.stream # ROOT_STREAM /\ LeafRef(x.stream) = t.ref
    BY <1>1, <2>1, BelowParts
  <2>3. ASSUME NEW z \in Started \union queue, z = x  PROVE FALSE
    <3>1. Rank(dsl)[z.ref] > Rank(dsl)[LeafRef(z.stream)]
      BY <2>2, <2>3, Parts, ReachedStream
    <3>2. Rank(dsl)[t.ref] \in Nat  BY <1>1, Parts, ScopeLaws DEF ScopedBy
    <3>3. QED  BY <2>2, <2>3, <3>1, <3>2
  <2>4. ASSUME NEW z \in DOMAIN pending, Closing(z)  PROVE ParentGather(z) # x
    BY <1>4, <2>2, <2>4, ClosingParts
  <2>5. QED  BY <2>3, <2>4
<1>5. CASE Closing(t) /\ x = ParentGather(t)
  <2>1. ASSUME NEW z \in Started \union queue, PlacedAt(z)  PROVE z # x
    BY <1>5, <2>1, ClosingParts
  <2>2. ASSUME NEW z \in DOMAIN pending, Closing(z), ParentGather(z) = x  PROVE z = t
    <3>1. z.ref = t.ref /\ Parent(z.stream) = Parent(t.stream)
      BY <1>5, <2>2, ClosingParts
    <3>2. LeafRef(z.stream) = LeafRef(t.stream)
      BY <1>5, <2>2, <3>1, ClosingParts
    <3>3. ParentScatter(z) = ParentScatter(t)  BY <3>1, <3>2 DEF ParentScatter
    <3>4. QED  BY <1>5, <2>2, <3>3, Parts DEF ClosersUnique
  <2>3. QED  BY <2>1, <2>2
<1>6. QED  BY <1>3, <1>4, <1>5 DEF Emitter

\* A task that _queue_tasks enqueues has decided nothing yet.
LEMMA NewUndecided ==
  ASSUME Scoped, ScopeInv, NEW t \in DOMAIN pending, NEW x, Emitter(t, x), NEW u,
         QueueTasks(x, u), dsl' = dsl, NEW y \in queue' \ queue, PlacedAt(y)
  PROVE  OutEdges(y) \intersect DOMAIN edges' = {}
<1>1. /\ x \in Task /\ Undecided(x)
      /\ x.stream # ROOT_STREAM =>
           LeafRef(x.stream) \in dsl.refs /\ Rank(dsl)[x.ref] >= Rank(dsl)[LeafRef(x.stream)]
  BY EmitterTask
<1>2. /\ DOMAIN edges' = DOMAIN edges \union OutEdges(x)
      /\ y \in Task /\ y \notin Started /\ y.stream = x.stream
      /\ \E d \in dsl.deps[y.ref] : d[1] = x.ref
  BY <1>1, Emits, Parts
<1>3. x.ref \in dsl.refs /\ y.ref \in dsl.refs  BY <1>1, <1>2 DEF Task
<1>4. Rank(dsl) \in [dsl.refs -> Nat] /\ Rank(dsl)[x.ref] < Rank(dsl)[y.ref]
  BY <1>2, <1>3, Parts, ScopeLaws DEF ScopedBy
<1> SUFFICES ASSUME NEW e \in OutEdges(y), e \in DOMAIN edges' PROVE FALSE
  OBVIOUS
<1>5. e.src = y.ref /\ e.stream = y.stream /\ TaskOf(e.src, e.stream) = y
  BY <1>2, OneSource
<1>6. e \notin OutEdges(x)
  <2>1. e \in OutEdges(x) => e.src = x.ref  BY <1>1, OneSource
  <2>2. QED  BY <1>3, <1>4, <1>5, <2>1
<1>7. e \in DOMAIN edges  BY <1>2, <1>6
<1>8. CASE y \in completed_tasks  BY <1>2, <1>8 DEF Started
<1>9. CASE e.stream # ROOT_STREAM /\ LeafRef(e.stream) = e.src
  BY <1>1, <1>2, <1>3, <1>4, <1>5, <1>9
<1>10. CASE GatherSpent(y)
  <2>1. PICK v \in completed_tasks :
          /\ v.stream # ROOT_STREAM /\ ParentGather(v) = y
          /\ ParentScatter(v) \in DOMAIN open_streams
    BY <1>10 DEF GatherSpent
  <2>2. ~ PlacedAt(ParentGather(v))  BY <2>1, Parts, GatherBelow DEF Started
  <2>3. QED  BY <2>1, <2>2
<1>11. QED  BY <1>5, <1>7, <1>8, <1>9, <1>10, Parts DEF SourcesSpent
-----------------------------------------------------------------------------
(***************************************************************************)
(* What every step of a coroutine leaves alone, and the steps that decide  *)
(* edges.                                                                  *)
(***************************************************************************)
Frame(t) ==
  /\ dsl' = dsl
  /\ DOMAIN pending' \subseteq DOMAIN pending
  /\ DOMAIN pending \ {t} \subseteq DOMAIN pending'
  /\ \A z \in DOMAIN pending' : z # t => pending'[z] = pending[z]
  /\ completed_tasks' = completed_tasks \union (DOMAIN pending \ DOMAIN pending')
  /\ task_exceptions \subseteq task_exceptions'
  /\ loop' = loop \/ (loop = "waiting" /\ loop' = "ready")
  /\ DOMAIN task_streams \subseteq DOMAIN task_streams'
  /\ DOMAIN task_streams' \subseteq DOMAIN task_streams \union {t}
  /\ \A p \in DOMAIN task_streams : p # t => task_streams'[p] = task_streams[p]
  /\ t \in DOMAIN task_streams => task_streams'[t] \in {task_streams[t], task_streams[t] + 1}
  /\ DOMAIN open_streams \subseteq DOMAIN open_streams'
  /\ DOMAIN open_streams' \subseteq DOMAIN open_streams \union {t}

Emission(t, x, u) ==
  /\ Frame(t) /\ Emitter(t, x) /\ QueueTasks(x, u)
  /\ \A p \in DOMAIN open_streams : open_streams'[p] = open_streams[p]
  /\ Calm' /\ x = t => dsl.kind[t.ref] = "action" \/ Dead(t.stream)
  /\ Calm' /\ IsSkipStream(x.stream) => OutEdges(x) \subseteq u
  /\ t \in DOMAIN pending' =>
       /\ pending'[t].at = "scattering"
       /\ dsl.kind[t.ref] = "scatter" /\ \E i \in Int : x = Below(t, i)
  /\ x.stream # ROOT_STREAM =>
       (Scattering(Maker(x.stream))' => OutEdges(x) \intersect u = {})
  /\ StreamMade(x.stream)'

\* A stream that was made stays made.
LEMMA MadeStays ==
  ASSUME ScopeInv, NEW t \in DOMAIN pending, Frame(t), NEW s, StreamMade(s)
  PROVE  StreamMade(s)'
<1>1. t \notin completed_tasks /\ completed_tasks \subseteq completed_tasks'
  BY Parts DEF Counted, RunsOnce, Frame
<1>2. CASE s = ROOT_STREAM  BY <1>2 DEF StreamMade
<1>3. CASE s # ROOT_STREAM
  <2>1. /\ dsl.kind[LeafRef(s)] = "scatter"
        /\ LeafIndex(s) = SKIP =>
             /\ Maker(s) \in completed_tasks
             /\ Maker(s) \in DOMAIN task_streams => task_streams[Maker(s)] = 0
        /\ LeafIndex(s) # SKIP =>
             Maker(s) \in DOMAIN task_streams /\ LeafIndex(s) \in 0 .. task_streams[Maker(s)] - 1
    BY <1>3 DEF StreamMade
  <2>2. LeafIndex(s) = SKIP =>
             /\ Maker(s) \in completed_tasks'
             /\ Maker(s) \in DOMAIN task_streams' => task_streams'[Maker(s)] = 0
    BY <1>1, <2>1 DEF Frame
  <2>3. LeafIndex(s) # SKIP =>
          Maker(s) \in DOMAIN task_streams' /\ LeafIndex(s) \in 0 .. task_streams'[Maker(s)] - 1
    <3> SUFFICES ASSUME LeafIndex(s) # SKIP
                 PROVE  Maker(s) \in DOMAIN task_streams' /\ LeafIndex(s) \in 0 .. task_streams'[Maker(s)] - 1
      OBVIOUS
    <3>1. Maker(s) \in DOMAIN task_streams /\ LeafIndex(s) \in 0 .. task_streams[Maker(s)] - 1
      BY <2>1
    <3>2. task_streams[Maker(s)] \in Nat  BY <3>1, Parts DEF TypeOK
    <3>3. task_streams'[Maker(s)] \in {task_streams[Maker(s)], task_streams[Maker(s)] + 1}
      BY <3>1 DEF Frame
    <3>4. QED  BY <3>1, <3>2, <3>3 DEF Frame
  <2>4. dsl'.kind[LeafRef(s)] = "scatter"  BY <2>1 DEF Frame
  <2>5. QED  BY <2>2, <2>3, <2>4 DEF StreamMade, Maker, LeafIndex, LeafRef, TaskOf, Parent
<1>4. QED  BY <1>2, <1>3

\* The coroutine ends and the tables of the scatters are left alone.
LEMMA CompleteFrame ==
  ASSUME TypeOK, NEW t \in DOMAIN pending, Complete(t), dsl' = dsl,
         task_exceptions \subseteq task_exceptions',
         UNCHANGED <<task_streams, open_streams>>
  PROVE  Frame(t) /\ t \notin DOMAIN pending' /\ t \in completed_tasks'
<1>1. /\ DOMAIN pending' = DOMAIN pending \ {t}
      /\ completed_tasks' = completed_tasks \union {t}
      /\ \A z \in DOMAIN pending' : pending'[z] = pending[z]
      /\ loop' = loop \/ (loop = "waiting" /\ loop' = "ready")
  BY DEF Complete
<1>2. QED  BY <1>1 DEF Frame

\* A task that decides its own edges.
LEMMA OwnEmission ==
  ASSUME Scoped, ScopeInv, NEW t \in DOMAIN pending, NEW u, OwnStep(t, u)
  PROVE  Emission(t, t, u) /\ t \notin DOMAIN pending' /\ t \in completed_tasks'
         /\ task_streams' = task_streams /\ open_streams' = open_streams
<1>1. t \in Task /\ t \in Started  BY Parts DEF TypeOK, Started
<1>2. Frame(t) /\ t \notin DOMAIN pending' /\ t \in completed_tasks'
  BY CompleteFrame, Parts DEF OwnStep
<1>3. StreamMade(t.stream)'
  <2>1. StreamMade(t.stream)  BY <1>1, Parts, ReachedStream DEF StreamMade
  <2>2. QED  BY <1>2, <2>1, MadeStays
<1>4. t.stream # ROOT_STREAM =>
       (Scattering(Maker(t.stream))' => OutEdges(t) \intersect u = {})
  <2> SUFFICES ASSUME t.stream # ROOT_STREAM, Scattering(Maker(t.stream))'  PROVE FALSE
    OBVIOUS
  <2>1. ParentScatter(t) = Maker(t.stream)  BY DEF ParentScatter, Maker
  <2>2. Maker(t.stream)' = Maker(t.stream)
    BY DEF Maker, TaskOf, LeafRef, Parent
  <2>3. Maker(t.stream) \in DOMAIN pending' /\ pending'[Maker(t.stream)].at = "scattering"
    BY <2>2 DEF Scattering
  <2>4. Scattering(Maker(t.stream))  BY <1>2, <2>3 DEF Frame, Scattering
  <2>5. QED  BY <2>1, <2>4 DEF OwnStep
<1>5. Emission(t, t, u)
  BY <1>2, <1>3, <1>4 DEF Emission, Emitter, OwnStep
<1>6. QED  BY <1>2, <1>5 DEF OwnStep
\* A scatter that is skipped, or has no items, opens a skip stream.
LEMMA SkipEmission ==
  ASSUME Scoped, ScopeInv, NEW t \in DOMAIN pending, SkipStep(t) \/ EmptyStep(t)
  PROVE  /\ Emission(t, Below(t, SKIP), OutEdges(Below(t, SKIP)))
         /\ t \notin DOMAIN pending' /\ t \in completed_tasks'
<1> DEFINE x == Below(t, SKIP)
<1>1. t \in Task /\ SKIP \in Int /\ dsl.kind[t.ref] = "scatter" /\ t \notin DOMAIN task_streams
  BY Parts DEF TypeOK, SKIP, SkipStep, EmptyStep
<1>2. /\ x.stream # ROOT_STREAM /\ LeafRef(x.stream) = t.ref
      /\ LeafIndex(x.stream) = SKIP /\ Maker(x.stream) = t
  BY <1>1, BelowParts
<1>3. QueueTasks(x, OutEdges(x)) /\ Complete(t) /\ dsl' = dsl /\ task_exceptions' = task_exceptions
  BY DEF SkipStep, EmptyStep, QueueSkipStream, Below, excs
<1>4. /\ DOMAIN pending' = DOMAIN pending \ {t}
      /\ completed_tasks' = completed_tasks \union {t}
      /\ \A z \in DOMAIN pending' : pending'[z] = pending[z]
      /\ loop' = loop \/ (loop = "waiting" /\ loop' = "ready")
  BY <1>3 DEF Complete
<1>5. t \notin DOMAIN open_streams  BY <1>1, Parts DEF ScattersKnown
<1>6. /\ DOMAIN task_streams \subseteq DOMAIN task_streams'
      /\ DOMAIN task_streams' \subseteq DOMAIN task_streams \union {t}
      /\ \A p \in DOMAIN task_streams : task_streams'[p] = task_streams[p]
      /\ DOMAIN open_streams \subseteq DOMAIN open_streams'
      /\ DOMAIN open_streams' \subseteq DOMAIN open_streams \union {t}
      /\ \A p \in DOMAIN open_streams : open_streams'[p] = open_streams[p]
      /\ t \in DOMAIN task_streams' => task_streams'[t] = 0
  BY <1>1, <1>5 DEF SkipStep, EmptyStep, SetOpenStreams, scopes
<1>7. Frame(t)  BY <1>1, <1>3, <1>4, <1>6 DEF Frame
<1>8. StreamMade(x.stream)'
  <2>1. dsl'.kind[LeafRef(x.stream)] = "scatter"  BY <1>1, <1>2, <1>3
  <2>2. Maker(x.stream) \in completed_tasks'  BY <1>2, <1>4
  <2>3. Maker(x.stream) \in DOMAIN task_streams' => task_streams'[Maker(x.stream)] = 0
    BY <1>2, <1>6
  <2> HIDE DEF x
  <2>4. QED
    BY <1>2, <2>1, <2>2, <2>3 DEF StreamMade
<1>9. Emitter(t, x)  BY <1>1 DEF Emitter, Fresh
<1>10. ~ Scattering(t)'  BY <1>4 DEF Scattering
<1>11. ~ Scattering(Maker(x.stream))'
  <2> HIDE DEF x
  <2>1. QED  BY <1>2, <1>4 DEF Scattering
<1>12. x # t
  BY <1>1, BelowOther
<1>13. QED
  BY <1>3, <1>4, <1>6, <1>7, <1>8, <1>9, <1>11, <1>12 DEF Emission
\* A scatter makes its next stream.
LEMMA MakeEmission ==
  ASSUME Scoped, ScopeInv, NEW t \in DOMAIN pending, NEW i \in Nat, MakeStep(t, i)
  PROVE  /\ Emission(t, Below(t, i), {})
         /\ DOMAIN pending' = DOMAIN pending /\ open_streams' = open_streams
         /\ completed_tasks' = completed_tasks /\ loop' = loop
         /\ t \in DOMAIN task_streams' /\ pending'[t].at = "scattering"
<1> DEFINE x == Below(t, i)
<1>1. t \in Task /\ i \in Int /\ i # SKIP /\ dsl.kind[t.ref] = "scatter"
  BY Parts DEF TypeOK, SKIP, MakeStep
<1>2. /\ x.stream # ROOT_STREAM /\ LeafRef(x.stream) = t.ref
      /\ LeafIndex(x.stream) = i /\ Maker(x.stream) = t /\ x # t
  BY <1>1, BelowParts, BelowOther
<1>3. PICK n : CreateStream(t, i, n)  BY DEF MakeStep
<1>4. /\ DOMAIN pending' = DOMAIN pending /\ pending'[t].at = "scattering"
      /\ \A z \in DOMAIN pending' : z # t => pending'[z] = pending[z]
      /\ UNCHANGED <<dsl, excs, open_streams, completed_tasks, loop>>
  BY <1>3 DEF CreateStream
<1>5. /\ DOMAIN task_streams' = DOMAIN task_streams \union {t}
      /\ task_streams'[t] = i + 1
      /\ \A p \in DOMAIN task_streams : p # t => task_streams'[p] = task_streams[p]
  BY <1>3 DEF CreateStream
<1>6. t \in DOMAIN task_streams => i = task_streams[t]  BY DEF MakeStep
<1>7. Frame(t)  BY <1>4, <1>5, <1>6 DEF Frame, excs
<1>8. StreamMade(x.stream)'
  <2>1. dsl'.kind[LeafRef(x.stream)] = "scatter"  BY <1>1, <1>2, <1>4
  <2>2. Maker(x.stream) \in DOMAIN task_streams' /\ task_streams'[Maker(x.stream)] = i + 1
    BY <1>2, <1>5
  <2>3. i \in 0 .. (i + 1) - 1  OBVIOUS
  <2> HIDE DEF x
  <2>4. QED
    BY <1>1, <1>2, <2>1, <2>2, <2>3 DEF StreamMade
<1>9. Emitter(t, x)  BY <1>1, <1>6 DEF Emitter, Fresh
<1>10. QueueTasks(x, {})  BY <1>3 DEF CreateStream, Below
<1>11. ~ IsSkipStream(x.stream)  BY <1>1, <1>2 DEF IsSkipStream
<1>12. QED
  BY <1>1, <1>2, <1>4, <1>5, <1>7, <1>8, <1>9, <1>10, <1>11 DEF Emission

\* A gather goes on in the parent stream.
LEMMA UpEmission ==
  ASSUME Scoped, ScopeInv, NEW t \in DOMAIN pending, UpStep(t)
  PROVE  /\ Emission(t, ParentGather(t), {})
         /\ t \notin DOMAIN pending' /\ t \in completed_tasks'
         /\ task_streams' = task_streams /\ open_streams' = open_streams
<1> DEFINE x == ParentGather(t)
<1>1. t \in Task /\ t \in Started /\ t.stream \in StreamId  BY Parts DEF TypeOK, Started, Task
<1>2. Frame(t) /\ t \notin DOMAIN pending' /\ t \in completed_tasks'
  BY CompleteFrame, Parts DEF UpStep, excs
<1>3. /\ t.stream # ROOT_STREAM /\ ParentScatter(t) \in DOMAIN open_streams
      /\ x.ref = t.ref /\ x.stream = Parent(t.stream) /\ ~ PlacedAt(x)
  BY ClosingParts DEF UpStep
<1>4. ~ IsSkipStream(x.stream)  BY <1>1, <1>3, Parts, GatherBelow
<1>5. StreamMade(x.stream)'
  <2>1. CASE x.stream = ROOT_STREAM
    <3> HIDE DEF x
    <3>1. QED  BY <2>1 DEF StreamMade
  <2>2. CASE x.stream # ROOT_STREAM
    <3>1. StreamMade(t.stream)  BY <1>1, <1>3, Parts, ReachedStream
    <3>2. Maker(t.stream) \in Started /\ Maker(t.stream).stream = x.stream
      BY <1>1, <1>3, <3>1, Parts, MakerStarted
    <3>3. StreamMade(x.stream)  BY <2>2, <3>2, Parts, ReachedStream
    <3>4. QED  BY <1>2, <3>3, MadeStays
  <2>3. QED  BY <2>1, <2>2
<1>6. x # t  BY <1>1, <1>3, Parts DEF Placed, Alive
<1>7. Emitter(t, x)  BY DEF Emitter, UpStep
<1>8. Emission(t, x, {})
  BY <1>2, <1>4, <1>5, <1>6, <1>7 DEF Emission, UpStep
<1>9. QED  BY <1>2, <1>8 DEF UpStep
-----------------------------------------------------------------------------
(***************************************************************************)
(* The steps that decide edges keep the accounting and the invariant.      *)
(***************************************************************************)
\* What such a step does to the graph.
LEMMA EmissionGraph ==
  ASSUME Scoped, ScopeInv, NEW t \in DOMAIN pending, NEW x, NEW u, Emission(t, x, u)
  PROVE  /\ x \in Task /\ Undecided(x) /\ dsl' = dsl
         /\ IndegreeExact' /\ Untouched'
         /\ DOMAIN edges' = DOMAIN edges \union OutEdges(x)
         /\ \A e \in DOMAIN edges : edges'[e] = edges[e]
         /\ \A e \in OutEdges(x) : edges'[e] = IF e \in u THEN "SKIPPED" ELSE "VISITED"
         /\ \A e \in OutEdges(x) : e.src = x.ref /\ e.stream = x.stream /\ TaskOf(e.src, e.stream) = x
         /\ queue \subseteq queue'
         /\ \A y \in queue' \ queue :
              /\ y \in Task /\ y \notin Started /\ y.stream = x.stream
              /\ InEdges(y) \subseteq DOMAIN edges'
              /\ \E d \in dsl.deps[y.ref] : d[1] = x.ref
<1>1. x \in Task /\ Undecided(x)  BY EmitterTask DEF Emission
<1>2. QueueTasks(x, u) /\ dsl' = dsl  BY DEF Emission, Frame
<1>3. \A e \in OutEdges(x) : e.src = x.ref /\ e.stream = x.stream /\ TaskOf(e.src, e.stream) = x
  BY <1>1, OneSource
<1>4. QED  BY <1>1, <1>2, <1>3, Emits, Parts

\* The accounting.
LEMMA EmissionCounted ==
  ASSUME Scoped, ScopeInv, NEW t \in DOMAIN pending, NEW x, NEW u, Emission(t, x, u)
  PROVE  Counted'
<1>1. /\ dsl' = dsl /\ IndegreeExact' /\ Untouched'
      /\ DOMAIN edges' = DOMAIN edges \union OutEdges(x)
      /\ \A y \in queue' \ queue : y \notin Started /\ InEdges(y) \subseteq DOMAIN edges'
  BY EmissionGraph
<1>2. /\ DOMAIN pending' \subseteq DOMAIN pending
      /\ completed_tasks' = completed_tasks \union (DOMAIN pending \ DOMAIN pending')
  BY DEF Emission, Frame
<1>3. ReadyMeansDecided'
  <2>1. ASSUME NEW y \in queue' \union DOMAIN pending' \union completed_tasks'
        PROVE  InEdges(y) \subseteq DOMAIN edges'
    BY <1>1, <1>2, Parts DEF Counted, ReadyMeansDecided
  <2>2. QED  BY <1>1, <2>1, SameEdges DEF ReadyMeansDecided
<1>4. RunsOnce'  BY <1>1, <1>2, Parts DEF Counted, RunsOnce, Started
<1>5. QED  BY <1>1, <1>3, <1>4 DEF Counted

\* The tree of streams.
LEMMA EmissionTree ==
  ASSUME Scoped, ScopeInv, NEW t \in DOMAIN pending, NEW x, NEW u, Emission(t, x, u)
  PROVE  StreamsMade' /\ RanksGrow' /\ EntriesAtRoot'
<1>1. /\ x \in Task /\ dsl' = dsl /\ DOMAIN edges' = DOMAIN edges \union OutEdges(x)
      /\ \A e \in OutEdges(x) : e.src = x.ref /\ e.stream = x.stream
      /\ \A y \in queue' \ queue : \E d \in dsl.deps[y.ref] : d[1] = x.ref
  BY EmissionGraph, ZenonT(60)
<1>2. StreamsMade'
  <2>1. ASSUME NEW e \in DOMAIN edges'  PROVE StreamMade(e.stream)'
    <3>1. CASE e \in DOMAIN edges
      <4>1. StreamMade(e.stream)  BY <3>1, Parts DEF StreamsMade
      <4>2. QED  BY <4>1, MadeStays DEF Emission
    <3>2. CASE e \in OutEdges(x)  BY <1>1, <3>2 DEF Emission
    <3>3. QED  BY <1>1, <3>1, <3>2
  <2>2. QED  BY <2>1 DEF StreamsMade
<1>3. RanksGrow'
  <2>1. x.stream # ROOT_STREAM => Rank(dsl)[x.ref] >= Rank(dsl)[LeafRef(x.stream)]
    BY EmitterTask DEF Emission
  <2>2. ASSUME NEW e \in DOMAIN edges', e.stream # ROOT_STREAM
        PROVE  Rank(dsl)[e.src] >= Rank(dsl)[LeafRef(e.stream)]
    BY <1>1, <2>1, <2>2, Parts DEF RanksGrow
  <2>3. Rank(dsl') = Rank(dsl)  BY <1>1
  <2>4. QED  BY <2>2, <2>3 DEF RanksGrow
<1>4. EntriesAtRoot'
  <2>1. Started' = Started \/ Started' \subseteq Started
    BY DEF Started, Emission, Frame
  <2>2. ASSUME NEW y \in Started' \union queue', dsl.deps[y.ref] = {}
        PROVE  y.stream = ROOT_STREAM
    BY <1>1, <2>1, <2>2, Parts DEF EntriesAtRoot
  <2>3. QED  BY <1>1, <2>2 DEF EntriesAtRoot
<1>5. QED  BY <1>2, <1>3, <1>4

\* Who has decided what.
LEMMA EmissionSpent ==
  ASSUME Scoped, ScopeInv, NEW t \in DOMAIN pending, NEW x, NEW u, Emission(t, x, u),
         \/ x \in completed_tasks'
         \/ x.stream # ROOT_STREAM /\ LeafRef(x.stream) = x.ref
         \/ GatherSpent(x)'
  PROVE  SpentInv'
<1>1. /\ x \in Task /\ dsl' = dsl /\ DOMAIN edges' = DOMAIN edges \union OutEdges(x)
      /\ \A e \in OutEdges(x) : e.src = x.ref /\ e.stream = x.stream /\ TaskOf(e.src, e.stream) = x
      /\ queue \subseteq queue'
      /\ \A y \in queue' \ queue :
              /\ y \in Task /\ y.stream = x.stream
              /\ \E d \in dsl.deps[y.ref] : d[1] = x.ref
  BY EmissionGraph, ZenonT(60)
<1>2. /\ Frame(t) /\ Emitter(t, x) /\ QueueTasks(x, u)
      /\ \A p \in DOMAIN open_streams : open_streams'[p] = open_streams[p]
      /\ completed_tasks \subseteq completed_tasks'
      /\ DOMAIN open_streams \subseteq DOMAIN open_streams'
  BY DEF Emission, Frame
<1>3. SourcesSpent'
  <2>1. ASSUME NEW z, GatherSpent(z)  PROVE GatherSpent(z)'
    <3>1. PICK v \in completed_tasks :
            /\ dsl.kind[v.ref] = "gather" /\ v.stream # ROOT_STREAM /\ ParentGather(v) = z
            /\ ParentScatter(v) \in DOMAIN open_streams
            /\ open_streams[ParentScatter(v)] = 0
      BY <2>1 DEF GatherSpent
    <3>2. v \in completed_tasks' /\ ParentScatter(v) \in DOMAIN open_streams'
          /\ open_streams'[ParentScatter(v)] = 0
      BY <1>2, <3>1
    <3>3. QED  BY <1>1, <3>1, <3>2 DEF GatherSpent
  <2>2. ASSUME NEW e \in DOMAIN edges'
        PROVE  \/ TaskOf(e.src, e.stream) \in completed_tasks'
               \/ e.stream # ROOT_STREAM /\ LeafRef(e.stream) = e.src
               \/ GatherSpent(TaskOf(e.src, e.stream))'
    <3>1. CASE e \in DOMAIN edges
      <4>1. \/ TaskOf(e.src, e.stream) \in completed_tasks
            \/ e.stream # ROOT_STREAM /\ LeafRef(e.stream) = e.src
            \/ GatherSpent(TaskOf(e.src, e.stream))
        BY <3>1, Parts DEF SourcesSpent
      <4>2. QED  BY <1>2, <2>1, <4>1
    <3>2. CASE e \in OutEdges(x)
      <4>1. e.src = x.ref /\ e.stream = x.stream /\ TaskOf(e.src, e.stream) = x
        BY <1>1, <3>2
      <4>2. QED  BY <4>1
    <3>3. QED  BY <1>1, <3>1, <3>2
  <2>3. QED  BY <2>2 DEF SourcesSpent
<1>4. /\ \A z \in Started \union queue : PlacedAt(z) /\ z = x => x = t
      /\ \A z \in DOMAIN pending : Closing(z) /\ z # t => ParentGather(z) # x
  BY <1>2, EmitterAlone
<1>5. ASSUME NEW z \in Task, z # x, Undecided(z)  PROVE Undecided(z)'
  <2>1. ASSUME NEW e \in OutEdges(z)  PROVE TaskOf(e.src, e.stream) = z
    BY <2>1, OneSource
  <2>2. OutEdges(z) \intersect DOMAIN edges' = {}
    BY <1>1, <1>5, <2>1 DEF Undecided
  <2>3. QED  BY <1>1, <2>2, SameEdges DEF Undecided
<1>6. t \in DOMAIN pending' => x # t
  <2>1. t \in Task  BY Parts DEF TypeOK
  <2>2. QED  BY <2>1, BelowOther DEF Emission
<1>7. OwnUndecided'
  <2>1. ASSUME NEW z \in DOMAIN pending'  PROVE Undecided(z)'
    <3>1. z \in DOMAIN pending  BY <1>2 DEF Frame
    <3>2. z \in Task /\ PlacedAt(z) /\ Undecided(z)
      BY <3>1, Parts DEF TypeOK, Placed, Alive, Started, OwnUndecided
    <3>3. z # x
      <4>1. z = x => z = t  BY <1>4, <3>1, <3>2 DEF Started
      <4>2. QED  BY <1>6, <2>1, <4>1
    <3>4. QED  BY <1>5, <3>2, <3>3
  <2>2. ASSUME NEW z \in queue', Calm'  PROVE Undecided(z)'
    <3>1. Calm  BY <1>2, <2>2 DEF Calm, Frame
    <3>2. CASE z \in queue
      <4>1. z \in Task /\ PlacedAt(z) /\ Undecided(z)
        BY <3>1, <3>2, Parts DEF TypeOK, Placed, Alive, OwnUndecided
      <4>2. z # t  BY <3>2, Parts DEF Counted, RunsOnce
      <4>3. QED  BY <1>4, <1>5, <3>2, <4>1, <4>2
    <3>3. CASE z \in queue' \ queue
      <4>1. PICK d \in dsl.deps[z.ref] : d[1] = x.ref  BY <1>1, <3>3
      <4>2. z \in Task /\ z.stream = x.stream  BY <1>1, <3>3
      <4>3. x = t => dsl.kind[t.ref] = "action" \/ Dead(t.stream)  BY <2>2 DEF Emission
      <4>4. PlacedAt(z)  BY <1>2, <4>1, <4>2, <4>3, EmitterPlaces
      <4>5. OutEdges(z) \intersect DOMAIN edges' = {}
        BY <1>1, <1>2, <3>3, <4>4, NewUndecided
      <4>6. QED  BY <1>1, <4>5, SameEdges DEF Undecided
    <3>4. QED  BY <2>2, <3>2, <3>3
  <2>3. QED  BY <2>1, <2>2 DEF OwnUndecided
<1>8. ClosersUnique'
  <2>1. ASSUME NEW z \in DOMAIN pending', Closing(z)'
        PROVE  z \in DOMAIN pending /\ z # t /\ Closing(z)
    <3>1. z # t
      <4>1. z = t => pending'[z].at = "scattering"  BY <2>1 DEF Emission
      <4>2. QED  BY <2>1, <4>1 DEF Closing, Finalizing
    <3>2. pending'[z] = pending[z] /\ z \in DOMAIN pending  BY <1>2, <2>1, <3>1 DEF Frame
    <3>3. QED  BY <2>1, <3>1, <3>2 DEF Closing, Finalizing
  <2>2. ASSUME NEW z \in DOMAIN pending', Closing(z)'
        PROVE  /\ Undecided(ParentGather(z))'
               /\ ParentScatter(z) \in DOMAIN open_streams'
               /\ open_streams'[ParentScatter(z)] = 0
    <3>1. z \in DOMAIN pending /\ z # t /\ Closing(z)  BY <2>1, <2>2
    <3>2. /\ ParentGather(z) \in Task /\ Undecided(ParentGather(z))
          /\ ParentScatter(z) \in DOMAIN open_streams /\ open_streams[ParentScatter(z)] = 0
      BY <3>1, ClosingParts
    <3>3. ParentGather(z) # x  BY <1>4, <3>1
    <3>4. Undecided(ParentGather(z))'
      <4>1. ParentGather(z)' = ParentGather(z)  BY DEF ParentGather, TaskOf, Parent
      <4>2. QED  BY <1>5, <3>2, <3>3
    <3>5. QED  BY <1>2, <3>2, <3>4
  <2>3. ASSUME NEW z \in DOMAIN pending', NEW v \in DOMAIN pending', Closing(z)', Closing(v)',
               ParentScatter(z) = ParentScatter(v)
        PROVE  z = v
    BY <2>1, <2>3, Parts DEF ClosersUnique
  <2>4. QED  BY <2>2, <2>3 DEF ClosersUnique, ParentScatter, TaskOf, LeafRef, Parent
<1>9. QED  BY <1>3, <1>7, <1>8 DEF SpentInv
\* A stream nobody gathers stays one.
LEMMA DeadStays ==
  ASSUME Scoped, ScopeInv, NEW t \in DOMAIN pending, Frame(t), NEW z \in Started \union queue,
         Dead(z.stream)
  PROVE  Dead(z.stream)'
<1>1. StreamMade(z.stream)
  BY Parts, ReachedStream DEF Dead, IsSkipStream
<1>2. Maker(z.stream) \in completed_tasks
  BY <1>1 DEF Dead, IsSkipStream, StreamMade
<1>3. Maker(z.stream) # t  BY <1>2, Parts DEF Counted, RunsOnce
<1>4. Maker(z.stream) \notin DOMAIN open_streams'  BY <1>3 DEF Dead, Frame
<1>5. QED  BY <1>4 DEF Dead, IsSkipStream, LeafIndex, Maker, TaskOf, LeafRef, Parent

\* Where a task is placed does not change.
LEMMA PlacedStays ==
  ASSUME Scoped, ScopeInv, NEW t \in DOMAIN pending, Frame(t), NEW z \in Started \union queue,
         PlacedAt(z)
  PROVE  PlacedAt(z)'
<1>1. Scope(dsl') = Scope(dsl)  BY DEF Frame
<1>2. CASE Scope(dsl)[z.ref] = Home(z.stream)  BY <1>1, <1>2 DEF PlacedAt
<1>3. CASE Dead(z.stream)
  <2>1. Dead(z.stream)'  BY <1>3, DeadStays
  <2>2. QED  BY <2>1 DEF PlacedAt
<1>4. QED  BY <1>2, <1>3 DEF PlacedAt

\* Where tasks run, and what is skipped and visited.
LEMMA EmissionPlace ==
  ASSUME Scoped, ScopeInv, NEW t \in DOMAIN pending, NEW x, NEW u, Emission(t, x, u)
  PROVE  PlaceInv'
<1>1. /\ x \in Task /\ dsl' = dsl /\ DOMAIN edges' = DOMAIN edges \union OutEdges(x)
      /\ \A e \in DOMAIN edges : edges'[e] = edges[e]
      /\ \A e \in OutEdges(x) : edges'[e] = IF e \in u THEN "SKIPPED" ELSE "VISITED"
      /\ \A e \in OutEdges(x) : e.src = x.ref /\ e.stream = x.stream
      /\ \A y \in queue' \ queue :
              /\ y \in Task /\ y.stream = x.stream
              /\ InEdges(y) \subseteq DOMAIN edges'
              /\ \E d \in dsl.deps[y.ref] : d[1] = x.ref
  BY EmissionGraph, ZenonT(60)
<1>2. Frame(t) /\ Emitter(t, x)  BY DEF Emission
<1>3. Started' \subseteq Started /\ (Calm' => Calm)
  BY <1>2 DEF Started, Calm, Frame
<1>4. ASSUME NEW z \in Alive'
      PROVE  z \in Alive \/ (z \in queue' \ queue /\ Calm' /\ Calm)
  BY <1>3, <1>4 DEF Alive
<1>5. Placed'
  <2>1. ASSUME NEW z \in Alive'  PROVE PlacedAt(z)'
    <3>1. CASE z \in Alive
      <4>1. PlacedAt(z) /\ z \in Started \union queue  BY <3>1, Parts DEF Placed, Alive
      <4>2. QED  BY <1>2, <4>1, PlacedStays
    <3>2. CASE z \in queue' \ queue /\ Calm'
      <4>1. PICK d \in dsl.deps[z.ref] : d[1] = x.ref  BY <1>1, <3>2
      <4>2. z \in Task /\ z.stream = x.stream  BY <1>1, <3>2
      <4>3. x = t => dsl.kind[t.ref] = "action" \/ Dead(t.stream)  BY <3>2 DEF Emission
      <4>4. Scope(dsl)[z.ref] = Home(z.stream) \/ (x = t /\ Dead(t.stream))
        BY <1>2, <4>1, <4>2, <4>3, EmitterPlaces
      <4>5. CASE Scope(dsl)[z.ref] = Home(z.stream)
        BY <1>1, <4>5 DEF PlacedAt
      <4>6. CASE x = t /\ Dead(t.stream)
        <5>1. Dead(t.stream)'  BY <1>2, <4>6, DeadStays DEF Started
        <5>2. z.stream = t.stream  BY <4>2, <4>6
        <5>3. Dead(z.stream)'  BY <5>1, <5>2
        <5>4. QED  BY <5>3 DEF PlacedAt
      <4>7. QED  BY <4>4, <4>5, <4>6
    <3>3. QED  BY <1>4, <2>1, <3>1, <3>2
  <2>2. QED  BY <2>1 DEF Placed
<1>6. SkipsSkip'
  <2>1. ASSUME Calm', NEW e \in DOMAIN edges', IsSkipStream(e.stream)
        PROVE  edges'[e] = "SKIPPED"
    <3>1. CASE e \in DOMAIN edges
      <4>1. edges[e] = "SKIPPED"  BY <1>3, <2>1, <3>1, Parts DEF SkipsSkip
      <4>2. QED  BY <1>1, <3>1, <4>1
    <3>2. CASE e \in OutEdges(x)
      <4>1. IsSkipStream(x.stream)  BY <1>1, <2>1, <3>2
      <4>2. e \in u  BY <2>1, <3>2, <4>1 DEF Emission
      <4>3. QED  BY <1>1, <3>2, <4>2
    <3>3. QED  BY <1>1, <2>1, <3>1, <3>2
  <2>2. ASSUME NEW z \in Alive', IsSkipStream(z.stream), NEW e \in InEdges(z)
        PROVE  e \in DOMAIN edges' /\ edges'[e] = "SKIPPED"
    <3>1. CASE z \in Alive
      <4>1. e \in DOMAIN edges
        BY <2>2, <3>1, Parts DEF Counted, ReadyMeansDecided, Alive, Started
      <4>2. Marker(e) = "SKIPPED"  BY <2>2, <3>1, Parts DEF SkipsSkip
      <4>3. QED  BY <1>1, <4>1, <4>2 DEF Marker
    <3>2. CASE z \in queue' \ queue /\ Calm'
      <4>1. e \in DOMAIN edges'  BY <1>1, <2>2, <3>2
      <4>2. e.stream = z.stream  BY <2>2 DEF InEdges, DepEdge, EdgeOf
      <4>3. QED  BY <2>1, <2>2, <3>2, <4>1, <4>2
    <3>3. QED  BY <1>4, <2>2, <3>1, <3>2
  <2>3. \A z \in Alive' : IsSkipStream(z.stream) => \A e \in InEdges(z)' : Marker(e)' = "SKIPPED"
    BY <1>1, <2>2, SameEdges DEF Marker
  <2>4. \A s : IsSkipStream(s)' = IsSkipStream(s)  BY DEF IsSkipStream, LeafIndex
  <2>5. QED  BY <2>1, <2>3, <2>4 DEF SkipsSkip
<1>7. LoopsVisit'
  <2>1. ASSUME NEW p \in DOMAIN pending', Scattering(p)', NEW e \in DOMAIN edges',
               e.stream # ROOT_STREAM, Maker(e.stream) = p
        PROVE  edges'[e] = "VISITED"
    <3>1. p \in DOMAIN pending /\ pending'[p].at = "scattering"
      BY <1>2, <2>1 DEF Frame, Scattering
    <3>2. CASE e \in DOMAIN edges
      <4>1. StreamMade(e.stream)  BY <3>2, Parts DEF StreamsMade
      <4>2. p \notin completed_tasks  BY <3>1, Parts DEF Counted, RunsOnce
      <4>3. p \in DOMAIN task_streams  BY <2>1, <4>1, <4>2 DEF StreamMade
      <4>4. Scattering(p)  BY <3>1, <4>3, Parts DEF ScattersKnown, Scattering
      <4>5. edges[e] = "VISITED"  BY <2>1, <3>1, <3>2, <4>4, Parts DEF LoopsVisit
      <4>6. QED  BY <1>1, <3>2, <4>5
    <3>3. CASE e \in OutEdges(x)
      <4>1. x.stream # ROOT_STREAM /\ Maker(x.stream) = p  BY <1>1, <2>1, <3>3
      <4>2. Scattering(Maker(x.stream))'
        <5>1. Maker(x.stream)' = p  BY <4>1 DEF Maker, TaskOf, LeafRef, Parent
        <5>2. QED  BY <2>1, <3>1, <4>1, <5>1 DEF Scattering
      <4>3. OutEdges(x) \intersect u = {}  BY <4>1, <4>2 DEF Emission
      <4>4. QED  BY <1>1, <3>3, <4>3
    <3>4. QED  BY <1>1, <2>1, <3>2, <3>3
  <2>2. QED  BY <2>1 DEF LoopsVisit, Maker, TaskOf, LeafRef, Parent
<1>8. QED  BY <1>5, <1>6, <1>7 DEF PlaceInv
-----------------------------------------------------------------------------
(***************************************************************************)
(* The counting of open streams.                                           *)
(***************************************************************************)
\* The indices of n streams.
LEMMA Indices ==
  ASSUME NEW n \in Nat
  PROVE  IsFiniteSet(0 .. n - 1) /\ Cardinality(0 .. n - 1) = n
<1>1. PICK m \in Int : m = n - 1  OBVIOUS
<1>2. IsFiniteSet(0 .. m) /\ Cardinality(0 .. m) = IF 0 > m THEN 0 ELSE m - 0 + 1
  BY FS_Interval
<1>3. QED  BY <1>1, <1>2

\* The streams of a scatter that are not closed are finitely many.
LEMMA UnclosedFinite ==
  ASSUME NEW p, task_streams[p] \in Nat
  PROVE  /\ IsFiniteSet(Unclosed(p)) /\ Cardinality(Unclosed(p)) \in Nat
         /\ Cardinality(Unclosed(p)) <= task_streams[p]
<1> DEFINE n == task_streams[p]
<1>1. IsFiniteSet(0 .. n - 1) /\ Cardinality(0 .. n - 1) = n
  BY Indices
<1>2. Unclosed(p) \subseteq 0 .. n - 1  BY DEF Unclosed
<1>3. /\ IsFiniteSet(Unclosed(p)) /\ Cardinality(Unclosed(p)) <= Cardinality(0 .. n - 1)
  BY <1>1, <1>2, FS_Subset
<1>4. QED  BY <1>1, <1>3, FS_CardinalityType

\* A stream that is closed stays closed.
LEMMA UnclosedShrinks ==
  ASSUME ScopeInv, NEW t \in DOMAIN pending, Frame(t),
         t \in DOMAIN pending' /\ Finalizing(t) => Finalizing(t)',
         NEW p \in DOMAIN task_streams, p # t
  PROVE  Unclosed(p)' \subseteq Unclosed(p) /\ task_streams'[p] = task_streams[p]
<1>1. dsl' = dsl /\ task_streams'[p] = task_streams[p] /\ Scope(dsl') = Scope(dsl)
  BY DEF Frame
<1>2. ASSUME NEW v, v \notin completed_tasks', ~ Finalizing(v)'
      PROVE  v \notin completed_tasks /\ ~ Finalizing(v)
  <2>1. v \notin completed_tasks  BY <1>2 DEF Frame
  <2>2. ASSUME Finalizing(v)  PROVE FALSE
    <3>1. v \in DOMAIN pending  BY <2>2 DEF Finalizing
    <3>2. v \in DOMAIN pending'  BY <1>2, <3>1 DEF Frame
    <3>3. v # t  BY <1>2, <2>2, <3>2
    <3>4. pending'[v] = pending[v]  BY <3>2, <3>3 DEF Frame
    <3>5. QED  BY <1>2, <2>2, <3>2, <3>4 DEF Finalizing
  <2>3. QED  BY <2>1, <2>2
<1>3. ASSUME NEW i \in Unclosed(p)'  PROVE i \in Unclosed(p)
  <2>1. /\ i \in 0 .. task_streams[p] - 1
        /\ \A g \in dsl.refs :
             dsl.kind[g] = "gather" /\ Scope(dsl)[g] = {p.ref} =>
               /\ TaskOf(g, Child(p.stream, p.ref, i)) \notin completed_tasks'
               /\ ~ Finalizing(TaskOf(g, Child(p.stream, p.ref, i)))'
    BY <1>1, <1>3 DEF Unclosed, Child, TaskOf
  <2>2. QED  BY <1>2, <2>1 DEF Unclosed
<1>4. QED  BY <1>1, <1>3

\* Steps that close no stream.
LEMMA OpenStays ==
  ASSUME ScopeInv, NEW t \in DOMAIN pending, Frame(t), TypeOK',
         t \in DOMAIN pending' /\ Finalizing(t) => Finalizing(t)',
         \A p \in DOMAIN open_streams : open_streams'[p] = open_streams[p],
         t \in DOMAIN open_streams' => t \in DOMAIN task_streams' /\ open_streams'[t] = task_streams'[t]
  PROVE  OpenCounts'
<1>1. ASSUME NEW p \in DOMAIN open_streams'
      PROVE  Cardinality(Unclosed(p)') <= open_streams'[p] /\ open_streams'[p] <= task_streams'[p]
  <2>1. CASE p = t
    <3>1. task_streams'[t] \in Nat /\ open_streams'[t] = task_streams'[t]
      BY <1>1, <2>1 DEF TypeOK
    <3>2. Cardinality(Unclosed(t)') <= task_streams'[t]
      <4>1. /\ IsFiniteSet(0 .. task_streams'[t] - 1)
            /\ Cardinality(0 .. task_streams'[t] - 1) = task_streams'[t]
        BY <3>1, Indices
      <4>2. Unclosed(t)' \subseteq 0 .. task_streams'[t] - 1  BY DEF Unclosed
      <4>3. QED  BY <4>1, <4>2, FS_Subset
    <3>3. QED  BY <2>1, <3>1, <3>2
  <2>2. CASE p # t
    <3>1. p \in DOMAIN open_streams /\ p \in DOMAIN task_streams
      BY <1>1, <2>2, Parts DEF Frame, ScattersKnown
    <3>2. Unclosed(p)' \subseteq Unclosed(p) /\ task_streams'[p] = task_streams[p]
      BY <2>2, <3>1, UnclosedShrinks
    <3>3. task_streams[p] \in Nat /\ open_streams[p] \in Int
      BY <3>1, Parts DEF TypeOK
    <3>4. IsFiniteSet(Unclosed(p)) /\ Cardinality(Unclosed(p)) \in Nat
      BY <3>3, UnclosedFinite
    <3>5. /\ Cardinality(Unclosed(p)') <= Cardinality(Unclosed(p))
          /\ Cardinality(Unclosed(p)') \in Nat
      BY <3>2, <3>4, FS_Subset, FS_CardinalityType
    <3>6. Cardinality(Unclosed(p)) <= open_streams[p] /\ open_streams[p] <= task_streams[p]
      BY <3>1, Parts DEF OpenCounts
    <3>7. QED  BY <3>1, <3>2, <3>3, <3>4, <3>5, <3>6
  <2>3. QED  BY <2>1, <2>2
<1>2. QED  BY <1>1 DEF OpenCounts

\* A gather that closes its stream is the one its stream waits for.
LEMMA CloseUnclosed ==
  ASSUME Scoped, ScopeInv, NEW t \in DOMAIN pending, CloseStep(t)
  PROVE  /\ ParentScatter(t) \in DOMAIN task_streams /\ ParentScatter(t) # t
         /\ LeafIndex(t.stream) \in Unclosed(ParentScatter(t))
         /\ t.ref \in dsl.refs /\ Scope(dsl)[t.ref] = {ParentScatter(t).ref}
         /\ t = TaskOf(t.ref, Child(ParentScatter(t).stream, ParentScatter(t).ref, LeafIndex(t.stream)))
         /\ open_streams[ParentScatter(t)] >= 1
         /\ Cardinality(Unclosed(ParentScatter(t))) <= open_streams[ParentScatter(t)]
<1> DEFINE p == ParentScatter(t)
           i == LeafIndex(t.stream)
<1>1. /\ t \in Task /\ t \in Started /\ t.ref \in dsl.refs /\ t.stream \in StreamId
      /\ t \notin completed_tasks
  BY Parts DEF TypeOK, Started, Task, Counted, RunsOnce
<1>2. /\ dsl.kind[t.ref] = "gather" /\ t.stream # ROOT_STREAM /\ ~ IsSkipStream(t.stream)
      /\ ~ Finalizing(t) /\ p \in DOMAIN open_streams
  BY DEF CloseStep, Closing
<1>3. p.ref = LeafRef(t.stream) /\ p.stream = Parent(t.stream) /\ p = Maker(t.stream)
  BY DEF ParentScatter, TaskOf, Maker
<1>4. StreamMade(t.stream)  BY <1>1, <1>2, Parts, ReachedStream
<1>5. p \in DOMAIN task_streams /\ i \in 0 .. task_streams[p] - 1
  BY <1>2, <1>3, <1>4 DEF StreamMade, IsSkipStream
<1>6. Scope(dsl)[t.ref] = {p.ref}  BY <1>1, <1>2, <1>3, Parts, GatherBelow
<1>7. t.stream = Child(p.stream, p.ref, i)  BY <1>1, <1>2, <1>3, StreamParts
<1>8. t = TaskOf(t.ref, Child(p.stream, p.ref, i))  BY <1>1, <1>7 DEF Task, TaskOf
<1>9. i \in Unclosed(p)
  <2>1. ASSUME NEW g \in dsl.refs, dsl.kind[g] = "gather", Scope(dsl)[g] = {p.ref}
        PROVE  g = t.ref
    BY <1>1, <1>2, <1>6, <2>1, Parts, ScopeLaws DEF ScopedBy
  <2>2. QED  BY <1>1, <1>2, <1>5, <1>8, <2>1 DEF Unclosed
<1>10. p # t  BY <1>1, <1>2, Parts DEF ScattersKnown
<1>11. task_streams[p] \in Nat /\ open_streams[p] \in Int  BY <1>2, <1>5, Parts DEF TypeOK
<1>12. Cardinality(Unclosed(p)) <= open_streams[p]  BY <1>2, Parts DEF OpenCounts
<1>13. IsFiniteSet(Unclosed(p)) /\ Cardinality(Unclosed(p)) \in Nat  BY <1>11, UnclosedFinite
<1>14. Cardinality(Unclosed(p)) # 0  BY <1>9, <1>13, FS_EmptySet
<1>15. open_streams[p] >= 1  BY <1>11, <1>12, <1>13, <1>14
<1>16. QED  BY <1>1, <1>5, <1>6, <1>8, <1>9, <1>10, <1>12, <1>15
\* Closing a stream counts it down once.
LEMMA CloseOpen ==
  ASSUME Scoped, ScopeInv, NEW t \in DOMAIN pending, CloseStep(t), Frame(t),
         t \in completed_tasks' \/ Finalizing(t)'
  PROVE  OpenCounts'
<1> DEFINE p == ParentScatter(t)
           i == LeafIndex(t.stream)
<1>1. /\ p \in DOMAIN task_streams /\ p # t /\ i \in Unclosed(p)
      /\ t.ref \in dsl.refs /\ Scope(dsl)[t.ref] = {p.ref}
      /\ t = TaskOf(t.ref, Child(p.stream, p.ref, i))
      /\ open_streams[p] >= 1 /\ Cardinality(Unclosed(p)) <= open_streams[p]
  BY CloseUnclosed
<1>2. /\ p \in DOMAIN open_streams /\ dsl.kind[t.ref] = "gather" /\ ~ Finalizing(t)
      /\ open_streams' = [open_streams EXCEPT ![p] = @ - 1]
      /\ task_streams' = task_streams /\ dsl' = dsl
  BY DEF CloseStep, CloseStream, Closing
<1>3. ASSUME NEW q \in DOMAIN open_streams
      PROVE  /\ q # t /\ q \in DOMAIN task_streams
             /\ Unclosed(q)' \subseteq Unclosed(q)
             /\ task_streams[q] \in Nat /\ open_streams[q] \in Int
             /\ IsFiniteSet(Unclosed(q)) /\ Cardinality(Unclosed(q)) \in Nat
             /\ Cardinality(Unclosed(q)) <= open_streams[q] /\ open_streams[q] <= task_streams[q]
  <2>1. q # t /\ q \in DOMAIN task_streams  BY Parts DEF ScattersKnown, Counted, RunsOnce
  <2>2. Unclosed(q)' \subseteq Unclosed(q)  BY <1>2, <2>1, UnclosedShrinks
  <2>3. task_streams[q] \in Nat /\ open_streams[q] \in Int  BY <2>1, Parts DEF TypeOK
  <2>4. IsFiniteSet(Unclosed(q)) /\ Cardinality(Unclosed(q)) \in Nat  BY <2>3, UnclosedFinite
  <2>5. Cardinality(Unclosed(q)) <= open_streams[q] /\ open_streams[q] <= task_streams[q]
    BY Parts DEF OpenCounts
  <2>6. QED  BY <2>1, <2>2, <2>3, <2>4, <2>5
<1>4. i \notin Unclosed(p)'
  <2>1. t \in completed_tasks' \/ Finalizing(t)'  OBVIOUS
  <2>2. ASSUME NEW j \in Unclosed(p)', j = i  PROVE FALSE
    <3>1. \A g \in dsl.refs :
             dsl.kind[g] = "gather" /\ Scope(dsl)[g] = {p.ref} =>
               /\ TaskOf(g, Child(p.stream, p.ref, j)) \notin completed_tasks'
               /\ ~ Finalizing(TaskOf(g, Child(p.stream, p.ref, j)))'
      BY <1>2, <2>2 DEF Unclosed, Child, TaskOf, ParentScatter, LeafRef, Parent
    <3>2. t \notin completed_tasks' /\ ~ Finalizing(t)'
      BY <1>1, <1>2, <2>2, <3>1
    <3>3. QED  BY <2>1, <3>2
  <2>3. QED  BY <2>2
<1>5. ASSUME NEW q \in DOMAIN open_streams'
      PROVE  Cardinality(Unclosed(q)') <= open_streams'[q] /\ open_streams'[q] <= task_streams'[q]
  <2>1. q \in DOMAIN open_streams  BY <1>2, <1>5
  <2>2. CASE q = p
    <3>1. Unclosed(p)' \subseteq Unclosed(p) \ {i}  BY <1>2, <1>3, <1>4
    <3>2. /\ IsFiniteSet(Unclosed(p) \ {i})
          /\ Cardinality(Unclosed(p) \ {i}) = Cardinality(Unclosed(p)) - 1
      BY <1>1, <1>2, <1>3, FS_RemoveElement
    <3>3. /\ Cardinality(Unclosed(p)') <= Cardinality(Unclosed(p) \ {i})
          /\ Cardinality(Unclosed(p)') \in Nat
      BY <3>1, <3>2, FS_Subset, FS_CardinalityType
    <3>4. open_streams'[p] = open_streams[p] - 1  BY <1>2
    <3>5. /\ Cardinality(Unclosed(p)) \in Nat /\ open_streams[p] \in Int /\ task_streams[p] \in Nat
          /\ Cardinality(Unclosed(p)) <= open_streams[p] /\ open_streams[p] <= task_streams[p]
      BY <1>2, <1>3
    <3>6. Cardinality(Unclosed(p)') <= open_streams'[p] /\ open_streams'[p] <= task_streams'[p]
      <4> HIDE DEF p, i
      <4>1. QED  BY <1>2, <3>2, <3>3, <3>4, <3>5
    <3>7. QED  BY <2>2, <3>6
  <2>3. CASE q # p
    <3>1. open_streams'[q] = open_streams[q]  BY <1>2, <2>1, <2>3
    <3>2. /\ Cardinality(Unclosed(q)') <= Cardinality(Unclosed(q))
          /\ Cardinality(Unclosed(q)') \in Nat
      BY <1>3, <2>1, FS_Subset, FS_CardinalityType
    <3>3. QED  BY <1>2, <1>3, <2>1, <3>1, <3>2
  <2>4. QED  BY <2>2, <2>3
<1>6. QED  BY <1>5 DEF OpenCounts

-----------------------------------------------------------------------------
(***************************************************************************)
(* The steps that decide no edge.                                          *)
(***************************************************************************)
Quiet(t) ==
  /\ Frame(t) /\ UNCHANGED graph
  /\ t \in DOMAIN pending' => pending'[t].at # "scattering"

\* They keep the accounting, the tree of streams and the places of the tasks.
LEMMA QuietKeeps ==
  ASSUME Scoped, ScopeInv, NEW t \in DOMAIN pending, Quiet(t)
  PROVE  Counted' /\ StreamsMade' /\ RanksGrow' /\ EntriesAtRoot' /\ PlaceInv'
<1>1. /\ Frame(t) /\ dsl' = dsl /\ queue' = queue /\ indegrees' = indegrees /\ edges' = edges
      /\ DOMAIN pending' \subseteq DOMAIN pending
      /\ completed_tasks' = completed_tasks \union (DOMAIN pending \ DOMAIN pending')
  BY DEF Quiet, Frame, graph
<1>2. Started' \subseteq Started /\ (Calm' => Calm)
  BY <1>1 DEF Started, Calm, Frame
<1>3. Alive' \subseteq Alive  BY <1>1, <1>2 DEF Alive
<1>4. Counted'  BY <1>1, MoveCounted, Parts
<1>5. StreamsMade'
  <2>1. ASSUME NEW e \in DOMAIN edges'  PROVE StreamMade(e.stream)'
    <3>1. StreamMade(e.stream)  BY <1>1, <2>1, Parts DEF StreamsMade
    <3>2. QED  BY <1>1, <3>1, MadeStays
  <2>2. QED  BY <2>1 DEF StreamsMade
<1>6. RanksGrow'  BY <1>1, Parts DEF RanksGrow
<1>7. EntriesAtRoot'  BY <1>1, <1>2, Parts DEF EntriesAtRoot
<1>8. Placed'
  <2>1. ASSUME NEW z \in Alive'  PROVE PlacedAt(z)'
    <3>1. PlacedAt(z) /\ z \in Started \union queue  BY <1>3, <2>1, Parts DEF Placed, Alive
    <3>2. QED  BY <1>1, <3>1, PlacedStays
  <2>2. QED  BY <2>1 DEF Placed
<1>9. SkipsSkip'
  <2>1. \A z \in Alive' : IsSkipStream(z.stream) => \A e \in InEdges(z)' : Marker(e)' = "SKIPPED"
    BY <1>1, <1>3, SameEdges, Parts DEF SkipsSkip, Marker
  <2>2. Calm' => \A e \in DOMAIN edges' : IsSkipStream(e.stream) => edges'[e] = "SKIPPED"
    BY <1>1, <1>2, Parts DEF SkipsSkip
  <2>3. \A s : IsSkipStream(s)' = IsSkipStream(s)  BY DEF IsSkipStream, LeafIndex
  <2>4. QED  BY <2>1, <2>2, <2>3 DEF SkipsSkip
<1>10. LoopsVisit'
  <2>1. ASSUME NEW p \in DOMAIN pending', Scattering(p)'  PROVE p \in DOMAIN pending /\ Scattering(p)
    <3>1. p # t /\ p \in DOMAIN pending  BY <1>1, <2>1 DEF Quiet, Scattering
    <3>2. pending'[p] = pending[p]  BY <1>1, <2>1, <3>1 DEF Frame
    <3>3. QED  BY <2>1, <3>1, <3>2 DEF Scattering
  <2>2. \A s : Maker(s)' = Maker(s)  BY DEF Maker, TaskOf, LeafRef, Parent
  <2>3. QED  BY <1>1, <2>1, <2>2, Parts DEF LoopsVisit
<1>11. QED  BY <1>4, <1>5, <1>6, <1>7, <1>8, <1>9, <1>10 DEF PlaceInv
\* A gather that is about to go on in the parent stream, and no other does.
ClosesAlone(t) ==
  /\ Undecided(ParentGather(t))
  /\ ParentScatter(t) \in DOMAIN open_streams'
  /\ open_streams'[ParentScatter(t)] = 0
  /\ \A z \in DOMAIN pending : Closing(z) /\ ParentScatter(z) = ParentScatter(t) => z = t

\* They keep who has decided what.
LEMMA QuietSpent ==
  ASSUME Scoped, ScopeInv, NEW t \in DOMAIN pending, Quiet(t),
         \A p \in DOMAIN open_streams : open_streams[p] = 0 => open_streams'[p] = 0,
         t \in DOMAIN pending' /\ Closing(t)' => Closing(t) \/ ClosesAlone(t)
  PROVE  SpentInv'
<1>1. /\ Frame(t) /\ dsl' = dsl /\ queue' = queue /\ edges' = edges
      /\ DOMAIN pending' \subseteq DOMAIN pending
      /\ completed_tasks \subseteq completed_tasks'
      /\ DOMAIN open_streams \subseteq DOMAIN open_streams'
      /\ (Calm' => Calm)
  BY DEF Quiet, Frame, graph, Calm
<1>2. \A z : Undecided(z) => Undecided(z)'
  BY <1>1, SameEdges DEF Undecided
<1>3. SourcesSpent'
  <2>1. ASSUME NEW z, GatherSpent(z)  PROVE GatherSpent(z)'
    <3>1. PICK v \in completed_tasks :
            /\ dsl.kind[v.ref] = "gather" /\ v.stream # ROOT_STREAM /\ ParentGather(v) = z
            /\ ParentScatter(v) \in DOMAIN open_streams
            /\ open_streams[ParentScatter(v)] = 0
      BY <2>1 DEF GatherSpent
    <3>2. v \in completed_tasks' /\ ParentScatter(v) \in DOMAIN open_streams'
          /\ open_streams'[ParentScatter(v)] = 0
      BY <1>1, <3>1
    <3>3. QED  BY <1>1, <3>1, <3>2 DEF GatherSpent
  <2>2. ASSUME NEW e \in DOMAIN edges'
        PROVE  \/ TaskOf(e.src, e.stream) \in completed_tasks'
               \/ e.stream # ROOT_STREAM /\ LeafRef(e.stream) = e.src
               \/ GatherSpent(TaskOf(e.src, e.stream))'
    <3>1. \/ TaskOf(e.src, e.stream) \in completed_tasks
          \/ e.stream # ROOT_STREAM /\ LeafRef(e.stream) = e.src
          \/ GatherSpent(TaskOf(e.src, e.stream))
      BY <1>1, <2>2, Parts DEF SourcesSpent
    <3>2. QED  BY <1>1, <2>1, <3>1
  <2>3. QED  BY <2>2 DEF SourcesSpent
<1>4. OwnUndecided'
  BY <1>1, <1>2, Parts DEF OwnUndecided
<1>5. ClosersUnique'
  <2>1. ASSUME NEW z \in DOMAIN pending', Closing(z)', z # t
        PROVE  z \in DOMAIN pending /\ Closing(z)
    <3>1. pending'[z] = pending[z] /\ z \in DOMAIN pending  BY <1>1, <2>1 DEF Frame
    <3>2. QED  BY <2>1, <3>1 DEF Closing, Finalizing
  <2>2. ASSUME NEW z \in DOMAIN pending, Closing(z)
        PROVE  /\ Undecided(ParentGather(z))
               /\ ParentScatter(z) \in DOMAIN open_streams'
               /\ open_streams'[ParentScatter(z)] = 0
    <3>1. /\ Undecided(ParentGather(z)) /\ ParentScatter(z) \in DOMAIN open_streams
          /\ open_streams[ParentScatter(z)] = 0
      BY <2>2, ClosingParts
    <3>2. QED  BY <1>1, <3>1
  <2>3. ASSUME NEW z \in DOMAIN pending', Closing(z)'
        PROVE  /\ Undecided(ParentGather(z))'
               /\ ParentScatter(z) \in DOMAIN open_streams'
               /\ open_streams'[ParentScatter(z)] = 0
    <3>1. /\ Undecided(ParentGather(z))
          /\ ParentScatter(z) \in DOMAIN open_streams'
          /\ open_streams'[ParentScatter(z)] = 0
      BY <2>1, <2>2, <2>3 DEF ClosesAlone
    <3>2. QED  BY <1>2, <3>1
  <2>4. ASSUME NEW z \in DOMAIN pending', NEW v \in DOMAIN pending', Closing(z)', Closing(v)',
               ParentScatter(z) = ParentScatter(v)
        PROVE  z = v
    <3>1. CASE z # t /\ v # t  BY <2>1, <2>4, <3>1, Parts DEF ClosersUnique
    <3>2. CASE z = t /\ v # t
      <4>1. v \in DOMAIN pending /\ Closing(v)  BY <2>1, <2>4, <3>2
      <4>2. QED  BY <2>4, <3>2, <4>1, Parts DEF ClosersUnique, ClosesAlone
    <3>3. CASE z # t /\ v = t
      <4>1. z \in DOMAIN pending /\ Closing(z)  BY <2>1, <2>4, <3>3
      <4>2. QED  BY <2>4, <3>3, <4>1, Parts DEF ClosersUnique, ClosesAlone
    <3>4. QED  BY <3>1, <3>2, <3>3
  <2>5. QED  BY <2>3, <2>4 DEF ClosersUnique, ParentScatter, TaskOf, LeafRef, Parent
<1>6. QED  BY <1>3, <1>4, <1>5 DEF SpentInv

\* The counterpart of a gather in the parent stream has decided nothing before
\* the last stream is closed.
LEMMA CloserUndecided ==
  ASSUME Scoped, ScopeInv, NEW t \in DOMAIN pending, dsl.kind[t.ref] = "gather",
         t.stream # ROOT_STREAM, ParentScatter(t) \in DOMAIN open_streams,
         \A v \in completed_tasks :
           v.stream # ROOT_STREAM /\ v.ref = t.ref /\ ParentScatter(v) = ParentScatter(t) =>
             open_streams[ParentScatter(t)] # 0
  PROVE  Undecided(ParentGather(t))
<1> DEFINE x == ParentGather(t)
<1> SUFFICES ASSUME NEW e \in OutEdges(x), e \in DOMAIN edges PROVE FALSE
  BY DEF Undecided
<1>1. t \in Task /\ t \in Started  BY Parts DEF TypeOK, Started
<1>2. x \in Task /\ x.ref = t.ref /\ x.stream = Parent(t.stream)
  BY <1>1, ParentGatherTask DEF ParentGather, TaskOf
<1>3. e.src = x.ref /\ e.stream = x.stream /\ TaskOf(e.src, e.stream) = x
  BY <1>2, OneSource
<1>4. Scope(dsl)[t.ref] = {LeafRef(t.stream)} /\ ~ PlacedAt(x)
  BY <1>1, Parts, GatherBelow
<1>5. CASE x \in completed_tasks
  BY <1>4, <1>5, Parts DEF Placed, Alive, Started
<1>6. CASE x.stream # ROOT_STREAM /\ LeafRef(x.stream) = x.ref
  <2>1. StreamMade(x.stream)  BY <1>3, Parts DEF StreamsMade
  <2>2. QED  BY <1>2, <1>6, <2>1 DEF StreamMade
<1>7. CASE GatherSpent(x)
  <2>1. PICK v \in completed_tasks :
          /\ v.stream # ROOT_STREAM /\ ParentGather(v) = x
          /\ ParentScatter(v) \in DOMAIN open_streams
          /\ open_streams[ParentScatter(v)] = 0
    BY <1>7 DEF GatherSpent
  <2>2. v.ref = t.ref /\ Parent(v.stream) = Parent(t.stream)
    BY <1>2, <2>1 DEF ParentGather, TaskOf
  <2>3. Scope(dsl)[v.ref] = {LeafRef(v.stream)}
    BY <2>1, Parts, GatherBelow DEF Started
  <2>4. LeafRef(v.stream) = LeafRef(t.stream)  BY <1>4, <2>2, <2>3
  <2>5. ParentScatter(v) = ParentScatter(t)  BY <2>2, <2>4 DEF ParentScatter
  <2>6. QED  BY <2>1, <2>2, <2>5
<1>8. QED  BY <1>3, <1>5, <1>6, <1>7, Parts DEF SourcesSpent
-----------------------------------------------------------------------------
(***************************************************************************)
(* The tables of scatters and the suspension points.                       *)
(***************************************************************************)
\* What the step has to establish for the task that makes it.
LEMMA KnownStays ==
  ASSUME ScopeInv, NEW t \in DOMAIN pending, Frame(t),
         t \in DOMAIN open_streams' => t \in DOMAIN task_streams' /\ t \in completed_tasks',
         t \in DOMAIN task_streams' =>
           /\ dsl.kind[t.ref] = "scatter" /\ ~ IsSkipStream(t.stream)
           /\ t \in DOMAIN pending' => pending'[t].at = "scattering"
           /\ t \notin DOMAIN pending' /\ loop' # "stopping" => t \in DOMAIN open_streams'
  PROVE  ScattersKnown'
<1>1. Started' = Started /\ dsl' = dsl /\ t \notin completed_tasks
  BY Parts DEF Frame, Started, Counted, RunsOnce
<1>2. DOMAIN open_streams' \subseteq DOMAIN task_streams' \intersect completed_tasks'
  BY Parts DEF Frame, ScattersKnown
<1>3. loop' \in {"ready", "waiting"} => loop \in {"ready", "waiting"}
  BY DEF Frame
<1>4. ASSUME NEW p \in DOMAIN task_streams'
      PROVE  /\ p \in Started' /\ dsl.kind[p.ref] = "scatter" /\ ~ IsSkipStream(p.stream)
             /\ p \in DOMAIN pending' => pending'[p].at = "scattering"
             /\ loop' \in {"ready", "waiting"} /\ p \in completed_tasks' => p \in DOMAIN open_streams'
  <2>1. CASE p = t
    <3>1. t \in DOMAIN pending' => t \notin completed_tasks'  BY <1>1 DEF Frame
    <3>2. t \in Started  BY DEF Started
    <3>3. loop' \in {"ready", "waiting"} => loop' # "stopping"  OBVIOUS
    <3>4. QED  BY <1>1, <1>4, <2>1, <3>1, <3>2, <3>3
  <2>2. CASE p # t
    <3>1. p \in DOMAIN task_streams  BY <1>4, <2>2 DEF Frame
    <3>2. /\ p \in Started /\ dsl.kind[p.ref] = "scatter" /\ ~ IsSkipStream(p.stream)
          /\ p \in DOMAIN pending => pending[p].at = "scattering"
          /\ loop \in {"ready", "waiting"} /\ p \in completed_tasks => p \in DOMAIN open_streams
      BY <3>1, Parts DEF ScattersKnown
    <3>3. p \in DOMAIN pending' => p \in DOMAIN pending /\ pending'[p] = pending[p]
      BY <2>2 DEF Frame
    <3>4. p \in completed_tasks' => p \in completed_tasks  BY <2>2 DEF Frame
    <3>5. QED  BY <1>1, <1>3, <3>2, <3>3, <3>4 DEF Frame
  <2>3. QED  BY <2>1, <2>2
<1>5. \A s : IsSkipStream(s)' = IsSkipStream(s)  BY DEF IsSkipStream, LeafIndex
<1>6. QED  BY <1>1, <1>2, <1>4, <1>5 DEF ScattersKnown

LEMMA PhasesStay ==
  ASSUME ScopeInv, NEW t \in DOMAIN pending, Frame(t), t \in DOMAIN pending' => PhaseFit(t)'
  PROVE  PhasesFit'
<1>1. ASSUME NEW z \in DOMAIN pending'  PROVE PhaseFit(z)'
  <2>1. CASE z # t
    <3>1. pending'[z] = pending[z] /\ z \in DOMAIN pending /\ dsl' = dsl
      BY <1>1, <2>1 DEF Frame
    <3>2. PhaseFit(z)  BY <3>1, Parts DEF PhasesFit
    <3>3. \A s : IsSkipStream(s)' = IsSkipStream(s)  BY DEF IsSkipStream, LeafIndex
    <3>4. QED  BY <1>1, <3>1, <3>2, <3>3 DEF PhaseFit, Closing, Finalizing
  <2>2. QED  BY <1>1, <2>1
<1>2. Calm' => loop' # "stopping"  BY Parts DEF PhasesFit, Frame, Calm
<1>3. loop' # "returned"  BY Parts DEF PhasesFit, Frame
<1>4. QED  BY <1>1, <1>2, <1>3 DEF PhasesFit
-----------------------------------------------------------------------------
(***************************************************************************)
(* Every kind of step keeps the invariant.                                 *)
(***************************************************************************)
\* A running task has no entry in open_streams, and one in task_streams only
\* while it scatters.
LEMMA RunningEntries ==
  ASSUME ScopeInv, NEW t \in DOMAIN pending
  PROVE  /\ t \notin DOMAIN open_streams
         /\ t \in DOMAIN task_streams => Scattering(t)
         /\ t \in Task /\ t \in Started
BY Parts DEF ScattersKnown, Counted, RunsOnce, Scattering, TypeOK, Started

LEMMA OwnInv ==
  ASSUME Scoped, ScopeInv, TypeOK', NEW t \in DOMAIN pending, NEW u, OwnStep(t, u)
  PROVE  ScopeInv'
<1>1. /\ Emission(t, t, u) /\ t \notin DOMAIN pending' /\ t \in completed_tasks'
      /\ task_streams' = task_streams /\ open_streams' = open_streams /\ Frame(t)
  BY OwnEmission DEF Emission
<1>2. Counted' /\ StreamsMade' /\ RanksGrow' /\ EntriesAtRoot' /\ PlaceInv'
  BY <1>1, EmissionCounted, EmissionTree, EmissionPlace
<1>3. SpentInv'  BY <1>1, EmissionSpent
<1>4. t \notin DOMAIN open_streams /\ t \notin DOMAIN task_streams
  BY RunningEntries DEF OwnStep
<1>5. ScattersKnown'  BY <1>1, <1>4, KnownStays
<1>6. PhasesFit'  BY <1>1, PhasesStay
<1>7. OpenCounts'  BY <1>1, <1>4, OpenStays
<1>8. QED  BY <1>2, <1>3, <1>5, <1>6, <1>7 DEF ScopeInv, TreeInv

LEMMA SkipInv ==
  ASSUME Scoped, ScopeInv, TypeOK', NEW t \in DOMAIN pending, SkipStep(t) \/ EmptyStep(t)
  PROVE  ScopeInv'
<1> DEFINE x == Below(t, SKIP)
           u == OutEdges(x)
<1>1. /\ Emission(t, x, u) /\ t \notin DOMAIN pending' /\ t \in completed_tasks' /\ Frame(t)
  BY SkipEmission DEF Emission
<1>2. Counted' /\ StreamsMade' /\ RanksGrow' /\ EntriesAtRoot' /\ PlaceInv'
  <2> HIDE DEF x, u
  <2>1. QED  BY <1>1, EmissionCounted, EmissionTree, EmissionPlace
<1>3. SpentInv'
  <2>1. SKIP \in Int /\ t \in Task  BY RunningEntries DEF SKIP
  <2>2. x.stream # ROOT_STREAM /\ LeafRef(x.stream) = x.ref  BY <2>1, BelowParts
  <2> HIDE DEF x, u
  <2>3. QED  BY <1>1, <2>2, EmissionSpent
<1>4. t \notin DOMAIN open_streams /\ t \notin DOMAIN task_streams
  BY RunningEntries DEF SkipStep, EmptyStep
<1>5. /\ t \in DOMAIN open_streams' => t \in DOMAIN task_streams' /\ open_streams'[t] = task_streams'[t]
      /\ t \in DOMAIN task_streams' =>
           /\ dsl.kind[t.ref] = "scatter" /\ ~ IsSkipStream(t.stream)
           /\ t \in DOMAIN open_streams'
      /\ \A p \in DOMAIN open_streams : open_streams'[p] = open_streams[p]
  <2>1. CASE SkipStep(t)  BY <1>4, <2>1 DEF SkipStep, scopes
  <2>2. CASE EmptyStep(t)  BY <1>4, <2>2 DEF EmptyStep, SetOpenStreams
  <2>3. QED  BY <2>1, <2>2
<1>6. ScattersKnown'  BY <1>1, <1>5, KnownStays
<1>7. PhasesFit'  BY <1>1, PhasesStay
<1>8. OpenCounts'  BY <1>1, <1>5, OpenStays
<1>9. QED  BY <1>2, <1>3, <1>6, <1>7, <1>8 DEF ScopeInv, TreeInv

LEMMA MakeInv ==
  ASSUME Scoped, ScopeInv, TypeOK', NEW t \in DOMAIN pending, NEW i \in Nat, MakeStep(t, i)
  PROVE  ScopeInv'
<1> DEFINE x == Below(t, i)
<1>1. /\ Emission(t, x, {}) /\ Frame(t) /\ open_streams' = open_streams
      /\ t \in DOMAIN task_streams' /\ pending'[t].at = "scattering"
      /\ DOMAIN pending' = DOMAIN pending
  BY MakeEmission DEF Emission
<1>2. Counted' /\ StreamsMade' /\ RanksGrow' /\ EntriesAtRoot' /\ PlaceInv'
  <2> HIDE DEF x
  <2>1. QED  BY <1>1, EmissionCounted, EmissionTree, EmissionPlace
<1>3. SpentInv'
  <2>1. i \in Int /\ t \in Task  BY RunningEntries
  <2>2. x.stream # ROOT_STREAM /\ LeafRef(x.stream) = x.ref  BY <2>1, BelowParts
  <2> HIDE DEF x
  <2>3. QED  BY <1>1, <2>2, EmissionSpent
<1>4. /\ t \notin DOMAIN open_streams /\ dsl.kind[t.ref] = "scatter" /\ ~ IsSkipStream(t.stream)
      /\ dsl' = dsl
  BY <1>1, RunningEntries DEF MakeStep, Frame
<1>5. ScattersKnown'  BY <1>1, <1>4, KnownStays
<1>6. PhasesFit'
  <2>1. PhaseFit(t)'
    <3>1. ~ IsSkipStream(t.stream)'  BY <1>4 DEF IsSkipStream, LeafIndex
    <3>2. QED  BY <1>1, <1>4, <3>1 DEF PhaseFit, Closing, Finalizing
  <2>2. QED  BY <1>1, <2>1, PhasesStay
<1>7. OpenCounts'
  <2>1. ~ Finalizing(t)
    <3>1. dsl.kind[t.ref] # "gather"  BY <1>4
    <3>2. QED  BY <3>1, Parts DEF PhasesFit, PhaseFit, Closing
  <2>2. QED  BY <1>1, <1>4, <2>1, OpenStays
<1>8. QED  BY <1>2, <1>3, <1>5, <1>6, <1>7 DEF ScopeInv, TreeInv

LEMMA UpInv ==
  ASSUME Scoped, ScopeInv, TypeOK', NEW t \in DOMAIN pending, UpStep(t)
  PROVE  ScopeInv'
<1> DEFINE x == ParentGather(t)
<1>1. /\ Emission(t, x, {}) /\ Frame(t) /\ t \notin DOMAIN pending' /\ t \in completed_tasks'
      /\ task_streams' = task_streams /\ open_streams' = open_streams /\ dsl' = dsl
  BY UpEmission DEF Emission, Frame
<1>2. Counted' /\ StreamsMade' /\ RanksGrow' /\ EntriesAtRoot' /\ PlaceInv'
  <2> HIDE DEF x
  <2>1. QED  BY <1>1, EmissionCounted, EmissionTree, EmissionPlace
<1>3. SpentInv'
  <2>1. /\ t.stream # ROOT_STREAM /\ dsl.kind[t.ref] = "gather"
        /\ ParentScatter(t) \in DOMAIN open_streams /\ open_streams[ParentScatter(t)] = 0
    BY ClosingParts DEF UpStep
  <2>2. PICK y : y = x  OBVIOUS
  <2>3. GatherSpent(y)'
    <3>1. \A v : ParentScatter(v)' = ParentScatter(v) /\ ParentGather(v)' = ParentGather(v)
      BY DEF ParentScatter, ParentGather, TaskOf, LeafRef, Parent
    <3>2. QED  BY <1>1, <2>1, <2>2, <3>1 DEF GatherSpent
  <2>4. Emission(t, y, {})  BY <1>1, <2>2
  <2>5. QED  BY <2>3, <2>4, EmissionSpent
<1>4. t \notin DOMAIN open_streams /\ t \notin DOMAIN task_streams
  BY RunningEntries DEF UpStep, Closing, Finalizing, Scattering
<1>5. ScattersKnown'  BY <1>1, <1>4, KnownStays
<1>6. PhasesFit'  BY <1>1, PhasesStay
<1>7. OpenCounts'  BY <1>1, <1>4, OpenStays
<1>8. QED  BY <1>2, <1>3, <1>5, <1>6, <1>7 DEF ScopeInv, TreeInv
\* The gather in the skip stream of a scatter without items is the only one.
LEMMA EmptyCloser ==
  ASSUME Scoped, ScopeInv, NEW t \in DOMAIN pending, dsl.kind[t.ref] = "gather",
         IsSkipStream(t.stream), ParentScatter(t) \in DOMAIN open_streams
  PROVE  /\ open_streams[ParentScatter(t)] = 0
         /\ Undecided(ParentGather(t))
         /\ \A z \in DOMAIN pending : Closing(z) /\ ParentScatter(z) = ParentScatter(t) => z = t
<1> DEFINE p == ParentScatter(t)
<1>1. t \in Task /\ t \in Started /\ t.stream # ROOT_STREAM /\ t.ref \in dsl.refs
  BY RunningEntries DEF IsSkipStream, Task
<1>2. p.ref = LeafRef(t.stream) /\ p.stream = Parent(t.stream) /\ p = Maker(t.stream)
  BY DEF ParentScatter, TaskOf, Maker
<1>3. p \in DOMAIN task_streams  BY Parts DEF ScattersKnown
<1>4. task_streams[p] = 0
  <2>1. StreamMade(t.stream)  BY <1>1, Parts, ReachedStream
  <2>2. QED  BY <1>2, <1>3, <2>1 DEF StreamMade, IsSkipStream
<1>5. open_streams[p] = 0
  <2>1. Cardinality(Unclosed(p)) \in Nat  BY <1>4, UnclosedFinite
  <2>2. open_streams[p] \in Int  BY Parts DEF TypeOK
  <2>3. Cardinality(Unclosed(p)) <= open_streams[p] /\ open_streams[p] <= task_streams[p]
    BY Parts DEF OpenCounts
  <2>4. QED  BY <1>4, <2>1, <2>2, <2>3
<1>6. ASSUME NEW v \in Started, v.stream # ROOT_STREAM, ParentScatter(v) = p, v.ref = t.ref
      PROVE  v = t
  <2>1. v \in Task /\ v.stream \in StreamId /\ t.stream \in StreamId
    BY <1>1, <1>6, Parts DEF TypeOK, Started, Task
  <2>2. StreamMade(v.stream)  BY <1>6, Parts, ReachedStream
  <2>3. LeafRef(v.stream) = LeafRef(t.stream) /\ Parent(v.stream) = Parent(t.stream) /\ Maker(v.stream) = p
    BY <1>6 DEF ParentScatter, TaskOf, Maker
  <2>4. LeafIndex(v.stream) = SKIP  BY <1>4, <1>6, <2>2, <2>3 DEF StreamMade
  <2>5. LeafIndex(t.stream) = SKIP  BY DEF IsSkipStream
  <2>6. v.stream = t.stream  BY <1>1, <1>6, <2>1, <2>3, <2>4, <2>5, StreamParts
  <2>7. QED  BY <1>1, <1>6, <2>1, <2>6 DEF Task
<1>7. Undecided(ParentGather(t))
  <2>1. ASSUME NEW v \in completed_tasks, v.stream # ROOT_STREAM, v.ref = t.ref, ParentScatter(v) = p
        PROVE  FALSE
    <3>1. v = t  BY <1>6, <2>1 DEF Started
    <3>2. QED  BY <2>1, <3>1, Parts DEF Counted, RunsOnce
  <2>2. QED  BY <1>1, <2>1, CloserUndecided
<1>8. ASSUME NEW z \in DOMAIN pending, Closing(z), ParentScatter(z) = p  PROVE z = t
  <2>1. /\ z \in Started /\ z.stream # ROOT_STREAM /\ dsl.kind[z.ref] = "gather"
        /\ Scope(dsl)[z.ref] = {LeafRef(z.stream)}
    BY <1>8, ClosingParts
  <2>2. Scope(dsl)[t.ref] = {LeafRef(t.stream)}  BY <1>1, Parts, GatherBelow
  <2>3. LeafRef(z.stream) = LeafRef(t.stream)  BY <1>8 DEF ParentScatter, TaskOf
  <2>4. z.ref \in dsl.refs  BY <1>8, Parts DEF TypeOK, Task
  <2>5. z.ref = t.ref
    BY <1>1, <2>1, <2>2, <2>3, <2>4, Parts, ScopeLaws DEF ScopedBy
  <2>6. QED  BY <1>6, <1>8, <2>1, <2>5
<1>9. QED  BY <1>5, <1>7, <1>8

LEMMA MoveInv ==
  ASSUME Scoped, ScopeInv, TypeOK', NEW t \in DOMAIN pending, NEW at, MoveStep(t, at)
  PROVE  ScopeInv'
<1>1. /\ DOMAIN pending' = DOMAIN pending /\ pending'[t].at = at
      /\ \A z \in DOMAIN pending' : z # t => pending'[z] = pending[z]
      /\ UNCHANGED <<dsl, graph, excs, scopes, completed_tasks, loop>>
  BY DEF MoveStep, Suspend
<1>2. at # "scattering" /\ ~ Scattering(t)  BY DEF MoveStep
<1>3. Frame(t) /\ task_streams' = task_streams /\ open_streams' = open_streams
  BY <1>1 DEF Frame, excs, scopes
<1>4. Quiet(t)  BY <1>1, <1>2, <1>3 DEF Quiet
<1>5. Counted' /\ StreamsMade' /\ RanksGrow' /\ EntriesAtRoot' /\ PlaceInv'
  BY <1>4, QuietKeeps
<1>6. at = "finalize_empty" => ClosesAlone(t)
  <2> SUFFICES ASSUME at = "finalize_empty" PROVE ClosesAlone(t)  OBVIOUS
  <2>1. /\ dsl.kind[t.ref] = "gather" /\ IsSkipStream(t.stream)
        /\ ParentScatter(t) \in DOMAIN open_streams
    BY DEF MoveStep
  <2>2. QED  BY <1>3, <2>1, EmptyCloser DEF ClosesAlone
<1>7. at \in {"finalize_gather", "noop_gather"} => at = "noop_gather" /\ Finalizing(t)
  BY DEF MoveStep
<1>8. Closing(t)' => Closing(t) \/ ClosesAlone(t)
  BY <1>1, <1>6, <1>7 DEF Closing, Finalizing
<1>9. SpentInv'  BY <1>3, <1>4, <1>8, QuietSpent
<1>10. t \notin DOMAIN open_streams /\ t \notin DOMAIN task_streams
  BY <1>2, RunningEntries
<1>11. ScattersKnown'  BY <1>3, <1>10, KnownStays
<1>12. PhasesFit'
  <2>1. Finalizing(t) =>
          dsl.kind[t.ref] = "gather" /\ t.stream # ROOT_STREAM /\ ~ IsSkipStream(t.stream)
    BY Parts DEF PhasesFit, PhaseFit, Closing
  <2>2. /\ at = "run_if" => t.ref \in dsl.runIf
        /\ at \in {"scatter_input", "scattering"} => dsl.kind[t.ref] = "scatter"
        /\ at = "execute" => dsl.kind[t.ref] = "action"
        /\ at \in {"gather_item", "finalize_gather", "noop_gather", "finalize_empty"} =>
             dsl.kind[t.ref] = "gather" /\ t.stream # ROOT_STREAM
        /\ at \in {"gather_item", "finalize_gather", "noop_gather"} => ~ IsSkipStream(t.stream)
        /\ at = "finalize_empty" => IsSkipStream(t.stream)
        /\ IsSkipStream(t.stream) => at \in {"created", "finalize_empty"}
    BY <2>1 DEF MoveStep, IsSkipStream
  <2>3. IsSkipStream(t.stream)' = IsSkipStream(t.stream)  BY DEF IsSkipStream, LeafIndex
  <2>4. PhaseFit(t)'  BY <1>1, <2>2, <2>3 DEF PhaseFit, Closing, Finalizing
  <2>5. QED  BY <1>3, <2>4, PhasesStay
<1>13. OpenCounts'
  <2>1. Finalizing(t) => Finalizing(t)'
    <3>1. Finalizing(t) => at = "noop_gather"
      BY Parts DEF MoveStep, Closing, Finalizing, PhasesFit, PhaseFit
    <3>2. QED  BY <1>1, <3>1 DEF Finalizing
  <2>2. QED  BY <1>3, <1>10, <2>1, OpenStays
<1>14. QED  BY <1>5, <1>9, <1>11, <1>12, <1>13 DEF ScopeInv, TreeInv

LEMMA DropInv ==
  ASSUME Scoped, ScopeInv, TypeOK', NEW t \in DOMAIN pending, DropStep(t)
  PROVE  ScopeInv'
<1>0. /\ Complete(t) /\ task_exceptions \subseteq task_exceptions' /\ dsl' = dsl /\ UNCHANGED graph
      /\ task_streams' = task_streams /\ open_streams' = open_streams
  BY DEF DropStep, scopes
<1>1. /\ Frame(t) /\ t \notin DOMAIN pending' /\ t \in completed_tasks'
      /\ task_streams' = task_streams /\ open_streams' = open_streams /\ UNCHANGED graph
  BY <1>0, CompleteFrame, Parts
<1>2. Quiet(t)  BY <1>1 DEF Quiet
<1>3. Counted' /\ StreamsMade' /\ RanksGrow' /\ EntriesAtRoot' /\ PlaceInv'
  BY <1>2, QuietKeeps
<1>4. SpentInv'  BY <1>1, <1>2, QuietSpent
<1>5. t \notin DOMAIN open_streams /\ (t \in DOMAIN task_streams => Scattering(t))
  BY RunningEntries
<1>6. ScattersKnown'
  <2>1. t \in DOMAIN task_streams =>
          /\ dsl.kind[t.ref] = "scatter" /\ ~ IsSkipStream(t.stream) /\ loop' = "stopping"
    <3>1. t \in DOMAIN task_streams => dsl.kind[t.ref] = "scatter" /\ ~ IsSkipStream(t.stream)
      BY Parts DEF ScattersKnown
    <3>2. t \in DOMAIN task_streams => loop' = "stopping"
      BY <1>1, <1>5 DEF DropStep, Frame
    <3>3. QED  BY <3>1, <3>2
  <2>2. QED  BY <1>1, <1>5, <2>1, KnownStays
<1>7. PhasesFit'  BY <1>1, PhasesStay
<1>8. OpenCounts'  BY <1>1, <1>5, OpenStays
<1>9. QED  BY <1>3, <1>4, <1>6, <1>7, <1>8 DEF ScopeInv, TreeInv

LEMMA EndInv ==
  ASSUME Scoped, ScopeInv, TInv, TypeOK', NEW t \in DOMAIN pending, EndStep(t)
  PROVE  ScopeInv'
<1>0. t \in DOMAIN task_streams => dsl.kind[t.ref] = "scatter" /\ ~ IsSkipStream(t.stream)
  BY Parts DEF ScattersKnown
<1>1. /\ DOMAIN pending' = DOMAIN pending \ {t}
      /\ completed_tasks' = completed_tasks \union {t}
      /\ \A z \in DOMAIN pending' : pending'[z] = pending[z]
      /\ loop' = loop \/ (loop = "waiting" /\ loop' = "ready")
      /\ UNCHANGED <<dsl, graph, excs, task_streams>>
  BY DEF EndStep, Complete
<1>2. /\ t \notin DOMAIN open_streams
      /\ DOMAIN open_streams' = DOMAIN open_streams \union {t}
      /\ open_streams'[t] = task_streams[t]
      /\ \A p \in DOMAIN open_streams : open_streams'[p] = open_streams[p]
  BY RunningEntries DEF EndStep, SetOpenStreams
<1>3. Frame(t)  BY <1>1, <1>2 DEF Frame, excs
<1>4. Quiet(t)  BY <1>1, <1>3 DEF Quiet
<1>5. Counted' /\ StreamsMade' /\ RanksGrow' /\ EntriesAtRoot' /\ PlaceInv'
  BY <1>4, QuietKeeps
<1>6. SpentInv'  BY <1>1, <1>2, <1>4, QuietSpent
<1>7. t \in DOMAIN task_streams  BY DEF EndStep, Scattering, TInv, ScatterTracked
<1>8. ScattersKnown'  BY <1>0, <1>1, <1>2, <1>3, <1>7, KnownStays
<1>9. PhasesFit'  BY <1>1, <1>3, PhasesStay
<1>10. OpenCounts'  BY <1>1, <1>2, <1>3, <1>7, OpenStays
<1>11. QED  BY <1>5, <1>6, <1>8, <1>9, <1>10 DEF ScopeInv, TreeInv

LEMMA CloseInv ==
  ASSUME Scoped, ScopeInv, TypeOK', NEW t \in DOMAIN pending, CloseStep(t)
  PROVE  ScopeInv'
<1> DEFINE p == ParentScatter(t)
<1>1. /\ dsl.kind[t.ref] = "gather" /\ t.stream # ROOT_STREAM /\ ~ IsSkipStream(t.stream)
      /\ ~ Closing(t) /\ ~ Scattering(t) /\ p \in DOMAIN open_streams
      /\ open_streams' = [open_streams EXCEPT ![p] = @ - 1]
      /\ IF open_streams[p] = 1 THEN Suspend(t, "finalize_gather") ELSE Complete(t)
      /\ UNCHANGED <<dsl, graph, excs, task_streams>>
  BY DEF CloseStep, CloseStream, LastToClose
<1>2. /\ DOMAIN pending' \subseteq DOMAIN pending /\ DOMAIN pending \ {t} \subseteq DOMAIN pending'
      /\ \A z \in DOMAIN pending' : z # t => pending'[z] = pending[z]
      /\ completed_tasks' = completed_tasks \union (DOMAIN pending \ DOMAIN pending')
      /\ loop' = loop \/ (loop = "waiting" /\ loop' = "ready")
      /\ t \in DOMAIN pending' => pending'[t].at = "finalize_gather" /\ open_streams[p] = 1
  <2>1. CASE open_streams[p] = 1
    <3>1. Suspend(t, "finalize_gather")  BY <1>1, <2>1
    <3>2. QED  BY <2>1, <3>1 DEF Suspend
  <2>2. CASE open_streams[p] # 1
    <3>1. Complete(t)  BY <1>1, <2>2
    <3>2. QED  BY <3>1 DEF Complete
  <2>3. QED  BY <2>1, <2>2
<1>3. Frame(t)  BY <1>1, <1>2 DEF Frame, excs
<1>4. Quiet(t)  BY <1>1, <1>2, <1>3 DEF Quiet
<1>5. Counted' /\ StreamsMade' /\ RanksGrow' /\ EntriesAtRoot' /\ PlaceInv'
  BY <1>4, QuietKeeps
<1>6. open_streams[p] >= 1 /\ open_streams[p] \in Int
  BY <1>1, CloseUnclosed, Parts DEF TypeOK
<1>7. SpentInv'
  <2>1. ASSUME NEW q \in DOMAIN open_streams, open_streams[q] = 0  PROVE open_streams'[q] = 0
    BY <1>1, <1>6, <2>1
  <2>2. t \in DOMAIN pending' => ClosesAlone(t)
    <3> SUFFICES ASSUME t \in DOMAIN pending' PROVE ClosesAlone(t)  OBVIOUS
    <3>1. open_streams[p] = 1  BY <1>2
    <3>2. open_streams'[p] = 0 /\ p \in DOMAIN open_streams'  BY <1>1, <3>1
    <3>3. Undecided(ParentGather(t))  BY <1>1, <3>1, CloserUndecided
    <3>4. ASSUME NEW z \in DOMAIN pending, Closing(z), ParentScatter(z) = p  PROVE FALSE
      BY <3>1, <3>4, ClosingParts
    <3>5. QED  BY <3>2, <3>3, <3>4 DEF ClosesAlone
  <2>3. QED  BY <1>4, <2>1, <2>2, QuietSpent
<1>8. t \notin DOMAIN open_streams /\ t \notin DOMAIN task_streams
  BY <1>1, RunningEntries
<1>9. ScattersKnown'  BY <1>1, <1>3, <1>8, KnownStays
<1>10. PhasesFit'
  <2>1. IsSkipStream(t.stream)' = IsSkipStream(t.stream)  BY DEF IsSkipStream, LeafIndex
  <2>2. t \in DOMAIN pending' => PhaseFit(t)'
    BY <1>1, <1>2, <2>1 DEF PhaseFit, Closing, Finalizing
  <2>3. QED  BY <1>3, <2>2, PhasesStay
<1>11. OpenCounts'
  <2>1. t \in completed_tasks' \/ Finalizing(t)'  BY <1>2 DEF Finalizing
  <2>2. QED  BY <1>3, <2>1, CloseOpen
<1>12. QED  BY <1>5, <1>7, <1>9, <1>10, <1>11 DEF ScopeInv, TreeInv
\* Every step of a coroutine keeps the invariant.
LEMMA TaskScopeInv ==
  ASSUME Scoped, ScopeInv, TInv, TypeOK', NEW t \in DOMAIN pending, TaskStep(t)
  PROVE  ScopeInv'
<1>1. StepKind(t)  BY TaskKind
<1>2. CASE \E u : OwnStep(t, u)  BY <1>2, OwnInv
<1>3. CASE \E i \in Nat : MakeStep(t, i)  BY <1>3, MakeInv
<1>4. CASE \E at : MoveStep(t, at)  BY <1>4, MoveInv
<1>5. CASE SkipStep(t) \/ EmptyStep(t)  BY <1>5, SkipInv
<1>6. CASE DropStep(t)  BY <1>6, DropInv
<1>7. CASE EndStep(t)  BY <1>7, EndInv
<1>8. CASE CloseStep(t)  BY <1>8, CloseInv
<1>9. CASE UpStep(t)  BY <1>9, UpInv
<1>10. QED  BY <1>1, <1>2, <1>3, <1>4, <1>5, <1>6, <1>7, <1>8, <1>9 DEF StepKind

-----------------------------------------------------------------------------
(***************************************************************************)
(* The main loop: it starts what is queued, drops what has not started     *)
(* when the run has failed, and leaves the graph and the tables alone.     *)
(***************************************************************************)
LoopFrame ==
  /\ UNCHANGED <<dsl, edges, indegrees, completed_tasks, task_exceptions, task_streams, open_streams>>
  /\ UNCHANGED <<stream_exceptions, results>>
  /\ queue' \subseteq queue
  /\ DOMAIN pending' \subseteq DOMAIN pending \union (queue \ queue')
  /\ \A z \in DOMAIN pending' :
       \/ z \in DOMAIN pending /\ pending'[z] = pending[z]
       \/ z \in queue /\ Calm /\ pending'[z].at = "created"
  /\ \A z \in DOMAIN pending : pending[z].at # "created" => z \in DOMAIN pending'
  /\ loop' \in {"ready", "waiting"} => loop \in {"ready", "waiting"}
  /\ Calm => /\ loop' # "stopping"
             /\ queue \union DOMAIN pending \subseteq queue' \union DOMAIN pending'
             /\ loop' = "returned" => queue' = {} \/ (loop = "returned" /\ queue' = queue)
  /\ loop' = "returned" => DOMAIN pending' = {}

LEMMA LoopFrames ==
  ASSUME ScopeInv, LoopStep \/ UNCHANGED vars
  PROVE  LoopFrame
<1>1. (Calm => loop # "stopping") /\ (loop = "returned" => DOMAIN pending = {})
  BY Parts DEF PhasesFit
<1>2. CASE StartQueued
  <2>1. queue \intersect DOMAIN pending = {}  BY Parts DEF Counted, RunsOnce
  <2>2. QED  BY <1>2, <2>1 DEF StartQueued, LoopFrame, Calm, excs, scopes
<1>3. CASE StopOnException
  BY <1>3 DEF StopOnException, LoopFrame, Calm, excs, scopes, graph
<1>4. CASE AllTasksCompleted
  BY <1>4 DEF AllTasksCompleted, LoopFrame, Calm, excs, scopes, graph
<1>5. CASE ReturnExceptions
  BY <1>1, <1>5 DEF ReturnExceptions, LoopFrame, Calm, excs, scopes, graph
<1>6. CASE UNCHANGED vars
  BY <1>1, <1>6 DEF vars, LoopFrame, Calm
<1>7. QED  BY <1>2, <1>3, <1>4, <1>5, <1>6 DEF LoopStep

LEMMA LoopScopeInv ==
  ASSUME Scoped, ScopeInv, TypeOK', LoopStep \/ UNCHANGED vars
  PROVE  ScopeInv'
<1>0. LoopFrame  BY LoopFrames
<1>1. /\ UNCHANGED <<dsl, edges, indegrees, completed_tasks, task_exceptions, task_streams, open_streams>>
      /\ queue' \subseteq queue
      /\ DOMAIN pending' \subseteq DOMAIN pending \union (queue \ queue')
      /\ \A z \in DOMAIN pending : pending[z].at # "created" => z \in DOMAIN pending'
  BY <1>0 DEF LoopFrame
<1>2. /\ Calm' = Calm /\ Alive' \subseteq Alive
      /\ Started' \union queue' \subseteq Started \union queue
  BY <1>0 DEF LoopFrame, Calm, Alive, Started
<1>3. ASSUME NEW z \in DOMAIN pending', pending'[z].at # "created"
      PROVE  z \in DOMAIN pending /\ pending'[z] = pending[z]
  BY <1>0, <1>3 DEF LoopFrame
<1>4. ASSUME NEW z  PROVE Finalizing(z)' = Finalizing(z) /\ Closing(z)' = Closing(z)
                          /\ Scattering(z)' = Scattering(z)
  <2>1. ASSUME NEW a, a # "created"
        PROVE  (z \in DOMAIN pending' /\ pending'[z].at = a) <=> (z \in DOMAIN pending /\ pending[z].at = a)
    <3>1. z \in DOMAIN pending => z \notin queue  BY Parts DEF Counted, RunsOnce
    <3>2. QED  BY <1>0, <2>1, <3>1 DEF LoopFrame
  <2>2. QED  BY <2>1 DEF Finalizing, Closing, Scattering
<1>5. Counted'
  <2>1. completed_tasks' \subseteq completed_tasks \union (DOMAIN pending \ DOMAIN pending')
    BY <1>1
  <2>2. QED  BY <1>1, <2>1, MoveCounted, Parts
<1>6. StreamsMade' /\ RanksGrow' /\ EntriesAtRoot'
  <2>1. \A s : StreamMade(s) => StreamMade(s)'
    BY <1>1 DEF StreamMade, Maker, TaskOf, LeafRef, LeafIndex, Parent
  <2>2. StreamsMade'  BY <1>1, <2>1, Parts DEF StreamsMade
  <2>3. RanksGrow'  BY <1>1, Parts DEF RanksGrow
  <2>4. EntriesAtRoot'  BY <1>1, <1>2, Parts DEF EntriesAtRoot
  <2>5. QED  BY <2>2, <2>3, <2>4
<1>7. \A s : IsSkipStream(s)' = IsSkipStream(s)  BY DEF IsSkipStream, LeafIndex
<1>8. ScattersKnown'
  <2>1. ASSUME NEW p \in DOMAIN task_streams
        PROVE  /\ p \in Started' /\ dsl.kind[p.ref] = "scatter" /\ ~ IsSkipStream(p.stream)
               /\ p \in DOMAIN pending' => pending'[p].at = "scattering"
               /\ loop' \in {"ready", "waiting"} /\ p \in completed_tasks => p \in DOMAIN open_streams
    <3>1. /\ p \in Started /\ dsl.kind[p.ref] = "scatter" /\ ~ IsSkipStream(p.stream)
          /\ p \in DOMAIN pending => pending[p].at = "scattering"
          /\ loop \in {"ready", "waiting"} /\ p \in completed_tasks => p \in DOMAIN open_streams
      BY <2>1, Parts DEF ScattersKnown
    <3>2. p \in Started'  BY <1>1, <3>1 DEF Started
    <3>3. p \notin queue  BY <3>1, Parts DEF Started, Counted, RunsOnce
    <3>4. p \in DOMAIN pending' => pending'[p].at = "scattering"
      BY <1>0, <3>1, <3>3 DEF LoopFrame
    <3>5. QED  BY <1>0, <3>1, <3>2, <3>4 DEF LoopFrame
  <2>2. DOMAIN open_streams \subseteq DOMAIN task_streams \intersect completed_tasks
    BY Parts DEF ScattersKnown
  <2>3. QED  BY <1>1, <1>7, <2>1, <2>2 DEF ScattersKnown
<1>9. PhasesFit'
  <2>1. ASSUME NEW z \in DOMAIN pending'  PROVE PhaseFit(z)'
    <3>1. CASE pending'[z].at = "created"
      BY <3>1 DEF PhaseFit, Closing, Finalizing
    <3>2. CASE pending'[z].at # "created"
      <4>1. z \in DOMAIN pending /\ pending'[z] = pending[z]  BY <1>3, <2>1, <3>2
      <4>2. PhaseFit(z)  BY <4>1, Parts DEF PhasesFit
      <4>3. QED  BY <1>1, <1>4, <1>7, <4>1, <4>2 DEF PhaseFit
    <3>3. QED  BY <3>1, <3>2
  <2>2. QED  BY <1>0, <1>2, <2>1 DEF PhasesFit, LoopFrame
<1>10. \A z : Undecided(z) => Undecided(z)'
  BY <1>1, SameEdges DEF Undecided
<1>11. SpentInv'
  <2>1. \A z : GatherSpent(z) => GatherSpent(z)'
    BY <1>1 DEF GatherSpent, ParentGather, ParentScatter, TaskOf, LeafRef, Parent
  <2>2. SourcesSpent'  BY <1>1, <2>1, Parts DEF SourcesSpent
  <2>3. OwnUndecided'
    <3>1. ASSUME NEW z \in DOMAIN pending' \union {y \in queue' : Calm'}  PROVE Undecided(z)
      BY <1>0, <1>1, <1>2, <3>1, Parts DEF LoopFrame, OwnUndecided
    <3>2. QED  BY <1>10, <3>1 DEF OwnUndecided
  <2>4. ClosersUnique'
    <3>1. ASSUME NEW z \in DOMAIN pending', Closing(z)'  PROVE z \in DOMAIN pending /\ Closing(z)
      BY <1>4, <3>1 DEF Closing, Finalizing
    <3>2. \A z : ParentScatter(z)' = ParentScatter(z) /\ ParentGather(z)' = ParentGather(z)
      BY DEF ParentScatter, ParentGather, TaskOf, LeafRef, Parent
    <3>3. ASSUME NEW z \in DOMAIN pending', Closing(z)'
          PROVE  /\ Undecided(ParentGather(z))'
                 /\ ParentScatter(z) \in DOMAIN open_streams'
                 /\ open_streams'[ParentScatter(z)] = 0
      <4>1. /\ Undecided(ParentGather(z)) /\ ParentScatter(z) \in DOMAIN open_streams
            /\ open_streams[ParentScatter(z)] = 0
        BY <3>1, <3>3, Parts DEF ClosersUnique
      <4>2. QED  BY <1>1, <1>10, <4>1
    <3>4. ASSUME NEW z \in DOMAIN pending', NEW v \in DOMAIN pending', Closing(z)', Closing(v)',
                 ParentScatter(z) = ParentScatter(v)
          PROVE  z = v
      BY <3>1, <3>4, Parts DEF ClosersUnique
    <3>5. QED  BY <3>2, <3>3, <3>4 DEF ClosersUnique
  <2>5. QED  BY <2>2, <2>3, <2>4 DEF SpentInv
<1>12. PlaceInv'
  <2>1. \A z : PlacedAt(z) => PlacedAt(z)'
    BY <1>1 DEF PlacedAt, Dead, IsSkipStream, LeafIndex, Maker, TaskOf, LeafRef, Parent, Home
  <2>2. Placed'  BY <1>2, <2>1, Parts DEF Placed
  <2>3. SkipsSkip'
    <3>1. \A z \in Alive' : IsSkipStream(z.stream) => \A e \in InEdges(z)' : Marker(e)' = "SKIPPED"
      BY <1>1, <1>2, SameEdges, Parts DEF SkipsSkip, Marker
    <3>2. Calm' => \A e \in DOMAIN edges' : IsSkipStream(e.stream) => edges'[e] = "SKIPPED"
      BY <1>1, <1>2, Parts DEF SkipsSkip
    <3>3. QED  BY <1>7, <3>1, <3>2 DEF SkipsSkip
  <2>4. LoopsVisit'
    <3>1. ASSUME NEW p \in DOMAIN pending', Scattering(p)'  PROVE p \in DOMAIN pending /\ Scattering(p)
      BY <1>4, <3>1 DEF Scattering
    <3>2. \A s : Maker(s)' = Maker(s)  BY DEF Maker, TaskOf, LeafRef, Parent
    <3>3. QED  BY <1>1, <3>1, <3>2, Parts DEF LoopsVisit
  <2>5. QED  BY <2>2, <2>3, <2>4 DEF PlaceInv
<1>13. OpenCounts'
  <2>1. ASSUME NEW p  PROVE Unclosed(p)' = Unclosed(p)
    BY <1>1, <1>4 DEF Unclosed, Child, TaskOf
  <2>2. QED  BY <1>1, <2>1, Parts DEF OpenCounts
<1>14. QED  BY <1>5, <1>6, <1>8, <1>9, <1>11, <1>12, <1>13 DEF ScopeInv, TreeInv
\* The initial state: the actions without dependencies are queued in the root
\* stream, and there is no other stream.
LEMMA InitScopeInv ==
  ASSUME Scoped, Init, TypeOK
  PROVE  ScopeInv
<1>1. /\ DOMAIN edges = {} /\ DOMAIN pending = {} /\ completed_tasks = {}
      /\ DOMAIN task_streams = {} /\ DOMAIN open_streams = {}
      /\ task_exceptions = {} /\ loop = "ready"
  BY DEF Init, EmptyDict
<1>2. \A z \in queue : z.stream = ROOT_STREAM /\ z.ref \in dsl.refs /\ dsl.deps[z.ref] = {}
  BY DEF Init, RootTasks
<1>3. Counted  BY InitAcc DEF AccInv
<1>4. TreeInv
  <2>1. StreamsMade /\ RanksGrow /\ ScattersKnown /\ PhasesFit
    BY <1>1 DEF StreamsMade, RanksGrow, ScattersKnown, PhasesFit
  <2>2. EntriesAtRoot  BY <1>1, <1>2 DEF EntriesAtRoot, Started
  <2>3. QED  BY <2>1, <2>2 DEF TreeInv
<1>5. SpentInv
  BY <1>1 DEF SpentInv, SourcesSpent, OwnUndecided, ClosersUnique, Undecided
<1>6. PlaceInv
  <2>1. Alive \subseteq queue  BY <1>1 DEF Alive, Started
  <2>2. ASSUME NEW z \in queue  PROVE PlacedAt(z) /\ ~ IsSkipStream(z.stream)
    <3>1. Scope(dsl)[z.ref] = {}  BY <1>2, <2>2, ScopeLaws DEF ScopedBy
    <3>2. QED  BY <1>2, <2>2, <3>1 DEF PlacedAt, Home, IsSkipStream
  <2>3. QED  BY <1>1, <2>1, <2>2 DEF PlaceInv, Placed, SkipsSkip, LoopsVisit
<1>7. OpenCounts  BY <1>1 DEF OpenCounts
<1>8. QED  BY <1>3, <1>4, <1>5, <1>6, <1>7 DEF ScopeInv

\* When the last stream is closed the gathers of all of them have run.
LEMMA BarrierHolds ==
  ASSUME Scoped, ScopeInv
  PROVE  GatherBarrier
<1> SUFFICES ASSUME NEW t \in DOMAIN pending, Finalizing(t),
                    NEW i \in 0 .. task_streams[ParentScatter(t)] - 1
             PROVE  TaskOf(t.ref, Child(Parent(t.stream), LeafRef(t.stream), i))
                      \in completed_tasks \union {t}
  BY DEF GatherBarrier, Finalizing
<1> DEFINE p == ParentScatter(t)
           u == TaskOf(t.ref, Child(Parent(t.stream), LeafRef(t.stream), i))
<1>1. /\ Closing(t) /\ t.stream # ROOT_STREAM /\ dsl.kind[t.ref] = "gather"
      /\ p \in DOMAIN open_streams /\ open_streams[p] = 0
      /\ Scope(dsl)[t.ref] = {LeafRef(t.stream)}
  BY ClosingParts DEF Closing
<1>2. p.ref = LeafRef(t.stream) /\ p.stream = Parent(t.stream)
  BY DEF ParentScatter, TaskOf
<1>3. t \in Task /\ t.ref \in dsl.refs /\ t.stream \in StreamId
  BY RunningEntries DEF Task
<1>4. task_streams[p] \in Nat  BY <1>1, Parts DEF ScattersKnown, TypeOK
<1>5. Unclosed(p) = {}
  <2>1. IsFiniteSet(Unclosed(p)) /\ Cardinality(Unclosed(p)) \in Nat  BY <1>4, UnclosedFinite
  <2>2. Cardinality(Unclosed(p)) <= 0  BY <1>1, Parts DEF OpenCounts
  <2>3. Cardinality(Unclosed(p)) = 0  BY <2>1, <2>2
  <2>4. QED  BY <2>1, <2>3, FS_EmptySet
<1>6. i \notin Unclosed(p)  BY <1>5
<1>7. PICK g \in dsl.refs :
        /\ dsl.kind[g] = "gather" /\ Scope(dsl)[g] = {p.ref}
        /\ \/ TaskOf(g, Child(p.stream, p.ref, i)) \in completed_tasks
           \/ Finalizing(TaskOf(g, Child(p.stream, p.ref, i)))
  BY <1>6 DEF Unclosed
<1>8. g = t.ref
  <2>1. \A a, b \in dsl.refs :
          (/\ dsl.kind[a] = "gather" /\ dsl.kind[b] = "gather"
           /\ Scope(dsl)[a] = Scope(dsl)[b])
          => a = b
    <3>1. TypeOK  BY Parts
    <3>2. ScopedBy(dsl, Scope(dsl), Rank(dsl))  BY <3>1, ScopeLaws
    <3>3. QED  BY <3>2 DEF ScopedBy
  <2>2. Scope(dsl)[g] = Scope(dsl)[t.ref]  BY <1>1, <1>2, <1>7
  <2>3. QED  BY <1>1, <1>3, <1>7, <2>1, <2>2
<1>9. u = TaskOf(g, Child(p.stream, p.ref, i))  BY <1>2, <1>8
<1>10. CASE u \in completed_tasks  BY <1>10
<1>11. CASE Finalizing(u)
  <2>1. u \in DOMAIN pending /\ Closing(u)  BY <1>11 DEF Finalizing, Closing
  <2>2. u.stream = Child(Parent(t.stream), LeafRef(t.stream), i)  BY DEF TaskOf
  <2>3. Parent(t.stream) \in StreamId /\ LeafRef(t.stream) \in dsl.refs
    BY <1>1, <1>3, StreamParts
  <2>4. i \in Int  BY <1>4
  <2>5. LeafRef(u.stream) = LeafRef(t.stream) /\ Parent(u.stream) = Parent(t.stream)
    BY <2>2, <2>3, <2>4, ChildParts
  <2>6. ParentScatter(u) = p  BY <2>5 DEF ParentScatter
  <2>7. u = t  BY <1>1, <2>1, <2>6, Parts DEF ClosersUnique
  <2>8. QED  BY <2>7
<1>12. QED  BY <1>7, <1>9, <1>10, <1>11

-----------------------------------------------------------------------------
\* Workflows with scatters, nested to any depth, whose actions have scopes: the
\* invariant holds in every state of every run, whatever fails or is skipped.
THEOREM ScopedInvariant ==
  ASSUME Scoped
  PROVE  Spec => []ScopeInv
<1>1. Init => TInv /\ ScopeInv  BY InitTInv, InitScopeInv DEF TInv
<1>2. TInv /\ ScopeInv /\ [Next]_vars => (TInv /\ ScopeInv)'
  <2> SUFFICES ASSUME TInv, ScopeInv, [Next]_vars PROVE (TInv /\ ScopeInv)'
    OBVIOUS
  <2>1. TInv' /\ TypeOK'  BY NextTInv DEF TInv
  <2>2. ASSUME NEW t \in DOMAIN pending, TaskStep(t)  PROVE ScopeInv'
    BY <2>1, <2>2, TaskScopeInv
  <2>3. CASE LoopStep \/ UNCHANGED vars  BY <2>1, <2>3, LoopScopeInv
  <2>4. QED  BY <2>1, <2>2, <2>3 DEF Next, Returned
<1>3. QED  BY <1>1, <1>2, PTL DEF Spec

\* In such a workflow the indegree of a task, in every stream, is the number of
\* its undecided dependencies: _queue_tasks counts every edge once although
\* three different coroutines call it.
THEOREM ScopedIndegreeExact ==
  ASSUME Scoped
  PROVE  Spec => []IndegreeExact
<1>1. ScopeInv => IndegreeExact  BY DEF ScopeInv, Counted
<1>2. QED  BY <1>1, ScopedInvariant, PTL

\* No task of any stream is queued, started or ended while one of its
\* dependencies is undecided.
THEOREM ScopedReadyMeansDecided ==
  ASSUME Scoped
  PROVE  Spec => []ReadyMeansDecided
<1>1. ScopeInv => ReadyMeansDecided  BY DEF ScopeInv, Counted
<1>2. QED  BY <1>1, ScopedInvariant, PTL

\* No task of any stream is enqueued or started twice, the continuation of a
\* gather in the parent stream included.
THEOREM ScopedRunsOnce ==
  ASSUME Scoped
  PROVE  Spec => []RunsOnce
<1>1. ScopeInv => RunsOnce  BY DEF ScopeInv, Counted
<1>2. QED  BY <1>1, ScopedInvariant, PTL

\* A gather is finalized only after the gather task of every stream of its
\* scatter has run, however many streams there are and however they interleave.
THEOREM ScopedGatherBarrier ==
  ASSUME Scoped
  PROVE  Spec => []GatherBarrier
<1>1. Scoped /\ ScopeInv => GatherBarrier  BY BarrierHolds
<1>2. ScopeInv => GatherBarrier  BY <1>1
<1>3. QED  BY <1>2, ScopedInvariant, PTL
=============================================================================
