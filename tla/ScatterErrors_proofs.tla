------------------------ MODULE ScatterErrors_proofs ------------------------
(***************************************************************************)
(* What becomes of the streams of a scatter: every one is closed by its    *)
(* gather, the error of a stream that failed reaches the slots of the      *)
(* gather, and a gather that raises fails the run.                         *)
(***************************************************************************)
EXTENDS ScatterScopes_proofs, WellFoundedInduction

(***************************************************************************)
(* What is asked of a scope.  No branch of it ends before its gather: an   *)
(* action leads on, and so does the gather of an inner scatter.            *)
(***************************************************************************)
OutRefs(w, r) == {b \in w.refs \X EdgeTypes : <<r, b[2]>> \in w.deps[b[1]]}

NoDeadEnds(w) ==
  /\ \A r \in w.refs : w.kind[r] = "scatter" =>
       \E g \in w.refs : w.kind[g] = "gather" /\ Scope(w)[g] = {r}
  /\ \A r \in w.refs :
       w.kind[r] # "scatter" /\ SuccScope(w, Scope(w), r) # {} => OutRefs(w, r) # {}

\* Its branches exclude each other: what is after an action depends on whether
\* it succeeds or fails, and one action follows a scatter or an inner gather.
OneBranch(w) ==
  \A r \in w.refs : SuccScope(w, Scope(w), r) # {} =>
    \A a, b \in OutRefs(w, r) : a = b \/ (w.kind[r] = "action" /\ a[2] # b[2])

\* An inner scatter is never skipped in an execution stream: it has no run_if
\* and comes right after a scatter or a gather.  Nor is there a scatter in it,
\* which would be skipped with it.
InnerScattersRun(w) ==
  \A r, q \in w.refs : w.kind[r] = "scatter" /\ Scope(w)[r] = {q} =>
    /\ r \notin w.runIf
    /\ \A d \in w.deps[r] : w.kind[d[1]] # "action"
    /\ Scope(w)[q] = {}

Gathered == Scoped /\ \A w \in Workflows : NoDeadEnds(w) /\ OneBranch(w)
Closable == Scoped /\ \A w \in Workflows : NoDeadEnds(w) /\ InnerScattersRun(w)

-----------------------------------------------------------------------------
Gathers(q) == {g \in dsl.refs : dsl.kind[g] = "gather" /\ Scope(dsl)[g] = {q}}
Sub(p, i)  == Child(p.stream, p.ref, i)
Closed(u)  == u \in completed_tasks \/ Finalizing(u)

\* A task of an execution stream, in the scope of that stream.
Execution(s) == s # ROOT_STREAM /\ ~ IsSkipStream(s)
InScope(t)   == Execution(t.stream) /\ Scope(dsl)[t.ref] = Home(t.stream)

(***************************************************************************)
(* Errors of streams.  In a stream one task at a time holds the token: it  *)
(* was reached and has not ended, or it is a scatter whose streams are not *)
(* gathered.  A stream fails when the token is lost.                       *)
(***************************************************************************)
Reached(t)  == \E e \in InEdges(t) : Marker(e) = "VISITED"
HoldsOwn(t) == t \notin completed_tasks /\ Reached(t)
HoldsBelow(t) ==
  /\ t \in completed_tasks /\ t \in DOMAIN task_streams
  /\ \A g \in Gathers(t.ref) : Undecided(TaskOf(g, t.stream))
Holder(t) == InScope(t) /\ (HoldsOwn(t) \/ HoldsBelow(t))

TokensUnique ==
  \A t, u \in Task : Holder(t) /\ Holder(u) /\ t.stream = u.stream => t = u
FailedIdle == \A t \in Task : Holder(t) => t.stream \notin stream_exceptions

\* A coroutine that was not skipped was reached.
PhasesReached ==
  \A t \in DOMAIN pending :
    /\ t.stream # ROOT_STREAM
    /\ pending[t].at \in {"run_if", "execute", "scatter_input", "scattering", "gather_item"}
    => Reached(t)

\* A stream that has failed is one in which something was decided.
FailedMade ==
  \A s \in stream_exceptions :
    /\ s # ROOT_STREAM /\ \E e \in DOMAIN edges : e.stream = s
    /\ Calm => ~ IsSkipStream(s)

\* Nobody finalizes the gather any more.
Past(p, g) ==
  /\ \A u \in DOMAIN pending : Finalizing(u) => u.ref # g \/ ParentScatter(u) # p
  /\ \/ loop \in {"stopping", "returned"}
     \/ /\ p \in DOMAIN open_streams
        /\ \A j \in 0 .. task_streams[p] - 1 : TaskOf(g, Sub(p, j)) \in completed_tasks

\* The slots of a gather, once it has some, are those of its streams.
SlotsShaped ==
  \A p \in Task : \A g \in Gathers(p.ref) :
    TaskOf(g, p.stream) \in DOMAIN results =>
      /\ p \in DOMAIN open_streams
      /\ DOMAIN results[TaskOf(g, p.stream)] = 0 .. task_streams[p] - 1

ErrorSlot(p, g, i) ==
  TaskOf(g, p.stream) \in DOMAIN results /\ results[TaskOf(g, p.stream)][i] = "error"

\* A stream that has failed and is closed has its error in its slot, or the
\* run is stopping and nobody reads the slots any more.
SlotsHold ==
  \A p \in DOMAIN task_streams : \A g \in Gathers(p.ref) :
    \A i \in 0 .. task_streams[p] - 1 :
      Sub(p, i) \in stream_exceptions /\ Closed(TaskOf(g, Sub(p, i))) =>
        ErrorSlot(p, g, i) \/ (~ Calm /\ Past(p, g))

\* The gather that has closed the last stream finalizes what failed.
Raises ==
  Calm => \A p \in DOMAIN open_streams : \A g \in Gathers(p.ref) :
    /\ open_streams[p] = 0 /\ g \in dsl.raises
    /\ \E i \in 0 .. task_streams[p] - 1 : ErrorSlot(p, g, i)
    => \E u \in DOMAIN pending :
         pending[u].at = "finalize_gather" /\ ParentScatter(u) = p /\ u.ref = g

TokenInv == PhasesReached /\ FailedMade /\ TokensUnique /\ FailedIdle
SlotInv  == SlotsShaped /\ SlotsHold /\ Raises
ErrInv   == TokenInv /\ SlotInv

-----------------------------------------------------------------------------
(***************************************************************************)
(* The graph of a workflow.                                                *)
(***************************************************************************)
\* A set of natural numbers has a least element.
LEMMA LeastNat ==
  ASSUME NEW N \in SUBSET Nat, N # {}
  PROVE  \E n \in N : \A m \in N : n <= m
<1>1. IsWellFoundedOn(OpToRel(<, Nat), Nat)  BY NatLessThanWellFounded
<1>2. PICK n \in N : \A m \in N : ~ (<<m, n>> \in OpToRel(<, Nat))
  BY <1>1, WFMin
<1>3. ASSUME NEW m \in N  PROVE n <= m
  <2>1. m \in Nat /\ n \in Nat  OBVIOUS
  <2>2. ~ (m < n)  BY <1>2, <2>1 DEF OpToRel
  <2>3. QED  BY <2>1, <2>2
<1>4. QED  BY <1>3

\* A set of actions has one of least rank.
LEMMA LowestRef ==
  ASSUME Scoped, TypeOK, NEW U \in SUBSET dsl.refs, U # {}
  PROVE  \E r \in U : \A x \in U : Rank(dsl)[r] <= Rank(dsl)[x]
<1> DEFINE N == {Rank(dsl)[r] : r \in U}
<1>1. Rank(dsl) \in [dsl.refs -> Nat]  BY ScopeLaws DEF ScopedBy
<1>2. N \in SUBSET Nat /\ N # {}  BY <1>1
<1>3. PICK n \in N : \A m \in N : n <= m  BY <1>2, LeastNat
<1>4. QED  BY <1>3

\* And one of greatest rank: the smallest set without one would have it.
LEMMA HighestRef ==
  ASSUME Scoped, TypeOK, NEW U \in SUBSET dsl.refs, U # {}
  PROVE  \E r \in U : \A x \in U : Rank(dsl)[x] <= Rank(dsl)[r]
<1> DEFINE Top(T) == \E r \in T : \A x \in T : Rank(dsl)[x] <= Rank(dsl)[r]
           Bad == {T \in SUBSET dsl.refs : T # {} /\ ~ Top(T)}
           N == {Cardinality(T) : T \in Bad}
<1> SUFFICES ASSUME U \in Bad PROVE FALSE  OBVIOUS
<1>1. Rank(dsl) \in [dsl.refs -> Nat]  BY ScopeLaws DEF ScopedBy
<1>2. ASSUME NEW T \in SUBSET dsl.refs  PROVE IsFiniteSet(T) /\ Cardinality(T) \in Nat
  BY DslOK, FS_Subset, FS_CardinalityType DEF WorkflowOK
<1>3. N \in SUBSET Nat /\ N # {}  BY <1>2
<1>4. PICK n \in N : \A m \in N : n <= m  BY <1>3, LeastNat
<1>5. PICK T \in Bad : n = Cardinality(T)  BY <1>4
<1>6. PICK x \in T : TRUE  BY <1>5
<1>7. T \ {x} \in SUBSET dsl.refs /\ T \in SUBSET dsl.refs  BY <1>5
<1>8. Cardinality(T \ {x}) < n
  <2>1. IsFiniteSet(T) /\ Cardinality(T) \in Nat /\ Cardinality(T \ {x}) \in Nat  BY <1>2, <1>7
  <2>2. Cardinality(T \ {x}) = Cardinality(T) - 1  BY <1>6, <2>1, FS_RemoveElement
  <2>3. QED  BY <1>5, <2>1, <2>2
<1>9. T \ {x} \notin Bad
  <2>1. T \ {x} \in Bad => n <= Cardinality(T \ {x})  BY <1>4
  <2>2. Cardinality(T \ {x}) \in Nat /\ n \in Nat  BY <1>2, <1>3, <1>7
  <2>3. QED  BY <1>8, <2>1, <2>2
<1>10. Rank(dsl)[x] \in Nat /\ \A y \in T : Rank(dsl)[y] \in Nat  BY <1>1, <1>6, <1>7
<1>11. CASE T \ {x} = {}
  <2>1. \A y \in T : y = x  BY <1>11
  <2>2. Top(T)  BY <1>6, <1>10, <2>1
  <2>3. QED  BY <1>5, <2>2
<1>12. CASE T \ {x} # {}
  <2>1. PICK r \in T \ {x} : \A y \in T \ {x} : Rank(dsl)[y] <= Rank(dsl)[r]
    BY <1>7, <1>9, <1>12
  <2>2. CASE Rank(dsl)[x] <= Rank(dsl)[r]
    <3>1. \A y \in T : Rank(dsl)[y] <= Rank(dsl)[r]  BY <2>1, <2>2
    <3>2. QED  BY <1>5, <2>1, <3>1
  <2>3. CASE ~ (Rank(dsl)[x] <= Rank(dsl)[r])
    <3>1. \A y \in T : Rank(dsl)[y] <= Rank(dsl)[x]  BY <1>10, <2>1, <2>3
    <3>2. QED  BY <1>5, <1>6, <3>1
  <2>4. QED  BY <2>2, <2>3
<1>13. QED  BY <1>11, <1>12

\* A scope is that of a scatter, which comes before everything in it.
LEMMA ScopeScatter ==
  ASSUME Scoped, TypeOK, NEW r \in dsl.refs, NEW q, Scope(dsl)[r] = {q}
  PROVE  q \in dsl.refs /\ dsl.kind[q] = "scatter" /\ Rank(dsl)[q] < Rank(dsl)[r]
<1> DEFINE Good(x) == \A y : Scope(dsl)[x] = {y} =>
                        y \in dsl.refs /\ dsl.kind[y] = "scatter" /\ Rank(dsl)[y] < Rank(dsl)[x]
           Bad == {x \in dsl.refs : ~ Good(x)}
<1>1. /\ Scope(dsl) \in [dsl.refs -> {{}} \union {{x} : x \in dsl.refs}]
      /\ Rank(dsl) \in [dsl.refs -> Nat]
      /\ \A x \in dsl.refs : \A d \in dsl.deps[x] :
           Rank(dsl)[d[1]] < Rank(dsl)[x] /\ Scope(dsl)[x] = SuccScope(dsl, Scope(dsl), d[1])
      /\ \A x \in dsl.refs : dsl.deps[x] = {} => Scope(dsl)[x] = {}
  BY ScopeLaws DEF ScopedBy
<1>2. ASSUME NEW x \in dsl.refs, NEW d \in dsl.deps[x]  PROVE d[1] \in dsl.refs
  BY DslOK DEF WorkflowOK
<1>3. ASSUME Bad # {}  PROVE FALSE
  <2>1. PICK x \in Bad : \A y \in Bad : Rank(dsl)[x] <= Rank(dsl)[y]
    BY <1>3, LowestRef
  <2>2. PICK y : /\ Scope(dsl)[x] = {y}
                 /\ ~ (y \in dsl.refs /\ dsl.kind[y] = "scatter" /\ Rank(dsl)[y] < Rank(dsl)[x])
    BY <2>1
  <2>3. PICK d \in dsl.deps[x] : TRUE  BY <1>1, <2>2
  <2>4. /\ d[1] \in dsl.refs /\ Rank(dsl)[d[1]] < Rank(dsl)[x]
        /\ {y} = SuccScope(dsl, Scope(dsl), d[1])
        /\ Rank(dsl)[d[1]] \in Nat /\ Rank(dsl)[x] \in Nat
    BY <1>1, <1>2, <2>2, <2>3
  <2>5. Good(d[1])  BY <2>1, <2>4
  <2>6. CASE dsl.kind[d[1]] = "scatter"
    BY <2>2, <2>4, <2>6 DEF SuccScope
  <2>7. CASE dsl.kind[d[1]] = "gather"
    <3>1. {y} = UNION {Scope(dsl)[z] : z \in Scope(dsl)[d[1]]}  BY <2>4, <2>7 DEF SuccScope
    <3>2. PICK z \in Scope(dsl)[d[1]] : y \in Scope(dsl)[z]  BY <3>1
    <3>3. Scope(dsl)[d[1]] = {z}  BY <1>1, <2>4, <3>2
    <3>4. z \in dsl.refs /\ Rank(dsl)[z] < Rank(dsl)[d[1]]  BY <2>5, <3>3
    <3>5. Scope(dsl)[z] = {y} /\ Rank(dsl)[z] \in Nat  BY <1>1, <3>2, <3>4
    <3>6. Good(z)  BY <1>1, <2>1, <2>4, <3>4, <3>5
    <3>7. y \in dsl.refs /\ dsl.kind[y] = "scatter" /\ Rank(dsl)[y] < Rank(dsl)[z]
      BY <3>5, <3>6
    <3>8. Rank(dsl)[y] \in Nat  BY <1>1, <3>7
    <3>9. QED  BY <2>2, <2>4, <3>4, <3>5, <3>7, <3>8
  <2>8. CASE dsl.kind[d[1]] \notin {"scatter", "gather"}
    <3>1. Scope(dsl)[d[1]] = {y}  BY <2>4, <2>8 DEF SuccScope
    <3>2. y \in dsl.refs /\ dsl.kind[y] = "scatter" /\ Rank(dsl)[y] < Rank(dsl)[d[1]]
      BY <2>5, <3>1
    <3>3. Rank(dsl)[y] \in Nat  BY <1>1, <3>2
    <3>4. QED  BY <2>2, <2>4, <3>2, <3>3
  <2>9. QED  BY <2>6, <2>7, <2>8
<1>4. QED  BY <1>3

\* Where a workflow has one, the gather of a scatter is the only one.
LEMMA OneGather ==
  ASSUME Scoped, TypeOK, NEW q, NEW g \in Gathers(q), NEW h \in Gathers(q)
  PROVE  g = h
BY ScopeLaws DEF ScopedBy, Gathers

\* What only depends on the workflow.
LEMMA SameScopes ==
  ASSUME dsl' = dsl
  PROVE  /\ Task' = Task
         /\ \A q : Gathers(q)' = Gathers(q)
         /\ \A x : InScope(x)' <=> InScope(x)
         /\ \A x : InEdges(x)' = InEdges(x) /\ OutEdges(x)' = OutEdges(x)
<1>1. \A q : Gathers(q)' = Gathers(q)  BY DEF Gathers
<1>2. \A x : InScope(x)' <=> InScope(x)
  BY DEF InScope, Execution, Home, IsSkipStream, LeafIndex, LeafRef, ROOT_STREAM
<1>3. QED  BY <1>1, <1>2, SameEdges, SameTasks

\* The streams of a scatter.
LEMMA SubParts ==
  ASSUME NEW p \in Task, NEW i \in Int
  PROVE  /\ Sub(p, i) \in StreamId /\ Sub(p, i) # ROOT_STREAM
         /\ LeafRef(Sub(p, i)) = p.ref /\ LeafIndex(Sub(p, i)) = i
         /\ Parent(Sub(p, i)) = p.stream /\ Maker(Sub(p, i)) = p
         /\ Home(Sub(p, i)) = {p.ref}
         /\ IsSkipStream(Sub(p, i)) <=> i = SKIP
         /\ Below(p, i) = TaskOf(p.ref, Sub(p, i))
<1>1. /\ Below(p, i).stream = Child(p.stream, p.ref, i)
      /\ Below(p, i).stream \in StreamId
      /\ Below(p, i).stream # ROOT_STREAM
      /\ LeafRef(Below(p, i).stream) = p.ref
      /\ LeafIndex(Below(p, i).stream) = i
      /\ Parent(Below(p, i).stream) = p.stream
      /\ Maker(Below(p, i).stream) = p
  BY BelowParts
<1>2. QED  BY <1>1 DEF Sub, Home, IsSkipStream, Below

\* A gather in a stream of its scatter.
LEMMA SubGather ==
  ASSUME Scoped, TypeOK, NEW p \in Task, NEW g \in Gathers(p.ref), NEW i \in Int
  PROVE  LET u == TaskOf(g, Sub(p, i))
         IN  /\ u \in Task /\ u.ref = g /\ u.stream = Sub(p, i)
             /\ g \in dsl.refs /\ dsl.kind[g] = "gather" /\ Scope(dsl)[g] = {p.ref}
             /\ ParentScatter(u) = p /\ ParentGather(u) = TaskOf(g, p.stream)
             /\ i # SKIP => InScope(u)
<1> DEFINE u == TaskOf(g, Sub(p, i))
<1>1. g \in dsl.refs /\ dsl.kind[g] = "gather" /\ Scope(dsl)[g] = {p.ref}  BY DEF Gathers
<1>2. u.ref = g /\ u.stream = Sub(p, i)  BY DEF TaskOf
<1>3. u \in Task  BY <1>1, SubParts DEF Task, TaskOf
<1>4. p = TaskOf(p.ref, p.stream)  BY DEF Task, TaskOf
<1>5. QED
  BY <1>1, <1>2, <1>3, <1>4, SubParts
  DEF ParentScatter, ParentGather, InScope, Execution

\* A task that has been reached in an execution stream is in its scope.
LEMMA StartedInScope ==
  ASSUME Scoped, ScopeInv, NEW t \in Started, Execution(t.stream)
  PROVE  InScope(t) /\ t \in Task /\ InEdges(t) # {} /\ InEdges(t) \subseteq DOMAIN edges
<1>1. PlacedAt(t)  BY Parts DEF Placed, Alive
<1>2. ~ Dead(t.stream)  BY DEF Dead, Execution
<1>3. t \in Task /\ InEdges(t) # {}  BY Parts, ReachedStream DEF Execution
<1>4. InEdges(t) \subseteq DOMAIN edges  BY Parts DEF Counted, ReadyMeansDecided, Started
<1>5. QED  BY <1>1, <1>2, <1>3, <1>4 DEF PlacedAt, InScope

\* An execution stream in which a task was reached belongs to a scatter.
LEMMA ExecutionParts ==
  ASSUME Scoped, TypeOK, NEW t \in Task, InScope(t)
  PROVE  LET q == LeafRef(t.stream)
         IN  /\ Home(t.stream) = {q} /\ Scope(dsl)[t.ref] = {q}
             /\ q \in dsl.refs /\ dsl.kind[q] = "scatter"
             /\ Rank(dsl)[q] < Rank(dsl)[t.ref] /\ Scope(dsl)[q] # {q}
             /\ t.ref \in dsl.refs /\ t.stream \in StreamId
<1> DEFINE q == LeafRef(t.stream)
<1>1. t.ref \in dsl.refs /\ t.stream \in StreamId  BY DEF Task
<1>2. Home(t.stream) = {q} /\ Scope(dsl)[t.ref] = {q}  BY DEF InScope, Execution, Home
<1>3. q \in dsl.refs /\ dsl.kind[q] = "scatter" /\ Rank(dsl)[q] < Rank(dsl)[t.ref]
  BY <1>1, <1>2, ScopeScatter
<1>4. Scope(dsl)[q] # {q}
  <2>1. Scope(dsl)[q] = {q} => Rank(dsl)[q] < Rank(dsl)[q]  BY <1>3, ScopeScatter
  <2>2. Rank(dsl)[q] \in Nat  BY <1>3, ScopeLaws DEF ScopedBy
  <2>3. QED  BY <2>1, <2>2
<1>5. QED  BY <1>1, <1>2, <1>3, <1>4

\* A task of an execution stream decides nothing before it ends.
LEMMA AheadUndecided ==
  ASSUME Scoped, ScopeInv, NEW t \in Task, InScope(t), t \notin completed_tasks
  PROVE  Undecided(t)
<1> SUFFICES ASSUME NEW e \in OutEdges(t), e \in DOMAIN edges PROVE FALSE
  BY DEF Undecided
<1>1. e.src = t.ref /\ e.stream = t.stream /\ TaskOf(e.src, e.stream) = t  BY OneSource
<1>2. Rank(dsl)[LeafRef(t.stream)] < Rank(dsl)[t.ref] /\ LeafRef(t.stream) \in dsl.refs /\ t.ref \in dsl.refs
  BY Parts, ExecutionParts
<1>3. LeafRef(t.stream) # t.ref
  <2>1. Rank(dsl)[t.ref] \in Nat  BY <1>2, Parts, ScopeLaws DEF ScopedBy
  <2>2. QED  BY <1>2, <2>1
<1>4. ~ GatherSpent(t)
  <2> SUFFICES ASSUME GatherSpent(t) PROVE FALSE  OBVIOUS
  <2>1. PICK v \in completed_tasks :
          /\ v.stream # ROOT_STREAM /\ ParentGather(v) = t
          /\ ParentScatter(v) \in DOMAIN open_streams
    BY DEF GatherSpent
  <2>2. Scope(dsl)[v.ref] # Home(Parent(v.stream))  BY <2>1, Parts, GatherBelow DEF Started
  <2>3. v.ref = t.ref /\ Parent(v.stream) = t.stream  BY <2>1 DEF ParentGather, TaskOf
  <2>4. QED  BY <2>2, <2>3 DEF InScope
<1>5. QED  BY <1>1, <1>3, <1>4, Parts DEF SourcesSpent

-----------------------------------------------------------------------------
(***************************************************************************)
(* A gather is reached last in its stream.                                 *)
(***************************************************************************)
\* As long as a scatter of a stream has not ended, nothing is decided after its
\* gather.
LEMMA GatherAhead ==
  ASSUME Scoped, ScopeInv, NEW y \in Task, InScope(y), dsl.kind[y.ref] = "scatter",
         y \notin completed_tasks, NEW g \in Gathers(y.ref)
  PROVE  Undecided(TaskOf(g, y.stream))
<1> DEFINE x == TaskOf(g, y.stream)
<1>1. g \in dsl.refs /\ dsl.kind[g] = "gather" /\ Scope(dsl)[g] = {y.ref}  BY DEF Gathers
<1>2. /\ Home(y.stream) = {LeafRef(y.stream)} /\ LeafRef(y.stream) \in dsl.refs
      /\ Scope(dsl)[y.ref] = {LeafRef(y.stream)}
      /\ dsl.kind[LeafRef(y.stream)] = "scatter" /\ Scope(dsl)[LeafRef(y.stream)] # {LeafRef(y.stream)}
      /\ y.stream \in StreamId /\ Execution(y.stream)
  BY Parts, ExecutionParts DEF InScope
<1>3. x \in Task /\ x.ref = g /\ x.stream = y.stream  BY <1>1, <1>2 DEF Task, TaskOf
<1> SUFFICES ASSUME NEW e \in OutEdges(x), e \in DOMAIN edges PROVE FALSE
  BY DEF Undecided
<1>4. e.src = g /\ e.stream = y.stream /\ TaskOf(e.src, e.stream) = x  BY <1>3, OneSource
<1>5. x \notin completed_tasks
  <2> SUFFICES ASSUME x \in completed_tasks PROVE FALSE  OBVIOUS
  <2>1. InScope(x)  BY <1>2, <1>3, StartedInScope DEF Started
  <2>2. {y.ref} = {LeafRef(y.stream)}  BY <1>1, <1>2, <1>3, <2>1 DEF InScope
  <2>3. QED  BY <1>2, <2>2
<1>6. LeafRef(e.stream) # e.src  BY <1>1, <1>2, <1>4
<1>7. ~ GatherSpent(x)
  <2> SUFFICES ASSUME GatherSpent(x) PROVE FALSE  OBVIOUS
  <2>1. PICK v \in completed_tasks :
          /\ v.stream # ROOT_STREAM /\ ParentGather(v) = x
          /\ ParentScatter(v) \in DOMAIN open_streams
    BY DEF GatherSpent
  <2>2. Scope(dsl)[v.ref] = {LeafRef(v.stream)}  BY <2>1, Parts, GatherBelow DEF Started
  <2>3. v.ref = g /\ Parent(v.stream) = y.stream  BY <1>3, <2>1 DEF ParentGather, TaskOf
  <2>4. LeafRef(v.stream) = y.ref  BY <1>1, <2>2, <2>3
  <2>5. ParentScatter(v) = y  BY <2>3, <2>4 DEF ParentScatter, TaskOf, Task
  <2>6. QED  BY <2>1, <2>5, Parts DEF ScattersKnown
<1>8. QED  BY <1>4, <1>5, <1>6, <1>7, Parts DEF SourcesSpent

\* Before something is decided in the scope of a stream its gather is not
\* reached: the last undecided action leads to it.
LEMMA GatherLast ==
  ASSUME Scoped, NoDeadEnds(dsl), ScopeInv, NEW h \in Started, dsl.kind[h.ref] = "gather",
         Execution(h.stream), NEW f \in dsl.refs, dsl.kind[f] # "scatter",
         SuccScope(dsl, Scope(dsl), f) = Home(h.stream), Undecided(TaskOf(f, h.stream))
  PROVE  FALSE
<1> DEFINE s == h.stream
           q == LeafRef(s)
           F == {r \in dsl.refs : /\ dsl.kind[r] # "scatter"
                                  /\ SuccScope(dsl, Scope(dsl), r) = {q}
                                  /\ Undecided(TaskOf(r, s))}
<1>1. h \in Task /\ InScope(h)  BY StartedInScope
<1>2. /\ Home(s) = {q} /\ Scope(dsl)[h.ref] = {q} /\ q \in dsl.refs /\ s \in StreamId
      /\ h.ref \in dsl.refs
  BY <1>1, Parts, ExecutionParts
<1>3. F \in SUBSET dsl.refs /\ F # {}  BY <1>2
<1>4. PICK r \in F : \A y \in F : Rank(dsl)[y] <= Rank(dsl)[r]  BY <1>3, Parts, HighestRef
<1>5. PICK b \in OutRefs(dsl, r) : TRUE  BY <1>4 DEF NoDeadEnds
<1> DEFINE y == TaskOf(b[1], s)
<1>6. b[1] \in dsl.refs /\ b[2] \in EdgeTypes /\ <<r, b[2]>> \in dsl.deps[b[1]]
  BY <1>5 DEF OutRefs
<1>7. /\ Rank(dsl) \in [dsl.refs -> Nat] /\ Rank(dsl)[r] < Rank(dsl)[b[1]]
      /\ Scope(dsl)[b[1]] = {q}
  <2>1. <<r, b[2]>>[1] = r  OBVIOUS
  <2>2. QED  BY <1>4, <1>6, <2>1, Parts, ScopeLaws DEF ScopedBy
<1>8. y \in Task /\ y.ref = b[1] /\ y.stream = s /\ InScope(y)
  BY <1>2, <1>6, <1>7 DEF Task, TaskOf, InScope
<1>9. y \notin Started
  <2>1. EdgeOf(r, b[1], b[2], s) \in InEdges(y)
    <3>1. DepEdge(<<r, b[2]>>, y) \in InEdges(y)  BY <1>6, <1>8 DEF InEdges
    <3>2. DepEdge(<<r, b[2]>>, y) = EdgeOf(r, b[1], b[2], s)  BY <1>8 DEF DepEdge
    <3>3. QED  BY <3>1, <3>2
  <2>2. EdgeOf(r, b[1], b[2], s) \in OutEdges(TaskOf(r, s))
    <3>1. b = <<b[1], b[2]>> /\ b \in dsl.refs \X EdgeTypes  BY <1>5 DEF OutRefs
    <3>2. QED  BY <1>6, <3>1 DEF OutEdges, TaskOf
  <2>3. EdgeOf(r, b[1], b[2], s) \notin DOMAIN edges  BY <1>4, <2>2 DEF Undecided
  <2>4. QED  BY <2>1, <2>3, Parts DEF Counted, ReadyMeansDecided, Started
<1>10. CASE dsl.kind[b[1]] = "gather"
  <2>1. b[1] = h.ref  BY <1>2, <1>6, <1>7, <1>10, Parts, ScopeLaws DEF ScopedBy
  <2>2. y = h  BY <1>1, <2>1 DEF Task, TaskOf
  <2>3. QED  BY <1>9, <2>2
<1>11. CASE dsl.kind[b[1]] = "action"
  <2>1. Undecided(y)  BY <1>8, <1>9, AheadUndecided DEF Started
  <2>2. b[1] \in F  BY <1>6, <1>7, <1>11, <2>1 DEF SuccScope
  <2>3. QED  BY <1>4, <1>6, <1>7, <2>2
<1>12. CASE dsl.kind[b[1]] = "scatter"
  <2>1. PICK g \in dsl.refs : dsl.kind[g] = "gather" /\ Scope(dsl)[g] = {b[1]}
    BY <1>6, <1>12 DEF NoDeadEnds
  <2>2. g \in Gathers(y.ref)  BY <1>8, <2>1 DEF Gathers
  <2>3. Undecided(TaskOf(g, s))  BY <1>8, <1>9, <1>12, <2>2, GatherAhead DEF Started
  <2>4. SuccScope(dsl, Scope(dsl), g) = {q}
    <3>1. SuccScope(dsl, Scope(dsl), g) = UNION {Scope(dsl)[z] : z \in {b[1]}}
      BY <2>1 DEF SuccScope
    <3>2. QED  BY <1>7, <3>1
  <2>5. Rank(dsl)[b[1]] < Rank(dsl)[g]  BY <2>1, Parts, ScopeScatter
  <2>6. g \in F  BY <2>1, <2>3, <2>4
  <2>7. QED  BY <1>4, <1>6, <1>7, <2>1, <2>5, <2>6
<1>13. dsl.kind[b[1]] \in {"action", "scatter", "gather"}
  BY <1>6, Parts, DslOK DEF WorkflowOK
<1>14. QED  BY <1>10, <1>11, <1>12, <1>13

\* Once the gather is reached nothing else in its stream holds the token.
LEMMA GatherQuiet ==
  ASSUME Scoped, NoDeadEnds(dsl), ScopeInv, NEW h \in Started, dsl.kind[h.ref] = "gather",
         NEW z \in Task, Holder(z), z.stream = h.stream
  PROVE  z = h
<1> SUFFICES ASSUME z # h PROVE FALSE  OBVIOUS
<1> DEFINE s == h.stream
           q == LeafRef(s)
<1>1. InScope(z) /\ Execution(s)  BY DEF Holder, InScope
<1>2. h \in Task /\ InScope(h)  BY <1>1, StartedInScope
<1>3. /\ Home(s) = {q} /\ Scope(dsl)[h.ref] = {q} /\ Scope(dsl)[z.ref] = {q} /\ q \in dsl.refs
      /\ h.ref \in dsl.refs /\ z.ref \in dsl.refs
  BY <1>1, <1>2, Parts, ExecutionParts
<1>4. z = TaskOf(z.ref, s) /\ h = TaskOf(h.ref, s)  BY <1>2 DEF Task, TaskOf
<1>5. dsl.kind[z.ref] # "gather"
  BY <1>3, <1>4, Parts, ScopeLaws DEF ScopedBy
<1>6. CASE dsl.kind[z.ref] = "action"
  <2>1. z \notin DOMAIN task_streams  BY <1>6, Parts DEF ScattersKnown
  <2>2. z \notin completed_tasks  BY <2>1 DEF Holder, HoldsOwn, HoldsBelow
  <2>3. Undecided(z)  BY <1>1, <2>2, AheadUndecided
  <2>4. SuccScope(dsl, Scope(dsl), z.ref) = {q}  BY <1>3, <1>6 DEF SuccScope
  <2>5. QED  BY <1>1, <1>3, <1>4, <1>6, <2>3, <2>4, GatherLast
<1>7. CASE dsl.kind[z.ref] = "scatter"
  <2>1. PICK g \in dsl.refs : dsl.kind[g] = "gather" /\ Scope(dsl)[g] = {z.ref}
    BY <1>3, <1>7 DEF NoDeadEnds
  <2>2. g \in Gathers(z.ref)  BY <2>1 DEF Gathers
  <2>3. Undecided(TaskOf(g, s))
    BY <1>1, <1>7, <2>2, GatherAhead DEF Holder, HoldsOwn, HoldsBelow
  <2>4. SuccScope(dsl, Scope(dsl), g) = {q}
    <3>1. SuccScope(dsl, Scope(dsl), g) = UNION {Scope(dsl)[x] : x \in {z.ref}}
      BY <2>1 DEF SuccScope
    <3>2. QED  BY <1>3, <3>1
  <2>5. QED  BY <1>1, <1>3, <2>1, <2>3, <2>4, GatherLast
<1>8. dsl.kind[z.ref] \in {"action", "scatter", "gather"}
  BY <1>3, Parts, DslOK DEF WorkflowOK
<1>9. QED  BY <1>5, <1>6, <1>7, <1>8

-----------------------------------------------------------------------------
(***************************************************************************)
(* The token of a stream.                                                  *)
(***************************************************************************)
\* A coroutine that is not skipped was reached, unless it is closing.
LEMMA LiveReached ==
  ASSUME Scoped, ScopeInv, PhasesReached, NEW t \in DOMAIN pending, Live(t), ~ Closing(t),
         t.stream # ROOT_STREAM
  PROVE  Reached(t)
<1>1. CASE pending[t].at = "created"
  <2>1. t \in Started  BY DEF Started
  <2>2. InEdges(t) # {} /\ \A e \in InEdges(t) : Marker(e) \in {"VISITED", "SKIPPED"}
    BY <2>1, Parts, ReachedStream DEF Counted, ReadyMeansDecided, Marker, TypeOK
  <2>3. ~ SkipShouldPropagate(t)  BY <1>1 DEF Live
  <2>4. QED  BY <2>2, <2>3 DEF SkipShouldPropagate, Reached
<1>2. CASE pending[t].at # "created"
  <2>1. pending[t].at \in Phases  BY Parts DEF TypeOK
  <2>2. pending[t].at \notin {"finalize_gather", "noop_gather", "finalize_empty"}
    BY DEF Closing, Finalizing
  <2>3. QED  BY <1>2, <2>1, <2>2 DEF PhasesReached, Phases
<1>3. QED  BY <1>1, <1>2

LEMMA LiveHolds ==
  ASSUME Scoped, ScopeInv, PhasesReached, NEW t \in DOMAIN pending, Live(t), ~ Closing(t),
         Execution(t.stream)
  PROVE  Holder(t) /\ HoldsOwn(t) /\ InScope(t) /\ t \in Task
<1>1. t \notin completed_tasks /\ t \in Started  BY Parts DEF Counted, RunsOnce, Started
<1>2. QED
  BY <1>1, StartedInScope, LiveReached DEF Holder, HoldsOwn, Execution

\* What was reached stays reached.
LEMMA ReachedStays ==
  ASSUME dsl' = dsl, \A e \in DOMAIN edges : e \in DOMAIN edges' /\ edges'[e] = edges[e]
  PROVE  \A z : Reached(z) => Reached(z)'
BY SameEdges DEF Reached, Marker

\* Who holds the token after a step held it before or was reached by the step.
LEMMA FewHolders ==
  ASSUME Scoped, ScopeInv, NEW t \in DOMAIN pending, Frame(t),
         \A e \in DOMAIN edges : e \in DOMAIN edges' /\ edges'[e] = edges[e],
         InScope(t) /\ t \in DOMAIN task_streams' /\ t \in completed_tasks' => HoldsOwn(t),
         NEW z \in Task, Holder(z)'
  PROVE  /\ InScope(z)
         /\ \/ Holder(z)
            \/ \E e \in InEdges(z) : e \in DOMAIN edges' /\ e \notin DOMAIN edges /\ edges'[e] = "VISITED"
<1>1. /\ dsl' = dsl /\ completed_tasks \subseteq completed_tasks'
      /\ completed_tasks' \subseteq completed_tasks \union {t}
      /\ DOMAIN task_streams' \subseteq DOMAIN task_streams \union {t}
  BY DEF Frame
<1>2. InScope(z)  BY <1>1, SameScopes DEF Holder
<1>3. CASE HoldsOwn(z)'
  <2>1. z \notin completed_tasks  BY <1>1, <1>3 DEF HoldsOwn
  <2>2. PICK e \in InEdges(z) : Marker(e)' = "VISITED"
    BY <1>1, <1>3, SameScopes DEF HoldsOwn, Reached
  <2>3. e \in DOMAIN edges' /\ edges'[e] = "VISITED"  BY <2>2 DEF Marker
  <2>4. CASE e \in DOMAIN edges
    <3>1. Marker(e) = "VISITED"  BY <2>3, <2>4 DEF Marker
    <3>2. QED  BY <1>2, <2>1, <3>1 DEF Holder, HoldsOwn, Reached
  <2>5. QED  BY <1>2, <2>3, <2>4
<1>4. CASE HoldsBelow(z)'
  <2>1. CASE z = t  BY <1>2, <1>4, <2>1 DEF Holder, HoldsBelow
  <2>2. CASE z # t
    <3>1. z \in completed_tasks /\ z \in DOMAIN task_streams  BY <1>1, <1>4, <2>2 DEF HoldsBelow
    <3>2. ASSUME NEW g \in Gathers(z.ref)  PROVE Undecided(TaskOf(g, z.stream))
      <4>1. Undecided(TaskOf(g, z.stream))'  BY <1>1, <1>4, SameScopes DEF HoldsBelow, TaskOf
      <4>2. OutEdges(TaskOf(g, z.stream))' = OutEdges(TaskOf(g, z.stream))
        BY <1>1, SameScopes DEF TaskOf
      <4>3. QED  BY <4>1, <4>2 DEF Undecided
    <3>3. QED  BY <1>2, <3>1, <3>2 DEF Holder, HoldsBelow
  <2>3. QED  BY <2>1, <2>2
<1>5. QED  BY <1>3, <1>4 DEF Holder

\* One task at most follows a scatter, an inner gather, or one outcome of an
\* action.
LEMMA OneSuccessor ==
  ASSUME Scoped, TypeOK, OneBranch(dsl), NEW x \in Task, NEW y \in Task, NEW z \in Task,
         InScope(y), NEW e \in InEdges(y), e \in OutEdges(x), NEW f \in InEdges(z), f \in OutEdges(x),
         dsl.kind[x.ref] # "action" \/ e.type = f.type
  PROVE  y = z
<1>1. PICK a \in OutRefs(dsl, x.ref) : e = EdgeOf(x.ref, a[1], a[2], x.stream)
  BY DEF OutEdges, OutRefs
<1>2. PICK b \in OutRefs(dsl, x.ref) : f = EdgeOf(x.ref, b[1], b[2], x.stream)
  BY DEF OutEdges, OutRefs
<1>3. /\ a[1] = y.ref /\ a[2] = e.type /\ y.stream = x.stream
      /\ b[1] = z.ref /\ b[2] = f.type /\ z.stream = x.stream
  BY <1>1, <1>2 DEF EdgeOf, InEdges, DepEdge
<1>4. SuccScope(dsl, Scope(dsl), x.ref) # {}
  <2>1. <<x.ref, a[2]>> \in dsl.deps[y.ref] /\ y.ref \in dsl.refs
    BY <1>1, <1>3 DEF OutRefs, Task
  <2>2. Scope(dsl)[y.ref] = SuccScope(dsl, Scope(dsl), <<x.ref, a[2]>>[1])
    BY <2>1, ScopeLaws DEF ScopedBy
  <2>3. Scope(dsl)[y.ref] # {}  BY ExecutionParts
  <2>4. QED  BY <2>2, <2>3
<1>5. x.ref \in dsl.refs  BY DEF Task
<1>6. a = b  BY <1>1, <1>2, <1>3, <1>4, <1>5 DEF OneBranch
<1>7. QED  BY <1>3, <1>6 DEF Task

\* A step that decides edges hands the token on.
LEMMA TokenHanded ==
  ASSUME Scoped, OneBranch(dsl), ScopeInv, TokenInv, NEW t \in DOMAIN pending, NEW x, NEW u,
         Emission(t, x, u),
         InScope(t) /\ t \in DOMAIN task_streams' /\ t \in completed_tasks' => HoldsOwn(t),
         \A e, f \in OutEdges(x) \ u : dsl.kind[x.ref] # "action" \/ e.type = f.type,
         \A z \in Task : \A e \in InEdges(z) : InScope(z) /\ e \in OutEdges(x) /\ e \notin u =>
           /\ x.stream \notin stream_exceptions'
           /\ \A h \in Task : Holder(h) /\ h.stream = x.stream => ~ Holder(h)',
         \A h \in Task : Holder(h) /\ h.stream \in stream_exceptions' =>
           h.stream \in stream_exceptions \/ ~ Holder(h)'
  PROVE  TokensUnique' /\ FailedIdle'
<1>1. /\ x \in Task /\ dsl' = dsl
      /\ DOMAIN edges' = DOMAIN edges \union OutEdges(x)
      /\ \A e \in DOMAIN edges : edges'[e] = edges[e]
      /\ \A e \in OutEdges(x) : edges'[e] = IF e \in u THEN "SKIPPED" ELSE "VISITED"
      /\ \A e \in OutEdges(x) : e.src = x.ref /\ e.stream = x.stream
  BY EmissionGraph
<1>2. Frame(t) /\ \A e \in DOMAIN edges : e \in DOMAIN edges' /\ edges'[e] = edges[e]
  BY <1>1 DEF Emission
<1> DEFINE New(z) == \E e \in InEdges(z) : e \in OutEdges(x) /\ e \notin u
<1>3. ASSUME NEW z \in Task, Holder(z)'
      PROVE  InScope(z) /\ (Holder(z) \/ New(z))
  <2>1. /\ InScope(z)
        /\ \/ Holder(z)
           \/ \E e \in InEdges(z) : e \in DOMAIN edges' /\ e \notin DOMAIN edges /\ edges'[e] = "VISITED"
    BY <1>2, <1>3, FewHolders
  <2>2. QED  BY <1>1, <2>1
<1>4. ASSUME NEW z \in Task, New(z)  PROVE z.stream = x.stream
  <2>1. PICK e \in InEdges(z) : e \in OutEdges(x)  BY <1>4
  <2>2. QED  BY <1>1, <2>1 DEF InEdges, DepEdge, EdgeOf
<1>5. TokensUnique'
  <2> SUFFICES ASSUME NEW y \in Task, NEW z \in Task, Holder(y)', Holder(z)', y.stream = z.stream
               PROVE  y = z
    BY <1>1, SameScopes DEF TokensUnique
  <2>1. InScope(y) /\ (Holder(y) \/ New(y)) /\ InScope(z) /\ (Holder(z) \/ New(z))  BY <1>3
  <2>2. CASE Holder(y) /\ Holder(z)  BY <2>2 DEF TokenInv, TokensUnique
  <2>3. CASE New(y) /\ New(z)  BY <1>1, <2>1, <2>3, Parts, OneSuccessor
  <2>4. CASE New(y) /\ Holder(z)  BY <1>4, <2>1, <2>4
  <2>5. CASE Holder(y) /\ New(z)  BY <1>4, <2>1, <2>5
  <2>6. QED  BY <2>1, <2>2, <2>3, <2>4, <2>5
<1>6. FailedIdle'
  <2> SUFFICES ASSUME NEW z \in Task, Holder(z)', z.stream \in stream_exceptions' PROVE FALSE
    BY <1>1, SameScopes DEF FailedIdle
  <2>1. InScope(z) /\ (Holder(z) \/ New(z))  BY <1>3
  <2>2. CASE Holder(z)  BY <2>2 DEF TokenInv, FailedIdle
  <2>3. CASE New(z)  BY <1>4, <2>1, <2>3
  <2>4. QED  BY <2>1, <2>2, <2>3
<1>7. QED  BY <1>5, <1>6

\* A step that decides nothing hands no token on.
LEMMA TokenKept ==
  ASSUME Scoped, ScopeInv, TokenInv, NEW t \in DOMAIN pending, Frame(t), edges' = edges,
         stream_exceptions' = stream_exceptions,
         InScope(t) /\ t \in DOMAIN task_streams' /\ t \in completed_tasks' => HoldsOwn(t)
  PROVE  TokensUnique' /\ FailedIdle'
<1>1. ASSUME NEW z \in Task, Holder(z)'  PROVE Holder(z)
  BY <1>1, FewHolders
<1>2. Task' = Task  BY SameScopes DEF Frame
<1>3. QED  BY <1>1, <1>2 DEF TokenInv, TokensUnique, FailedIdle

\* The rest of the invariant about tokens.
LEMMA PhasesReachedStay ==
  ASSUME ScopeInv, TokenInv, NEW t \in DOMAIN pending, Frame(t),
         \A e \in DOMAIN edges : e \in DOMAIN edges' /\ edges'[e] = edges[e],
         /\ t \in DOMAIN pending' /\ t.stream # ROOT_STREAM
         /\ pending'[t].at \in {"run_if", "execute", "scatter_input", "scattering", "gather_item"}
         => Reached(t)
  PROVE  PhasesReached'
<1> SUFFICES ASSUME NEW z \in DOMAIN pending', z.stream # ROOT_STREAM,
                    pending'[z].at \in {"run_if", "execute", "scatter_input", "scattering", "gather_item"}
             PROVE  Reached(z)'
  BY DEF PhasesReached, ROOT_STREAM
<1>1. Reached(z)
  <2>1. CASE z = t  BY <2>1
  <2>2. CASE z # t
    <3>1. z \in DOMAIN pending /\ pending'[z] = pending[z]  BY <2>2 DEF Frame
    <3>2. QED  BY <3>1 DEF TokenInv, PhasesReached
  <2>3. QED  BY <2>1, <2>2
<1>2. QED  BY <1>1, ReachedStays DEF Frame

LEMMA FailedMadeStays ==
  ASSUME TokenInv, DOMAIN edges \subseteq DOMAIN edges', task_exceptions \subseteq task_exceptions',
         \A s \in stream_exceptions' : s \notin stream_exceptions =>
           /\ s # ROOT_STREAM /\ \E e \in DOMAIN edges' : e.stream = s
           /\ Calm' => ~ IsSkipStream(s)
  PROVE  FailedMade'
<1>1. Calm' => Calm  BY DEF Calm
<1>2. \A s : IsSkipStream(s)' <=> IsSkipStream(s)  BY DEF IsSkipStream, LeafIndex
<1>3. ASSUME NEW s \in stream_exceptions'
      PROVE  /\ s # ROOT_STREAM /\ \E e \in DOMAIN edges' : e.stream = s
             /\ Calm' => ~ IsSkipStream(s)
  <2>1. CASE s \in stream_exceptions  BY <1>1, <2>1 DEF TokenInv, FailedMade
  <2>2. QED  BY <2>1
<1>4. QED  BY <1>2, <1>3 DEF FailedMade, ROOT_STREAM

\* A stream whose token somebody holds is one in which something was decided.
LEMMA HolderMade ==
  ASSUME Scoped, ScopeInv, NEW h \in Task, Holder(h)
  PROVE  \E e \in DOMAIN edges : e.stream = h.stream
<1>1. \E e \in InEdges(h) : e \in DOMAIN edges
  <2>1. CASE HoldsOwn(h)  BY <2>1 DEF HoldsOwn, Reached, Marker
  <2>2. CASE HoldsBelow(h)
    <3>1. h \in Started /\ Execution(h.stream)  BY <2>2 DEF HoldsBelow, Started, Holder, InScope
    <3>2. QED  BY <3>1, StartedInScope
  <2>3. QED  BY <2>1, <2>2 DEF Holder
<1>2. QED  BY <1>1 DEF InEdges, DepEdge, EdgeOf

\* A task that ends without streams holds nothing any more.
LEMMA EndedHoldsNot ==
  ASSUME NEW t, t \in completed_tasks', t \notin DOMAIN task_streams'
  PROVE  ~ Holder(t)'
BY DEF Holder, HoldsOwn, HoldsBelow

LEMMA OwnTokens ==
  ASSUME Gathered, ScopeInv, TokenInv, NEW t \in DOMAIN pending, NEW u, OwnStep(t, u)
  PROVE  TokenInv'
<1>1. Scoped /\ NoDeadEnds(dsl) /\ OneBranch(dsl)  BY Parts DEF Gathered, TypeOK
<1>2. /\ Emission(t, t, u) /\ t \notin DOMAIN pending' /\ t \in completed_tasks'
      /\ task_streams' = task_streams /\ Outcome(t, u)
      /\ task_exceptions \subseteq task_exceptions'
  BY <1>1, OwnEmission DEF OwnStep
<1>3. /\ t \in Task /\ dsl' = dsl /\ Frame(t)
      /\ DOMAIN edges' = DOMAIN edges \union OutEdges(t)
      /\ \A e \in DOMAIN edges : edges'[e] = edges[e]
      /\ \A e \in OutEdges(t) : e.src = t.ref /\ e.stream = t.stream
  BY <1>1, <1>2, EmissionGraph DEF Emission
<1>4. t \notin DOMAIN task_streams' /\ t \in Started
  BY <1>2, RunningEntries DEF OwnStep
<1>5. ~ Holder(t)'  BY <1>2, <1>4, EndedHoldsNot
<1>6. \A e, f \in OutEdges(t) \ u : e.type = f.type
  BY <1>2 DEF Outcome
<1>7. ASSUME NEW z \in Task, NEW e \in InEdges(z), InScope(z), e \in OutEdges(t), e \notin u
      PROVE  /\ t.stream \notin stream_exceptions'
             /\ \A h \in Task : Holder(h) /\ h.stream = t.stream => ~ Holder(h)'
  <2>1. Live(t) /\ stream_exceptions' = stream_exceptions  BY <1>2, <1>7 DEF Outcome
  <2>2. z.stream = t.stream /\ Execution(t.stream)
    BY <1>3, <1>7 DEF InEdges, DepEdge, EdgeOf, InScope
  <2>3. ~ Closing(t)
    <3> SUFFICES ASSUME Closing(t) PROVE FALSE  OBVIOUS
    <3> DEFINE q == LeafRef(t.stream)
    <3>1. dsl.kind[t.ref] = "gather" /\ Scope(dsl)[t.ref] = {q}  BY <1>1, ClosingParts
    <3>2. Scope(dsl)[z.ref] = {q} /\ Scope(dsl)[q] # {q} /\ z.ref \in dsl.refs
      BY <1>1, <1>7, <2>2, Parts, ExecutionParts
    <3>3. Scope(dsl)[z.ref] = SuccScope(dsl, Scope(dsl), t.ref)
      <4>1. PICK d \in dsl.deps[z.ref] : e = DepEdge(d, z)  BY <1>7 DEF InEdges
      <4>2. d[1] = t.ref  BY <1>3, <1>7, <4>1 DEF DepEdge, EdgeOf
      <4>3. QED  BY <1>1, <3>2, <4>1, <4>2, Parts, ScopeLaws DEF ScopedBy
    <3>4. SuccScope(dsl, Scope(dsl), t.ref) = UNION {Scope(dsl)[y] : y \in {q}}
      BY <3>1 DEF SuccScope
    <3>5. QED  BY <3>2, <3>3, <3>4
  <2>4. Holder(t)  BY <1>1, <2>1, <2>2, <2>3, LiveHolds DEF TokenInv
  <2>5. \A h \in Task : Holder(h) /\ h.stream = t.stream => h = t
    BY <1>3, <2>4 DEF TokenInv, TokensUnique
  <2>6. QED  BY <1>3, <1>5, <2>1, <2>4, <2>5 DEF TokenInv, FailedIdle
<1>8. ASSUME NEW h \in Task, Holder(h), h.stream \in stream_exceptions', h.stream \notin stream_exceptions
      PROVE  ~ Holder(h)'
  <2>1. Live(t) /\ h.stream = t.stream  BY <1>2, <1>8 DEF Outcome
  <2>2. Execution(t.stream)  BY <1>8, <2>1 DEF Holder, InScope
  <2>3. CASE Closing(t)
    <3>1. dsl.kind[t.ref] = "gather"  BY <1>1, <2>3, ClosingParts
    <3>2. h = t  BY <1>1, <1>4, <1>8, <2>1, <3>1, GatherQuiet
    <3>3. QED  BY <1>5, <3>2
  <2>4. CASE ~ Closing(t)
    <3>1. Holder(t)  BY <1>1, <2>1, <2>2, <2>4, LiveHolds DEF TokenInv
    <3>2. h = t  BY <1>3, <1>8, <2>1, <3>1 DEF TokenInv, TokensUnique
    <3>3. QED  BY <1>5, <3>2
  <2>5. QED  BY <2>3, <2>4
<1>9. TokensUnique' /\ FailedIdle'
  BY <1>1, <1>2, <1>4, <1>6, <1>7, <1>8, TokenHanded
<1>10. PhasesReached'  BY <1>2, <1>3, PhasesReachedStay
<1>11. FailedMade'
  <2>1. ASSUME NEW s \in stream_exceptions', s \notin stream_exceptions
        PROVE  /\ s # ROOT_STREAM /\ \E e \in DOMAIN edges' : e.stream = s
               /\ Calm' => ~ IsSkipStream(s)
    <3>1. s = t.stream /\ t.stream # ROOT_STREAM /\ (Calm' => ~ IsSkipStream(t.stream))
      BY <1>2, <2>1 DEF Outcome
    <3>2. PICK e \in InEdges(t) : e \in DOMAIN edges
      BY <1>1, <1>4, <3>1, Parts, ReachedStream DEF Counted, ReadyMeansDecided, Started
    <3>3. e.stream = t.stream  BY DEF InEdges, DepEdge, EdgeOf
    <3>4. QED  BY <1>3, <3>1, <3>2, <3>3
  <2>2. QED  BY <1>2, <1>3, <2>1, FailedMadeStays
<1>12. QED  BY <1>9, <1>10, <1>11 DEF TokenInv

LEMMA SkipTokens ==
  ASSUME Gathered, ScopeInv, TokenInv, NEW t \in DOMAIN pending, SkipStep(t) \/ EmptyStep(t)
  PROVE  TokenInv'
<1> DEFINE x == Below(t, SKIP)
<1>1. Scoped /\ OneBranch(dsl)  BY Parts DEF Gathered, TypeOK
<1>2. /\ Emission(t, x, OutEdges(x)) /\ t \notin DOMAIN pending' /\ t \in completed_tasks'
      /\ stream_exceptions' = stream_exceptions /\ task_exceptions' = task_exceptions
  BY <1>1, SkipEmission DEF SkipStep, EmptyStep, excs
<1>3. /\ Frame(t) /\ DOMAIN edges' = DOMAIN edges \union OutEdges(x)
      /\ \A e \in DOMAIN edges : edges'[e] = edges[e]
  BY <1>1, <1>2, EmissionGraph DEF Emission
<1>4. InScope(t) /\ t \in DOMAIN task_streams' => HoldsOwn(t)
  <2>1. CASE SkipStep(t)  BY <2>1 DEF SkipStep, scopes
  <2>2. CASE EmptyStep(t)
    <3>1. t \notin completed_tasks  BY Parts DEF Counted, RunsOnce
    <3>2. InScope(t) => Reached(t)
      BY <2>2 DEF EmptyStep, TokenInv, PhasesReached, InScope, Execution
    <3>3. QED  BY <3>1, <3>2 DEF HoldsOwn
  <2>3. QED  BY <2>1, <2>2
<1>5. TokensUnique' /\ FailedIdle'  BY <1>1, <1>2, <1>4, TokenHanded
<1>6. PhasesReached'  BY <1>2, <1>3, PhasesReachedStay
<1>7. FailedMade'  BY <1>2, <1>3, FailedMadeStays
<1>8. QED  BY <1>5, <1>6, <1>7 DEF TokenInv

LEMMA MakeTokens ==
  ASSUME Gathered, ScopeInv, TokenInv, NEW t \in DOMAIN pending, NEW i \in Nat, MakeStep(t, i)
  PROVE  TokenInv'
<1> DEFINE x == Below(t, i)
<1>1. Scoped /\ OneBranch(dsl)  BY Parts DEF Gathered, TypeOK
<1>2. /\ Emission(t, x, {}) /\ completed_tasks' = completed_tasks
      /\ dsl.kind[t.ref] = "scatter"
  BY <1>1, MakeEmission DEF MakeStep
<1>0. stream_exceptions' = stream_exceptions /\ task_exceptions' = task_exceptions
  BY DEF MakeStep, CreateStream, excs
<1>3. /\ Frame(t) /\ DOMAIN edges' = DOMAIN edges \union OutEdges(x)
      /\ \A e \in DOMAIN edges : edges'[e] = edges[e]
  BY <1>1, <1>2, EmissionGraph DEF Emission
<1>4. t \notin completed_tasks' /\ t \in Task /\ x.ref = t.ref
  BY <1>2, Parts, BelowParts DEF Counted, RunsOnce, TypeOK
<1>5. \A e \in DOMAIN edges : e.stream # x.stream
  <2>1. Fresh(t, i)  BY DEF Fresh, MakeStep
  <2>2. QED  BY <1>1, <2>1, BelowUndecided
<1>6. x.stream \notin stream_exceptions'  BY <1>0, <1>5 DEF TokenInv, FailedMade
<1>7. \A h \in Task : Holder(h) => h.stream # x.stream  BY <1>1, <1>5, HolderMade
<1>8. TokensUnique' /\ FailedIdle'
  BY <1>0, <1>1, <1>2, <1>4, <1>6, <1>7, TokenHanded
<1>9. PhasesReached'
  <2>1. t.stream # ROOT_STREAM => Reached(t)  BY DEF MakeStep, TokenInv, PhasesReached
  <2>2. QED  BY <1>3, <2>1, PhasesReachedStay
<1>10. FailedMade'  BY <1>0, <1>3, FailedMadeStays
<1>11. QED  BY <1>8, <1>9, <1>10 DEF TokenInv

LEMMA UpTokens ==
  ASSUME Gathered, ScopeInv, TokenInv, NEW t \in DOMAIN pending, UpStep(t)
  PROVE  TokenInv'
<1> DEFINE x == ParentGather(t)
           p == ParentScatter(t)
<1>1. Scoped /\ OneBranch(dsl)  BY Parts DEF Gathered, TypeOK
<1>2. /\ Emission(t, x, {}) /\ t \notin DOMAIN pending' /\ t \in completed_tasks'
      /\ task_streams' = task_streams /\ Closing(t)
      /\ stream_exceptions' = stream_exceptions /\ task_exceptions' = task_exceptions
  BY <1>1, UpEmission DEF UpStep, excs
<1>3. /\ Frame(t) /\ dsl' = dsl /\ DOMAIN edges' = DOMAIN edges \union OutEdges(x)
      /\ \A e \in DOMAIN edges : edges'[e] = edges[e]
      /\ \A e \in OutEdges(x) : e.stream = x.stream
  <2> HIDE DEF x
  <2>1. Frame(t)  BY <1>2 DEF Emission
  <2>2. QED  BY <1>1, <1>2, <2>1, EmissionGraph
<1>4. /\ t \in Started /\ t.stream # ROOT_STREAM /\ dsl.kind[t.ref] = "gather"
      /\ p \in DOMAIN open_streams /\ Undecided(x) /\ Scope(dsl)[t.ref] = {LeafRef(t.stream)}
      /\ x.ref = t.ref /\ x.stream = Parent(t.stream)
  BY <1>1, <1>2, ClosingParts
<1>5. p.ref = LeafRef(t.stream) /\ p.stream = x.stream /\ x = TaskOf(t.ref, p.stream)
  BY DEF ParentScatter, ParentGather, TaskOf
<1>6. p \in Task /\ p \in completed_tasks /\ p \in DOMAIN task_streams
  BY <1>4, Parts DEF ScattersKnown, TypeOK
<1>7. t \notin DOMAIN task_streams'  BY <1>2, <1>4, Parts DEF ScattersKnown
<1>8. t.ref \in Gathers(p.ref) /\ \A g \in Gathers(p.ref) : g = t.ref
  <2>1. t.ref \in dsl.refs  BY Parts DEF TypeOK, Task
  <2>2. t.ref \in Gathers(p.ref)  BY <1>4, <1>5, <2>1 DEF Gathers
  <2>3. QED  BY <1>1, <2>2, Parts, OneGather
<1>9. ASSUME NEW z \in Task, NEW e \in InEdges(z), InScope(z), e \in OutEdges(x)
      PROVE  /\ x.stream \notin stream_exceptions'
             /\ \A h \in Task : Holder(h) /\ h.stream = x.stream => ~ Holder(h)'
  <2>1. z.stream = x.stream /\ Execution(x.stream)
    BY <1>3, <1>9 DEF InEdges, DepEdge, EdgeOf, InScope
  <2>2. Scope(dsl)[p.ref] = Home(p.stream)  BY <1>1, <1>4, <1>5, Parts, GatherBelow
  <2>3. HoldsBelow(p)  BY <1>4, <1>5, <1>6, <1>8 DEF HoldsBelow
  <2>4. Holder(p)  BY <1>5, <2>1, <2>2, <2>3 DEF Holder, InScope
  <2>5. ~ Holder(p)'
    <3>1. p \in completed_tasks'  BY <1>3, <1>6 DEF Frame
    <3>2. ~ Undecided(x)'
      <4>1. OutEdges(x)' = OutEdges(x)
        <5>1. x' = x  BY DEF ParentGather, TaskOf, Parent
        <5>2. QED  BY <1>3, <5>1, SameScopes
      <4>2. QED  BY <1>3, <1>9, <4>1 DEF Undecided
    <3>3. t.ref \in Gathers(p.ref)'
      <4>1. p' = p  BY DEF ParentScatter, TaskOf, Parent, LeafRef
      <4>2. QED  BY <1>3, <1>8, <4>1, SameScopes
    <3>4. ~ HoldsBelow(p)'
      BY <3>2, <3>3 DEF HoldsBelow, ParentGather, ParentScatter, TaskOf, Parent, LeafRef
    <3>5. QED  BY <3>1, <3>4 DEF Holder, HoldsOwn
  <2>6. \A h \in Task : Holder(h) /\ h.stream = x.stream => h = p
    BY <1>5, <1>6, <2>4 DEF TokenInv, TokensUnique
  <2>7. QED  BY <1>2, <1>5, <1>6, <2>4, <2>5, <2>6 DEF TokenInv, FailedIdle
<1>10. TokensUnique' /\ FailedIdle'
  <2>1. \A e, f \in OutEdges(x) \ {} : dsl.kind[x.ref] # "action" \/ e.type = f.type
    BY <1>4
  <2>2. QED  BY <1>1, <1>2, <1>7, <1>9, <2>1, TokenHanded
<1>11. PhasesReached'  BY <1>2, <1>3, PhasesReachedStay
<1>12. FailedMade'  BY <1>2, <1>3, FailedMadeStays
<1>13. QED  BY <1>10, <1>11, <1>12 DEF TokenInv

\* What the steps that decide nothing leave alone.
LEMMA QuietFrame ==
  ASSUME ScopeInv, NEW t \in DOMAIN pending,
         DropStep(t) \/ EndStep(t) \/ CloseStep(t) \/ \E at : MoveStep(t, at)
  PROVE  /\ Frame(t) /\ UNCHANGED <<dsl, edges, queue, stream_exceptions, task_streams>>
         /\ t \in DOMAIN pending' => pending'[t].at # "scattering"
<1>1. CASE DropStep(t)
  <2>1. /\ Complete(t) /\ task_exceptions \subseteq task_exceptions'
        /\ UNCHANGED <<dsl, edges, queue, stream_exceptions, task_streams, open_streams>>
    BY <1>1 DEF DropStep, scopes, graph
  <2>2. QED  BY <2>1, CompleteFrame, Parts
<1>2. CASE EndStep(t)
  <2>1. /\ DOMAIN pending' = DOMAIN pending \ {t}
        /\ completed_tasks' = completed_tasks \union {t}
        /\ \A z \in DOMAIN pending' : pending'[z] = pending[z]
        /\ loop' = loop \/ (loop = "waiting" /\ loop' = "ready")
        /\ UNCHANGED <<dsl, edges, queue, task_exceptions, stream_exceptions, task_streams>>
    BY <1>2 DEF EndStep, Complete, graph, excs
  <2>2. DOMAIN open_streams' = DOMAIN open_streams \union {t}
    BY <1>2 DEF EndStep, SetOpenStreams
  <2>3. QED  BY <2>1, <2>2 DEF Frame
<1>3. CASE CloseStep(t)
  <2>1. /\ open_streams' = [open_streams EXCEPT ![ParentScatter(t)] = @ - 1]
        /\ Suspend(t, "finalize_gather") \/ Complete(t)
        /\ UNCHANGED <<dsl, edges, queue, task_exceptions, stream_exceptions, task_streams>>
    BY <1>3 DEF CloseStep, CloseStream, graph, excs
  <2>2. DOMAIN open_streams' = DOMAIN open_streams  BY <2>1
  <2>3. CASE Suspend(t, "finalize_gather")  BY <2>1, <2>2, <2>3 DEF Suspend, Frame
  <2>4. CASE Complete(t)  BY <2>1, <2>2, <2>4 DEF Complete, Frame
  <2>5. QED  BY <2>1, <2>3, <2>4
<1>4. CASE \E at : MoveStep(t, at)
  <2>1. PICK at : MoveStep(t, at)  BY <1>4
  <2>2. /\ DOMAIN pending' = DOMAIN pending /\ pending'[t].at = at /\ at # "scattering"
        /\ \A z \in DOMAIN pending' : z # t => pending'[z] = pending[z]
        /\ UNCHANGED <<dsl, edges, queue, task_exceptions, stream_exceptions, task_streams,
                       open_streams, completed_tasks, loop>>
    BY <2>1 DEF MoveStep, Suspend, graph, excs, scopes
  <2>3. QED  BY <2>2 DEF Frame
<1>5. QED  BY <1>1, <1>2, <1>3, <1>4

LEMMA QuietTokens ==
  ASSUME Scoped, ScopeInv, TokenInv, NEW t \in DOMAIN pending,
         DropStep(t) \/ EndStep(t) \/ CloseStep(t) \/ \E at : MoveStep(t, at)
  PROVE  TokenInv'
<1>1. /\ Frame(t) /\ UNCHANGED <<dsl, edges, queue, stream_exceptions, task_streams>>
      /\ t \in DOMAIN pending' => pending'[t].at # "scattering"
  BY QuietFrame
<1>2. InScope(t) /\ t \in DOMAIN task_streams' => HoldsOwn(t)
  <2> SUFFICES ASSUME InScope(t), t \in DOMAIN task_streams PROVE HoldsOwn(t)  BY <1>1
  <2>1. pending[t].at = "scattering"  BY Parts DEF ScattersKnown
  <2>2. Reached(t)  BY <2>1 DEF TokenInv, PhasesReached, InScope, Execution
  <2>3. t \notin completed_tasks  BY Parts DEF Counted, RunsOnce
  <2>4. QED  BY <2>2, <2>3 DEF HoldsOwn
<1>3. TokensUnique' /\ FailedIdle'  BY <1>1, <1>2, TokenKept
<1>4. PhasesReached'
  <2> SUFFICES ASSUME t \in DOMAIN pending', t.stream # ROOT_STREAM,
                      pending'[t].at \in {"run_if", "execute", "scatter_input", "gather_item"}
               PROVE  Reached(t)
    BY <1>1, PhasesReachedStay
  <2>1. PICK at : MoveStep(t, at)
    BY DEF DropStep, EndStep, CloseStep, CloseStream, Complete, Suspend
  <2>2. at = pending'[t].at  BY <2>1 DEF MoveStep, Suspend
  <2>3. Live(t) /\ ~ Closing(t)  BY <2>1, <2>2 DEF MoveStep
  <2>4. QED  BY <2>3, LiveReached DEF TokenInv
<1>5. FailedMade'  BY <1>1, FailedMadeStays DEF Frame
<1>6. QED  BY <1>3, <1>4, <1>5 DEF TokenInv

LEMMA LoopTokens ==
  ASSUME Scoped, ScopeInv, TokenInv, LoopFrame
  PROVE  TokenInv'
<1>1. UNCHANGED <<dsl, edges, completed_tasks, task_exceptions, task_streams, stream_exceptions>>
  BY DEF LoopFrame
<1>2. ASSUME NEW z  PROVE Reached(z)' <=> Reached(z)
  BY <1>1, SameScopes DEF Reached, Marker
<1>3. ASSUME NEW z  PROVE Holder(z)' <=> Holder(z)
  <2>1. ASSUME NEW g  PROVE Undecided(TaskOf(g, z.stream))' <=> Undecided(TaskOf(g, z.stream))
    BY <1>1, SameScopes DEF Undecided, TaskOf
  <2>2. HoldsBelow(z)' <=> HoldsBelow(z)  BY <1>1, <2>1, SameScopes DEF HoldsBelow
  <2>3. HoldsOwn(z)' <=> HoldsOwn(z)  BY <1>1, <1>2 DEF HoldsOwn
  <2>4. QED  BY <1>1, <2>2, <2>3, SameScopes DEF Holder
<1>4. TokensUnique' /\ FailedIdle'
  BY <1>1, <1>3, SameScopes DEF TokenInv, TokensUnique, FailedIdle
<1>5. FailedMade'
  BY <1>1, FailedMadeStays
<1>6. PhasesReached'
  <2> SUFFICES ASSUME NEW z \in DOMAIN pending', z.stream # ROOT_STREAM,
                      pending'[z].at \in {"run_if", "execute", "scatter_input", "scattering", "gather_item"}
               PROVE  Reached(z)'
    BY DEF PhasesReached, ROOT_STREAM
  <2>1. z \in DOMAIN pending /\ pending'[z] = pending[z]  BY DEF LoopFrame
  <2>2. QED  BY <1>2, <2>1 DEF TokenInv, PhasesReached
<1>7. QED  BY <1>4, <1>5, <1>6 DEF TokenInv

-----------------------------------------------------------------------------
(***************************************************************************)
(* The slots of a gather.                                                  *)
(***************************************************************************)
\* The gather of a scatter in the parent stream is the counterpart of the
\* gathers below of that scatter only.
LEMMA OneCounterpart ==
  ASSUME Scoped, ScopeInv, NEW t \in DOMAIN pending, dsl.kind[t.ref] = "gather",
         t.stream # ROOT_STREAM, ParentScatter(t) \in DOMAIN open_streams,
         NEW p \in Task, NEW g \in Gathers(p.ref), TaskOf(g, p.stream) = ParentGather(t)
  PROVE  p = ParentScatter(t) /\ g = t.ref
<1>1. t \in Started  BY DEF Started
<1>2. Scope(dsl)[t.ref] = {LeafRef(t.stream)}  BY <1>1, Parts, GatherBelow
<1>3. g = t.ref /\ p.stream = Parent(t.stream)  BY DEF ParentGather, TaskOf
<1>4. p.ref = LeafRef(t.stream)  BY <1>2, <1>3 DEF Gathers
<1>5. QED  BY <1>3, <1>4 DEF ParentScatter, TaskOf, Task

\* A task in the tables of open streams has made all its streams.
LEMMA OpenFixed ==
  ASSUME ScopeInv, NEW t \in DOMAIN pending, Frame(t), NEW p \in DOMAIN open_streams
  PROVE  /\ p # t /\ p \in Task /\ p \in DOMAIN task_streams /\ task_streams'[p] = task_streams[p]
         /\ p \in DOMAIN open_streams' /\ task_streams[p] \in Nat
<1>1. p \in completed_tasks /\ p \in DOMAIN task_streams /\ p \in Task /\ t \notin DOMAIN open_streams
      /\ task_streams[p] \in Nat
  BY Parts, RunningEntries DEF ScattersKnown, TypeOK
<1>2. QED  BY <1>1 DEF Frame

\* A gather that nobody finalizes any more.
LEMMA PastStays ==
  ASSUME ScopeInv, NEW t \in DOMAIN pending, Frame(t), NEW p, NEW g, Past(p, g),
         t \in DOMAIN pending' /\ Finalizing(t)' /\ t.ref = g /\ ParentScatter(t) = p => Finalizing(t)
  PROVE  Past(p, g)'
<1>1. ASSUME NEW u \in DOMAIN pending', Finalizing(u)', u.ref = g, ParentScatter(u) = p  PROVE FALSE
  <2>1. u \in DOMAIN pending /\ (u # t => Finalizing(u))  BY <1>1 DEF Frame, Finalizing
  <2>2. Finalizing(u)  BY <1>1, <2>1
  <2>3. QED  BY <1>1, <2>1, <2>2 DEF Past
<1>2. ASSUME NEW u  PROVE ParentScatter(u)' = ParentScatter(u)
  BY DEF ParentScatter, TaskOf, LeafRef, Parent
<1>3. CASE loop \in {"stopping", "returned"}
  <2>1. loop' \in {"stopping", "returned"}  BY <1>3 DEF Frame
  <2>2. QED  BY <1>1, <1>2, <2>1 DEF Past
<1>4. CASE /\ p \in DOMAIN open_streams
           /\ \A j \in 0 .. task_streams[p] - 1 : TaskOf(g, Sub(p, j)) \in completed_tasks
  <2>1. p \in DOMAIN open_streams' /\ task_streams'[p] = task_streams[p]  BY <1>4, OpenFixed
  <2>2. completed_tasks \subseteq completed_tasks'  BY DEF Frame
  <2>3. \A j \in 0 .. task_streams'[p] - 1 : TaskOf(g, Sub(p, j)) \in completed_tasks'
    BY <1>4, <2>1, <2>2
  <2>4. QED  BY <1>1, <1>2, <2>1, <2>3 DEF Past, TaskOf, Sub, Child
<1>5. QED  BY <1>3, <1>4 DEF Past

\* The gather of a stream ends without closing it, or after it was finalized.
LEMMA GatherDropped ==
  ASSUME Scoped, ScopeInv, NEW t \in DOMAIN pending, Frame(t), t \notin DOMAIN pending',
         NEW p \in DOMAIN task_streams, NEW g \in Gathers(p.ref), NEW i \in 0 .. task_streams[p] - 1,
         t = TaskOf(g, Sub(p, i)), loop = "stopping" \/ Finalizing(t)
  PROVE  Past(p, g)'
<1>1. p \in Task /\ task_streams[p] \in Nat /\ i \in Int /\ i # SKIP /\ t \notin completed_tasks
  BY Parts DEF TypeOK, SKIP, Counted, RunsOnce
<1>2. t.ref = g /\ t.stream = Sub(p, i) /\ ParentScatter(t) = p
  BY <1>1, Parts, SubGather
<1>3. ASSUME NEW u \in DOMAIN pending, Finalizing(u), u.ref = g, ParentScatter(u) = p,
             NEW j \in 0 .. task_streams[p] - 1
      PROVE  TaskOf(g, Sub(p, j)) \in completed_tasks \union {u}
  <2>1. p.ref = LeafRef(u.stream) /\ p.stream = Parent(u.stream)
    BY <1>3 DEF ParentScatter, TaskOf
  <2>2. QED  BY <1>3, <2>1, BarrierHolds DEF GatherBarrier, Finalizing, Sub
<1>4. ASSUME NEW u \in DOMAIN pending', Finalizing(u)', u.ref = g, ParentScatter(u) = p  PROVE FALSE
  <2>1. u \in DOMAIN pending /\ u # t /\ Finalizing(u)  BY <1>4 DEF Frame, Finalizing
  <2>2. t \in completed_tasks \union {u}  BY <1>3, <1>4, <2>1
  <2>3. QED  BY <1>1, <2>1, <2>2
<1>5. ASSUME NEW u  PROVE ParentScatter(u)' = ParentScatter(u)
  BY DEF ParentScatter, TaskOf, LeafRef, Parent
<1>6. CASE loop = "stopping"
  <2>1. loop' = "stopping"  BY <1>6 DEF Frame
  <2>2. QED  BY <1>4, <1>5, <2>1 DEF Past
<1>7. CASE Finalizing(t)
  <2>1. p \in DOMAIN open_streams  BY <1>2, <1>7, ClosingParts DEF Closing
  <2>2. p \in DOMAIN open_streams' /\ task_streams'[p] = task_streams[p]  BY <2>1, OpenFixed
  <2>3. completed_tasks' = completed_tasks \union {t}  BY DEF Frame
  <2>4. \A j \in 0 .. task_streams'[p] - 1 : TaskOf(g, Sub(p, j)) \in completed_tasks'
    BY <1>2, <1>3, <1>7, <2>2, <2>3
  <2>5. QED  BY <1>4, <1>5, <2>2, <2>4 DEF Past, TaskOf, Sub, Child
<1>8. QED  BY <1>6, <1>7

\* The slots of a step that does not write any.
LEMMA ShapedStays ==
  ASSUME ScopeInv, SlotsShaped, NEW t \in DOMAIN pending, Frame(t), results' = results
  PROVE  SlotsShaped'
<1>1. dsl' = dsl /\ Task' = Task  BY SameScopes DEF Frame
<1> SUFFICES ASSUME NEW p \in Task, NEW g \in Gathers(p.ref), TaskOf(g, p.stream) \in DOMAIN results
             PROVE  /\ p \in DOMAIN open_streams'
                    /\ DOMAIN results[TaskOf(g, p.stream)] = 0 .. task_streams'[p] - 1
  BY <1>1, SameScopes DEF SlotsShaped, TaskOf
<1>2. p \in DOMAIN open_streams /\ DOMAIN results[TaskOf(g, p.stream)] = 0 .. task_streams[p] - 1
  BY DEF SlotsShaped
<1>3. QED  BY <1>2, OpenFixed

\* What a step must do for the errors to stay in their slots.
LEMMA SlotsKept ==
  ASSUME Scoped, ScopeInv, SlotsHold, NEW t \in DOMAIN pending, Frame(t),
         \A p \in DOMAIN task_streams : \A g \in Gathers(p.ref) : \A i \in 0 .. task_streams[p] - 1 :
           Sub(p, i) \in stream_exceptions /\ ErrorSlot(p, g, i) => ErrorSlot(p, g, i)',
         \A p \in DOMAIN task_streams : \A g \in Gathers(p.ref) :
           Past(p, g) /\ t \in DOMAIN pending' /\ Finalizing(t)' /\ t.ref = g /\ ParentScatter(t) = p =>
             Finalizing(t),
         \A p \in DOMAIN task_streams' : \A g \in Gathers(p.ref) : \A i \in 0 .. task_streams'[p] - 1 :
           Sub(p, i) \in stream_exceptions' /\ Closed(TaskOf(g, Sub(p, i)))' =>
             \/ /\ p \in DOMAIN task_streams /\ i \in 0 .. task_streams[p] - 1
                /\ Sub(p, i) \in stream_exceptions /\ Closed(TaskOf(g, Sub(p, i)))
             \/ ErrorSlot(p, g, i)'
             \/ ~ Calm' /\ Past(p, g)'
  PROVE  SlotsHold'
<1>1. dsl' = dsl /\ (~ Calm => ~ Calm')  BY DEF Frame, Calm
<1> SUFFICES ASSUME NEW p \in DOMAIN task_streams', NEW g \in Gathers(p.ref),
                    NEW i \in 0 .. task_streams'[p] - 1,
                    Sub(p, i) \in stream_exceptions', Closed(TaskOf(g, Sub(p, i)))'
             PROVE  ErrorSlot(p, g, i)' \/ (~ Calm' /\ Past(p, g)')
  BY <1>1, SameScopes DEF SlotsHold, Sub, Child, TaskOf
<1>2. CASE /\ p \in DOMAIN task_streams /\ i \in 0 .. task_streams[p] - 1
           /\ Sub(p, i) \in stream_exceptions /\ Closed(TaskOf(g, Sub(p, i)))
  <2>1. CASE ErrorSlot(p, g, i)  BY <1>2, <2>1
  <2>2. CASE ~ Calm /\ Past(p, g)
    <3>1. Past(p, g)'  BY <1>2, <2>2, PastStays
    <3>2. QED  BY <1>1, <2>2, <3>1
  <2>3. QED  BY <1>2, <2>1, <2>2 DEF SlotsHold
<1>3. QED  BY <1>2

\* What it must do for the errors to be raised.
LEMMA RaisesKept ==
  ASSUME ScopeInv, Raises, NEW t \in DOMAIN pending, Frame(t),
         Calm' => \A p \in DOMAIN open_streams' : \A g \in Gathers(p.ref) :
           \A i \in 0 .. task_streams'[p] - 1 :
             g \in dsl.raises /\ open_streams'[p] = 0 /\ ErrorSlot(p, g, i)' =>
               \/ /\ p \in DOMAIN open_streams /\ open_streams[p] = 0 /\ ErrorSlot(p, g, i)
                  /\ /\ pending[t].at = "finalize_gather" /\ ParentScatter(t) = p /\ t.ref = g
                     => t \in DOMAIN pending' /\ pending'[t].at = "finalize_gather"
               \/ /\ t \in DOMAIN pending' /\ pending'[t].at = "finalize_gather"
                  /\ ParentScatter(t) = p /\ t.ref = g
  PROVE  Raises'
<1>1. dsl' = dsl /\ (Calm' => Calm)  BY DEF Frame, Calm
<1>2. ASSUME NEW u  PROVE ParentScatter(u)' = ParentScatter(u)
  BY DEF ParentScatter, TaskOf, LeafRef, Parent
<1> SUFFICES ASSUME Calm', NEW p \in DOMAIN open_streams', NEW g \in Gathers(p.ref),
                    open_streams'[p] = 0, g \in dsl.raises,
                    NEW i \in 0 .. task_streams'[p] - 1, ErrorSlot(p, g, i)'
             PROVE  \E u \in DOMAIN pending' :
                      pending'[u].at = "finalize_gather" /\ ParentScatter(u) = p /\ u.ref = g
  BY <1>1, <1>2, SameScopes DEF Raises, TaskOf
<1>3. CASE /\ p \in DOMAIN open_streams /\ open_streams[p] = 0 /\ ErrorSlot(p, g, i)
           /\ /\ pending[t].at = "finalize_gather" /\ ParentScatter(t) = p /\ t.ref = g
              => t \in DOMAIN pending' /\ pending'[t].at = "finalize_gather"
  <2>1. i \in 0 .. task_streams[p] - 1  BY <1>3, OpenFixed
  <2>2. PICK u \in DOMAIN pending :
          pending[u].at = "finalize_gather" /\ ParentScatter(u) = p /\ u.ref = g
    BY <1>1, <1>3, <2>1 DEF Raises
  <2>3. u # t => u \in DOMAIN pending' /\ pending'[u] = pending[u]  BY DEF Frame
  <2>4. QED  BY <1>3, <2>2, <2>3
<1>4. QED  BY <1>3

\* A gather that is closed after a step of another task was closed before it.
LEMMA ClosedBefore ==
  ASSUME NEW t \in DOMAIN pending, Frame(t), NEW v, v # t, Closed(v)'
  PROVE  Closed(v)
BY DEF Frame, Closed, Finalizing

\* The slots after a step that writes none.
LEMMA SameSlots ==
  ASSUME results' = results
  PROVE  \A p, g, i : ErrorSlot(p, g, i)' <=> ErrorSlot(p, g, i)
BY DEF ErrorSlot, TaskOf

\* A gather that finalizes is one of an execution stream.
LEMMA FinalizingParts ==
  ASSUME Scoped, ScopeInv, NEW t \in DOMAIN pending, Finalizing(t)
  PROVE  dsl.kind[t.ref] = "gather" /\ Execution(t.stream) /\ Closing(t)
BY Parts DEF PhasesFit, PhaseFit, Closing, Execution

LEMMA OwnSlots ==
  ASSUME Gathered, ScopeInv, ErrInv, NEW t \in DOMAIN pending, NEW u, OwnStep(t, u)
  PROVE  SlotInv'
<1>1. Scoped /\ NoDeadEnds(dsl)  BY Parts DEF Gathered, TypeOK
<1>2. /\ Frame(t) /\ t \notin DOMAIN pending' /\ results' = results
      /\ task_streams' = task_streams /\ open_streams' = open_streams
  BY <1>1, OwnEmission DEF Emission, OwnStep
<1>3. SlotsShaped'  BY <1>2, ShapedStays DEF ErrInv, SlotInv
<1>4. dsl.kind[t.ref] = "gather" /\ Execution(t.stream) =>
        (loop = "stopping" \/ Finalizing(t)) /\ ~ Calm'
  BY DEF OwnStep, Dead, Execution
<1>5. \A p, g, i : ErrorSlot(p, g, i)' <=> ErrorSlot(p, g, i)  BY <1>2, SameSlots
<1>6. ASSUME NEW p \in DOMAIN task_streams, NEW g \in Gathers(p.ref), NEW i \in 0 .. task_streams[p] - 1,
             Sub(p, i) \in stream_exceptions', Closed(TaskOf(g, Sub(p, i)))'
      PROVE  \/ Sub(p, i) \in stream_exceptions /\ Closed(TaskOf(g, Sub(p, i)))
             \/ ~ Calm' /\ Past(p, g)'
  <2> DEFINE v == TaskOf(g, Sub(p, i))
  <2>1. p \in Task /\ task_streams[p] \in Nat /\ i \in Int /\ i # SKIP
    BY Parts DEF TypeOK, SKIP
  <2>2. /\ v \in Task /\ v.stream = Sub(p, i) /\ v.ref = g /\ dsl.kind[g] = "gather"
        /\ InScope(v) /\ Execution(v.stream)
    BY <1>1, <2>1, Parts, SubGather DEF InScope
  <2>3. CASE v = t
    <3>1. (loop = "stopping" \/ Finalizing(t)) /\ ~ Calm'  BY <1>4, <2>2, <2>3
    <3>2. Past(p, g)'  BY <1>1, <1>2, <2>3, <3>1, GatherDropped
    <3>3. QED  BY <3>1, <3>2
  <2>4. CASE v # t
    <3>1. Closed(v)  BY <1>2, <1>6, <2>4, ClosedBefore
    <3>2. v \in Started  BY <3>1 DEF Closed, Finalizing, Started
    <3>3. SUFFICES ASSUME Sub(p, i) \notin stream_exceptions PROVE FALSE  BY <3>1
    <3>4. Live(t) /\ t.stream = v.stream  BY <1>6, <2>2, <3>3 DEF OwnStep, Outcome
    <3>5. CASE Closing(t)
      <4>1. dsl.kind[t.ref] = "gather" /\ Scope(dsl)[t.ref] = {p.ref}
        BY <1>1, <2>1, <2>2, <3>4, <3>5, ClosingParts, SubParts
      <4>2. t \in Task /\ t.ref \in dsl.refs  BY Parts DEF TypeOK, Task
      <4>3. t.ref \in Gathers(p.ref)  BY <4>1, <4>2 DEF Gathers
      <4>4. t.ref = g  BY <1>1, <4>3, Parts, OneGather
      <4>5. QED  BY <2>2, <2>4, <3>4, <4>2, <4>4 DEF Task
    <3>6. CASE ~ Closing(t)
      <4>1. Holder(t) /\ t \in Task
        BY <1>1, <2>2, <3>4, <3>6, LiveHolds DEF ErrInv, TokenInv
      <4>2. QED  BY <1>1, <2>2, <2>4, <3>2, <3>4, <4>1, GatherQuiet
    <3>7. QED  BY <3>5, <3>6
  <2>5. QED  BY <2>3, <2>4
<1>7. SlotsHold'
  BY <1>1, <1>2, <1>5, <1>6, SlotsKept DEF ErrInv, SlotInv
<1>8. Raises'
  <2>1. Calm' => pending[t].at # "finalize_gather"
    BY <1>1, <1>4, FinalizingParts DEF Finalizing
  <2>2. QED  BY <1>2, <1>5, <2>1, RaisesKept DEF ErrInv, SlotInv
<1>9. QED  BY <1>3, <1>7, <1>8 DEF SlotInv

LEMMA DropSlots ==
  ASSUME Scoped, ScopeInv, ErrInv, NEW t \in DOMAIN pending, DropStep(t)
  PROVE  SlotInv'
<1>1. /\ Frame(t) /\ stream_exceptions' = stream_exceptions /\ task_streams' = task_streams
      /\ results' = results /\ t \notin DOMAIN pending' /\ ~ Calm'
      /\ loop = "stopping" \/ t.stream = ROOT_STREAM
  BY QuietFrame DEF DropStep, scopes, Complete
<1>2. SlotsShaped'  BY <1>1, ShapedStays DEF ErrInv, SlotInv
<1>3. \A p, g, i : ErrorSlot(p, g, i)' <=> ErrorSlot(p, g, i)  BY <1>1, SameSlots
<1>4. ASSUME NEW p \in DOMAIN task_streams, NEW g \in Gathers(p.ref), NEW i \in 0 .. task_streams[p] - 1,
             Closed(TaskOf(g, Sub(p, i)))'
      PROVE  Closed(TaskOf(g, Sub(p, i))) \/ Past(p, g)'
  <2>1. p \in Task /\ task_streams[p] \in Nat /\ i \in Int  BY Parts DEF TypeOK
  <2>2. TaskOf(g, Sub(p, i)).stream # ROOT_STREAM  BY <2>1, SubParts DEF TaskOf
  <2>3. CASE TaskOf(g, Sub(p, i)) = t
    <3>1. loop = "stopping"  BY <1>1, <2>2, <2>3
    <3>2. QED  BY <1>1, <2>3, <3>1, GatherDropped
  <2>4. CASE TaskOf(g, Sub(p, i)) # t  BY <1>1, <1>4, <2>4, ClosedBefore
  <2>5. QED  BY <2>3, <2>4
<1>5. SlotsHold'  BY <1>1, <1>3, <1>4, SlotsKept DEF ErrInv, SlotInv
<1>6. Raises'  BY <1>1 DEF Raises
<1>7. QED  BY <1>2, <1>5, <1>6 DEF SlotInv

\* The steps of a scatter: nothing has failed in the stream it makes, and no
\* slot is written before a stream is closed.
LEMMA ScatterSlots ==
  ASSUME Scoped, ScopeInv, ErrInv, NEW t \in DOMAIN pending, Frame(t), dsl.kind[t.ref] = "scatter",
         UNCHANGED <<results, stream_exceptions>>, ~ Finalizing(t)',
         \A p \in DOMAIN open_streams : open_streams'[p] = open_streams[p],
         t \in DOMAIN open_streams' => open_streams'[t] = task_streams'[t],
         t \in DOMAIN task_streams' => \A i \in 0 .. task_streams'[t] - 1 :
           \/ t \in DOMAIN task_streams /\ i \in 0 .. task_streams[t] - 1
           \/ Sub(t, i) \notin stream_exceptions
  PROVE  SlotInv'
<1>1. SlotsShaped'  BY ShapedStays DEF ErrInv, SlotInv
<1>2. \A p, g, i : ErrorSlot(p, g, i)' <=> ErrorSlot(p, g, i)  BY SameSlots
<1>3. ASSUME NEW p \in DOMAIN task_streams', NEW g \in Gathers(p.ref), NEW i \in 0 .. task_streams'[p] - 1,
             Sub(p, i) \in stream_exceptions', Closed(TaskOf(g, Sub(p, i)))'
      PROVE  /\ p \in DOMAIN task_streams /\ i \in 0 .. task_streams[p] - 1
             /\ Sub(p, i) \in stream_exceptions /\ Closed(TaskOf(g, Sub(p, i)))
  <2>1. p \in DOMAIN task_streams /\ i \in 0 .. task_streams[p] - 1
    BY <1>3 DEF Frame
  <2>2. TaskOf(g, Sub(p, i)) # t  BY DEF TaskOf, Gathers
  <2>3. QED  BY <1>3, <2>1, <2>2, ClosedBefore
<1>4. SlotsHold'  BY <1>2, <1>3, SlotsKept DEF ErrInv, SlotInv
<1>5. Raises'
  <2>1. pending[t].at # "finalize_gather"  BY FinalizingParts DEF Finalizing
  <2>2. ASSUME NEW p \in DOMAIN open_streams', NEW i \in 0 .. task_streams'[p] - 1, open_streams'[p] = 0
        PROVE  p \in DOMAIN open_streams /\ open_streams[p] = 0
    <3>1. CASE p = t  BY <2>2, <3>1
    <3>2. CASE p # t  BY <2>2, <3>2 DEF Frame
    <3>3. QED  BY <3>1, <3>2
  <2>3. QED  BY <1>2, <2>1, <2>2, RaisesKept DEF ErrInv, SlotInv
<1>6. QED  BY <1>1, <1>4, <1>5 DEF SlotInv

LEMMA SkipSlots ==
  ASSUME Scoped, ScopeInv, ErrInv, NEW t \in DOMAIN pending, SkipStep(t) \/ EmptyStep(t)
  PROVE  SlotInv'
<1>1. /\ Emission(t, Below(t, SKIP), OutEdges(Below(t, SKIP)))
      /\ t \notin DOMAIN pending' /\ t \notin DOMAIN open_streams
  BY SkipEmission, RunningEntries
<1>2. Frame(t) /\ \A p \in DOMAIN open_streams : open_streams'[p] = open_streams[p]
  BY <1>1 DEF Emission
<1>3. UNCHANGED <<results, stream_exceptions>> /\ dsl.kind[t.ref] = "scatter"
      /\ t \notin DOMAIN task_streams
  BY DEF SkipStep, EmptyStep, scopes, excs
<1>4. ~ Finalizing(t)'  BY <1>1 DEF Finalizing
<1>5. CASE SkipStep(t)
  <2>1. t \notin DOMAIN open_streams' /\ t \notin DOMAIN task_streams'
    BY <1>1, <1>3, <1>5 DEF SkipStep, scopes
  <2>2. QED  BY <1>2, <1>3, <1>4, <2>1, ScatterSlots
<1>6. CASE EmptyStep(t)
  <2>1. open_streams'[t] = 0 /\ task_streams'[t] = 0  BY <1>6 DEF EmptyStep, SetOpenStreams
  <2>2. QED  BY <1>2, <1>3, <1>4, <2>1, ScatterSlots
<1>7. QED  BY <1>5, <1>6

LEMMA MakeSlots ==
  ASSUME Scoped, ScopeInv, ErrInv, NEW t \in DOMAIN pending, NEW k \in Nat, MakeStep(t, k)
  PROVE  SlotInv'
<1>1. /\ Emission(t, Below(t, k), {}) /\ pending'[t].at = "scattering"
      /\ t \in Task /\ open_streams' = open_streams /\ t \notin DOMAIN open_streams
  BY MakeEmission, RunningEntries
<1>2. Frame(t)  BY <1>1 DEF Emission
<1>3. UNCHANGED <<results, stream_exceptions>> /\ dsl.kind[t.ref] = "scatter"
      /\ task_streams' = [x \in DOMAIN task_streams \union {t} |-> IF x = t THEN k + 1 ELSE task_streams[x]]
  BY DEF MakeStep, CreateStream, excs
<1>4. ~ Finalizing(t)'  BY <1>1 DEF Finalizing
<1>5. Sub(t, k) \notin stream_exceptions
  <2>1. Fresh(t, k)  BY DEF Fresh, MakeStep
  <2>2. \A e \in DOMAIN edges : e.stream # Below(t, k).stream  BY <2>1, BelowUndecided
  <2>3. Below(t, k).stream = Sub(t, k)  BY <1>1, BelowParts DEF Sub
  <2>4. QED  BY <2>2, <2>3 DEF ErrInv, TokenInv, FailedMade
<1>6. ASSUME NEW i \in 0 .. task_streams'[t] - 1
      PROVE  (t \in DOMAIN task_streams /\ i \in 0 .. task_streams[t] - 1) \/ Sub(t, i) \notin stream_exceptions
  <2>1. i \in 0 .. k  BY <1>3
  <2>2. CASE i = k  BY <1>5, <2>2
  <2>3. CASE i # k
    <3>1. t \in DOMAIN task_streams /\ k = task_streams[t]  BY <2>1, <2>3 DEF MakeStep
    <3>2. QED  BY <2>1, <2>3, <3>1
  <2>4. QED  BY <2>2, <2>3
<1>7. QED  BY <1>1, <1>2, <1>3, <1>4, <1>6, ScatterSlots

LEMMA EndSlots ==
  ASSUME Scoped, ScopeInv, ErrInv, NEW t \in DOMAIN pending, EndStep(t)
  PROVE  SlotInv'
<1>1. Frame(t) /\ UNCHANGED <<results, stream_exceptions, task_streams>>
  BY QuietFrame DEF EndStep
<1>2. /\ t \notin DOMAIN pending' /\ open_streams'[t] = task_streams[t]
      /\ \A p \in DOMAIN open_streams : p # t => open_streams'[p] = open_streams[p]
  BY DEF EndStep, Complete, SetOpenStreams
<1>3. t \notin DOMAIN open_streams /\ dsl.kind[t.ref] = "scatter"
  BY RunningEntries, Parts DEF EndStep, Scattering, PhasesFit, PhaseFit
<1>4. ~ Finalizing(t)'  BY <1>2 DEF Finalizing
<1>5. QED  BY <1>1, <1>2, <1>3, <1>4, ScatterSlots

\* What closing a stream writes.
LEMMA SlotWritten ==
  ASSUME Scoped, ScopeInv, SlotsShaped, NEW t \in DOMAIN pending, CloseStep(t), NEW v, SetSlot(t, v)
  PROVE  LET p == ParentScatter(t)
             x == ParentGather(t)
             k == LeafIndex(t.stream)
         IN  /\ DOMAIN results' = DOMAIN results \union {x}
             /\ DOMAIN results'[x] = 0 .. task_streams[p] - 1
             /\ results'[x][k] = v
             /\ x \in DOMAIN results => \A i \in 0 .. task_streams[p] - 1 : i # k => results'[x][i] = results[x][i]
             /\ \A y \in DOMAIN results : y # x => results'[y] = results[y]
<1> DEFINE p == ParentScatter(t)
           x == ParentGather(t)
           k == LeafIndex(t.stream)
           n == task_streams[p]
           slots == IF x \in DOMAIN results THEN results[x] ELSE [i \in 0 .. n - 1 |-> "unset"]
<1>1. p \in DOMAIN task_streams /\ k \in Unclosed(p) /\ t.ref \in dsl.refs /\ Scope(dsl)[t.ref] = {p.ref}
  BY CloseUnclosed
<1>2. p \in Task /\ dsl.kind[t.ref] = "gather" /\ k \in 0 .. n - 1
  BY <1>1, Parts DEF CloseStep, Unclosed, TypeOK
<1>3. t.ref \in Gathers(p.ref) /\ x = TaskOf(t.ref, p.stream)
  BY <1>1, <1>2 DEF Gathers, ParentGather, ParentScatter, TaskOf
<1>4. DOMAIN slots = 0 .. n - 1  BY <1>2, <1>3 DEF SlotsShaped
<1>5. results' = [y \in DOMAIN results \union {x} |->
                    IF y = x THEN [slots EXCEPT ![k] = v] ELSE results[y]]
  BY DEF SetSlot
<1>6. results'[x] = [slots EXCEPT ![k] = v]  BY <1>5
<1>7. DOMAIN results'[x] = 0 .. n - 1 /\ results'[x][k] = v  BY <1>2, <1>4, <1>6
<1>8. ASSUME x \in DOMAIN results, NEW i \in 0 .. n - 1, i # k  PROVE results'[x][i] = results[x][i]
  <2>1. slots = results[x]  BY <1>8
  <2>2. QED  BY <1>4, <1>6, <1>8, <2>1
<1>9. QED  BY <1>5, <1>7, <1>8

LEMMA CloseSlots ==
  ASSUME Scoped, ScopeInv, ErrInv, NEW t \in DOMAIN pending, CloseStep(t)
  PROVE  SlotInv'
<1> DEFINE p == ParentScatter(t)
           x == ParentGather(t)
           k == LeafIndex(t.stream)
<1>1. /\ Frame(t) /\ UNCHANGED <<dsl, stream_exceptions, task_streams>>
  BY QuietFrame
<1>2. /\ dsl.kind[t.ref] = "gather" /\ t.stream # ROOT_STREAM /\ Execution(t.stream)
      /\ ~ Closing(t) /\ loop # "stopping" /\ p \in DOMAIN open_streams
      /\ open_streams' = [open_streams EXCEPT ![p] = @ - 1]
      /\ open_streams[p] = 1 => Suspend(t, "finalize_gather")
  BY DEF CloseStep, CloseStream, LastToClose, Execution
<1>3. /\ p \in DOMAIN task_streams /\ k \in 0 .. task_streams[p] - 1 /\ t.ref \in dsl.refs
      /\ Scope(dsl)[t.ref] = {p.ref} /\ t = TaskOf(t.ref, Sub(p, k))
      /\ open_streams[p] >= 1 /\ open_streams[p] \in Int /\ task_streams[p] \in Nat /\ p \in Task
  BY <1>2, CloseUnclosed, Parts DEF Unclosed, Sub, TypeOK
<1>4. t.stream = Sub(p, k) /\ t.ref \in Gathers(p.ref) /\ x = TaskOf(t.ref, p.stream)
      /\ t \notin completed_tasks /\ t \in Task
  BY <1>2, <1>3, Parts DEF Gathers, ParentGather, ParentScatter, TaskOf, Counted, RunsOnce, TypeOK
<1>5. ASSUME NEW q \in Task, NEW g \in Gathers(q.ref), TaskOf(g, q.stream) = x
      PROVE  q = p /\ g = t.ref
  BY <1>2, <1>5, OneCounterpart
<1>6. pending[t].at = "gather_item" => t.stream \notin stream_exceptions
  <2> SUFFICES ASSUME pending[t].at = "gather_item" PROVE t.stream \notin stream_exceptions  OBVIOUS
  <2>1. Live(t)  BY DEF Live
  <2>2. Holder(t)  BY <1>2, <2>1, LiveHolds DEF ErrInv, TokenInv
  <2>3. QED  BY <1>4, <2>2 DEF ErrInv, TokenInv, FailedIdle
<1>7. \/ results' = results /\ t.stream \notin stream_exceptions
      \/ \E v : SetSlot(t, v) /\ (t.stream \in stream_exceptions => v = "error")
  BY <1>6 DEF CloseStep, SetErrorSlot
<1>8. SlotsShaped /\ SlotsHold /\ Raises  BY DEF ErrInv, SlotInv
<1>9. \/ results' = results /\ t.stream \notin stream_exceptions
      \/ /\ DOMAIN results' = DOMAIN results \union {x}
         /\ DOMAIN results'[x] = 0 .. task_streams[p] - 1
         /\ t.stream \in stream_exceptions => results'[x][k] = "error"
         /\ x \in DOMAIN results => \A i \in 0 .. task_streams[p] - 1 : i # k => results'[x][i] = results[x][i]
         /\ \A y \in DOMAIN results : y # x => results'[y] = results[y]
  <2>1. CASE results' = results /\ t.stream \notin stream_exceptions  BY <2>1
  <2>2. CASE \E v : SetSlot(t, v) /\ (t.stream \in stream_exceptions => v = "error")
    <3>1. PICK v : SetSlot(t, v) /\ (t.stream \in stream_exceptions => v = "error")  BY <2>2
    <3>2. QED  BY <1>8, <3>1, SlotWritten
  <2>3. QED  BY <1>7, <2>1, <2>2
<1> HIDE DEF p, x, k
<1>10. SlotsShaped'
  <2>1. CASE results' = results  BY <1>1, <1>8, <2>1, ShapedStays
  <2>2. CASE /\ DOMAIN results' = DOMAIN results \union {x}
             /\ DOMAIN results'[x] = 0 .. task_streams[p] - 1
             /\ \A y \in DOMAIN results : y # x => results'[y] = results[y]
    <3> SUFFICES ASSUME NEW q \in Task, NEW g \in Gathers(q.ref), TaskOf(g, q.stream) \in DOMAIN results'
                 PROVE  /\ q \in DOMAIN open_streams'
                        /\ DOMAIN results'[TaskOf(g, q.stream)] = 0 .. task_streams'[q] - 1
      BY <1>1, SameScopes DEF SlotsShaped, TaskOf
    <3>1. CASE TaskOf(g, q.stream) = x
      BY <1>1, <1>2, <1>5, <2>2, <3>1
    <3>2. CASE TaskOf(g, q.stream) # x
      BY <1>1, <1>2, <1>8, <2>2, <3>2 DEF SlotsShaped
    <3>3. QED  BY <3>1, <3>2
  <2>3. QED  BY <1>9, <2>1, <2>2
<1>11. ASSUME NEW q \in DOMAIN task_streams, NEW g \in Gathers(q.ref), NEW i \in 0 .. task_streams[q] - 1,
              Sub(q, i) \in stream_exceptions, ErrorSlot(q, g, i)
       PROVE  ErrorSlot(q, g, i)'
  <2>1. q \in Task  BY Parts DEF TypeOK
  <2>2. CASE results' = results  BY <1>11, <2>2, SameSlots
  <2>3. CASE TaskOf(g, q.stream) # x
    BY <1>9, <1>11, <2>3 DEF ErrorSlot, TaskOf
  <2>4. CASE TaskOf(g, q.stream) = x /\ results' # results
    <3>1. q = p /\ g = t.ref  BY <1>5, <2>1, <2>4
    <3>2. CASE i = k  BY <1>4, <1>9, <1>11, <2>4, <3>1, <3>2 DEF ErrorSlot, TaskOf
    <3>3. CASE i # k  BY <1>9, <1>11, <2>4, <3>1, <3>3 DEF ErrorSlot, TaskOf
    <3>4. QED  BY <3>2, <3>3
  <2>5. QED  BY <2>2, <2>3, <2>4
<1>12. ~ Past(p, t.ref)
  <2>1. loop # "returned"  BY Parts DEF PhasesFit
  <2>2. QED  BY <1>2, <1>3, <1>4, <2>1 DEF Past
<1>13. ASSUME NEW q \in DOMAIN task_streams, NEW g \in Gathers(q.ref), NEW i \in 0 .. task_streams[q] - 1,
              Sub(q, i) \in stream_exceptions, Closed(TaskOf(g, Sub(q, i)))'
       PROVE  Closed(TaskOf(g, Sub(q, i))) \/ ErrorSlot(q, g, i)'
  <2>1. CASE TaskOf(g, Sub(q, i)) # t  BY <1>1, <1>13, <2>1, ClosedBefore
  <2>2. CASE TaskOf(g, Sub(q, i)) = t
    <3>1. q \in Task /\ task_streams[q] \in Nat /\ i \in Int /\ k \in Int  BY <1>3, Parts DEF TypeOK
    <3>2. g = t.ref /\ Sub(q, i) = Sub(p, k)  BY <1>4, <2>2 DEF TaskOf
    <3>3. q = p /\ i = k  BY <1>3, <3>1, <3>2, SubParts
    <3>4. x \in DOMAIN results' /\ results'[x][k] = "error"  BY <1>4, <1>9, <1>13, <3>3
    <3>5. QED  BY <1>4, <3>2, <3>3, <3>4 DEF ErrorSlot, TaskOf
  <2>3. QED  BY <2>1, <2>2
<1>14. SlotsHold'
  <2>1. \A q \in DOMAIN task_streams : \A g \in Gathers(q.ref) :
           Past(q, g) /\ t \in DOMAIN pending' /\ Finalizing(t)' /\ t.ref = g /\ ParentScatter(t) = q =>
             Finalizing(t)
    BY <1>12 DEF p
  <2>2. QED  BY <1>1, <1>8, <1>11, <1>13, <2>1, SlotsKept
<1>15. Raises'
  <2>1. pending[t].at # "finalize_gather"  BY <1>2 DEF Closing, Finalizing
  <2>2. ASSUME NEW q \in DOMAIN open_streams', NEW g \in Gathers(q.ref), NEW i \in 0 .. task_streams'[q] - 1,
               open_streams'[q] = 0, ErrorSlot(q, g, i)'
        PROVE  \/ q \in DOMAIN open_streams /\ open_streams[q] = 0 /\ ErrorSlot(q, g, i)
               \/ /\ t \in DOMAIN pending' /\ pending'[t].at = "finalize_gather"
                  /\ ParentScatter(t) = q /\ t.ref = g
    <3>1. q \in DOMAIN open_streams /\ q \in Task  BY <1>2, Parts DEF TypeOK
    <3>2. CASE q = p
      <4>1. open_streams[p] = 1  BY <1>2, <1>3, <2>2, <3>2
      <4>2. Suspend(t, "finalize_gather")  BY <1>2, <4>1
      <4>3. t \in DOMAIN pending' /\ pending'[t].at = "finalize_gather"  BY <4>2 DEF Suspend
      <4>4. g = t.ref  BY <1>4, <3>2, Parts, OneGather
      <4>5. QED  BY <3>2, <4>3, <4>4 DEF p
    <3>3. CASE q # p
      <4>1. open_streams[q] = 0  BY <1>2, <2>2, <3>1, <3>3
      <4>2. TaskOf(g, q.stream) # x  BY <1>5, <3>1, <3>3
      <4>3. ErrorSlot(q, g, i)  BY <1>9, <2>2, <4>2 DEF ErrorSlot, TaskOf
      <4>4. QED  BY <3>1, <4>1, <4>3
    <3>4. QED  BY <3>2, <3>3
  <2>3. QED  BY <1>1, <1>8, <2>1, <2>2, RaisesKept
<1>16. QED  BY <1>10, <1>14, <1>15 DEF SlotInv

LEMMA UpSlots ==
  ASSUME Scoped, ScopeInv, ErrInv, NEW t \in DOMAIN pending, UpStep(t)
  PROVE  SlotInv'
<1> DEFINE p == ParentScatter(t)
           x == ParentGather(t)
<1>1. /\ Frame(t) /\ t \notin DOMAIN pending'
      /\ UNCHANGED <<dsl, stream_exceptions, task_streams, open_streams>>
  BY UpEmission DEF Emission, UpStep, excs
<1>2. /\ Closing(t) /\ pending[t].at # "finalize_gather"
      /\ t \in Started /\ t \in Task /\ dsl.kind[t.ref] = "gather" /\ t.stream # ROOT_STREAM
      /\ p \in DOMAIN open_streams /\ p \in DOMAIN task_streams /\ p = Maker(t.stream)
  BY ClosingParts, Parts DEF UpStep, TypeOK, ScattersKnown, ParentScatter, Maker
<1>3. ASSUME NEW q \in Task, NEW g \in Gathers(q.ref), TaskOf(g, q.stream) = x
      PROVE  q = p /\ g = t.ref
  BY <1>2, <1>3, OneCounterpart
<1>4. IsSkipStream(t.stream) => task_streams[p] = 0
  <2>1. StreamMade(t.stream)  BY <1>2, Parts, ReachedStream
  <2>2. QED  BY <1>2, <2>1 DEF StreamMade, IsSkipStream
<1>5. \/ results' = results
      \/ /\ task_streams[p] = 0 /\ DOMAIN results' = DOMAIN results \union {x}
         /\ DOMAIN results'[x] = {}
         /\ \A y \in DOMAIN results : y # x => results'[y] = results[y]
  <2>1. CASE results' = results  BY <2>1
  <2>2. CASE /\ IsSkipStream(t.stream)
             /\ results' = [y \in DOMAIN results \union {x} |-> IF y = x THEN << >> ELSE results[y]]
    <3>1. results'[x] = << >>  BY <2>2
    <3>2. DOMAIN results'[x] = {}  BY <3>1
    <3>3. QED  BY <1>4, <2>2, <3>2
  <2>3. QED  BY <2>1, <2>2 DEF UpStep
<1> HIDE DEF p, x
<1>6. SlotsShaped /\ SlotsHold /\ Raises  BY DEF ErrInv, SlotInv
<1>7. SlotsShaped'
  <2>1. CASE results' = results  BY <1>1, <1>6, <2>1, ShapedStays
  <2>2. CASE results' # results
    <3> SUFFICES ASSUME NEW q \in Task, NEW g \in Gathers(q.ref), TaskOf(g, q.stream) \in DOMAIN results'
                 PROVE  /\ q \in DOMAIN open_streams'
                        /\ DOMAIN results'[TaskOf(g, q.stream)] = 0 .. task_streams'[q] - 1
      BY <1>1, SameScopes DEF SlotsShaped, TaskOf
    <3>1. CASE TaskOf(g, q.stream) = x
      <4>1. q = p /\ task_streams'[p] = 0 /\ DOMAIN results'[x] = {}
        BY <1>1, <1>3, <1>5, <2>2, <3>1
      <4>2. 0 .. 0 - 1 = {}  OBVIOUS
      <4>3. QED  BY <1>1, <1>2, <3>1, <4>1, <4>2
    <3>2. CASE TaskOf(g, q.stream) # x
      BY <1>1, <1>5, <1>6, <2>2, <3>2 DEF SlotsShaped
    <3>3. QED  BY <3>1, <3>2
  <2>3. QED  BY <2>1, <2>2
<1>8. ASSUME NEW q \in Task, NEW g \in Gathers(q.ref), NEW i \in 0 .. task_streams[q] - 1
      PROVE  ErrorSlot(q, g, i)' <=> ErrorSlot(q, g, i)
  <2>1. CASE results' = results  BY <2>1, SameSlots
  <2>2. CASE results' # results
    <3>1. TaskOf(g, q.stream) # x
      <4> SUFFICES ASSUME TaskOf(g, q.stream) = x PROVE FALSE  OBVIOUS
      <4>1. q = p /\ task_streams[p] = 0  BY <1>3, <1>5, <2>2
      <4>2. 0 .. 0 - 1 = {}  OBVIOUS
      <4>3. QED  BY <4>1, <4>2
    <3>2. QED  BY <1>5, <2>2, <3>1 DEF ErrorSlot, TaskOf
  <2>3. QED  BY <2>1, <2>2
<1>9. ASSUME NEW q \in DOMAIN task_streams, NEW g \in Gathers(q.ref), NEW i \in 0 .. task_streams[q] - 1,
             Closed(TaskOf(g, Sub(q, i)))'
      PROVE  Closed(TaskOf(g, Sub(q, i)))
  <2>1. CASE TaskOf(g, Sub(q, i)) # t  BY <1>1, <1>9, <2>1, ClosedBefore
  <2>2. CASE TaskOf(g, Sub(q, i)) = t
    <3>1. q \in Task /\ task_streams[q] \in Nat /\ i \in Int /\ i # SKIP  BY Parts DEF TypeOK, SKIP
    <3>2. ~ IsSkipStream(t.stream)  BY <2>2, <3>1, SubParts DEF TaskOf
    <3>3. Finalizing(t)  BY <1>2, <3>2, Parts DEF Closing, PhasesFit, PhaseFit
    <3>4. QED  BY <2>2, <3>3 DEF Closed
  <2>3. QED  BY <2>1, <2>2
<1>10. DOMAIN task_streams \subseteq Task /\ DOMAIN open_streams \subseteq Task
  BY Parts DEF TypeOK
<1>11. SlotsHold'  BY <1>1, <1>6, <1>8, <1>9, <1>10, SlotsKept
<1>12. Raises'  BY <1>1, <1>2, <1>6, <1>8, <1>10, RaisesKept
<1>13. QED  BY <1>7, <1>11, <1>12 DEF SlotInv

LEMMA MoveSlots ==
  ASSUME Scoped, ScopeInv, ErrInv, NEW t \in DOMAIN pending, NEW at, MoveStep(t, at)
  PROVE  SlotInv'
<1>1. /\ Frame(t) /\ UNCHANGED <<stream_exceptions, task_streams, open_streams, results>>
  BY QuietFrame DEF MoveStep, scopes
<1>2. t \in DOMAIN pending' /\ pending'[t].at = at /\ completed_tasks' = completed_tasks
  BY DEF MoveStep, Suspend
<1>3. SlotsShaped /\ SlotsHold /\ Raises  BY DEF ErrInv, SlotInv
<1>4. SlotsShaped'  BY <1>1, <1>3, ShapedStays
<1>5. \A p, g, i : ErrorSlot(p, g, i)' <=> ErrorSlot(p, g, i)  BY <1>1, SameSlots
<1>6. Finalizing(t)' => Finalizing(t)  BY <1>2 DEF Finalizing, MoveStep
<1>7. ASSUME NEW v, Closed(v)'  PROVE Closed(v)
  <2>1. CASE v = t  BY <1>2, <1>6, <1>7, <2>1 DEF Closed
  <2>2. CASE v # t  BY <1>1, <1>7, <2>2, ClosedBefore
  <2>3. QED  BY <2>1, <2>2
<1>8. SlotsHold'  BY <1>1, <1>3, <1>5, <1>6, <1>7, SlotsKept
<1>9. ASSUME NEW p \in DOMAIN open_streams, NEW g \in Gathers(p.ref), NEW i \in 0 .. task_streams[p] - 1,
             g \in dsl.raises, ErrorSlot(p, g, i),
             pending[t].at = "finalize_gather", ParentScatter(t) = p, t.ref = g
      PROVE  FALSE
  <2>1. Closing(t)  BY <1>9 DEF Closing, Finalizing
  <2>2. ~ (t.ref \in dsl.raises /\ GatherErrors(t))  BY <2>1 DEF MoveStep
  <2>3. ParentGather(t) = TaskOf(g, p.stream)  BY <1>9 DEF ParentGather, ParentScatter, TaskOf
  <2>4. p \in Task  BY Parts DEF TypeOK
  <2>5. i \in DOMAIN results[ParentGather(t)]  BY <1>3, <1>9, <2>3, <2>4 DEF SlotsShaped, ErrorSlot
  <2>6. GatherErrors(t)  BY <1>9, <2>3, <2>5 DEF GatherErrors, ErrorSlot
  <2>7. QED  BY <1>9, <2>2, <2>6
<1>10. Raises'  BY <1>1, <1>3, <1>5, <1>9, RaisesKept
<1>11. QED  BY <1>4, <1>8, <1>10 DEF SlotInv

LEMMA LoopSlots ==
  ASSUME Scoped, ScopeInv, ErrInv, LoopFrame, TypeOK'
  PROVE  SlotInv'
<1>1. /\ UNCHANGED <<dsl, completed_tasks, task_streams, open_streams, task_exceptions>>
      /\ UNCHANGED <<stream_exceptions, results>>
      /\ \A z \in DOMAIN pending : pending[z].at # "created" => z \in DOMAIN pending'
      /\ \A z \in DOMAIN pending' :
           \/ z \in DOMAIN pending /\ pending'[z] = pending[z]
           \/ z \in queue /\ pending'[z].at = "created"
      /\ loop' \in {"ready", "waiting"} => loop \in {"ready", "waiting"}
  BY DEF LoopFrame
<1>2. SlotsShaped /\ SlotsHold /\ Raises  BY DEF ErrInv, SlotInv
<1>3. \A p, g, i : ErrorSlot(p, g, i)' <=> ErrorSlot(p, g, i)  BY <1>1, SameSlots
<1>4. \A q : Gathers(q)' = Gathers(q)  BY <1>1, SameScopes
<1>5. Task' = Task  BY <1>1, SameScopes
<1>6. SlotsShaped'  BY <1>1, <1>2, <1>4, <1>5 DEF SlotsShaped, TaskOf
<1>7. ASSUME NEW z \in DOMAIN pending, pending[z].at # "created"
      PROVE  z \in DOMAIN pending' /\ pending'[z] = pending[z]
  BY <1>1, <1>7, Parts DEF Counted, RunsOnce
<1>8. ASSUME NEW z, Finalizing(z)'  PROVE Finalizing(z)
  BY <1>1, <1>8 DEF Finalizing
<1>9. ASSUME NEW z  PROVE ParentScatter(z)' = ParentScatter(z)
  BY DEF ParentScatter, TaskOf, LeafRef, Parent
<1>10. loop' \in {"ready", "waiting", "stopping", "returned"}  BY DEF TypeOK
<1>11. ASSUME NEW p, NEW g, Past(p, g)  PROVE Past(p, g)'
  <2>1. \A u \in DOMAIN pending' : Finalizing(u)' => u.ref # g \/ ParentScatter(u) # p
    BY <1>8, <1>11 DEF Past, Finalizing
  <2>2. CASE loop \in {"stopping", "returned"}
    <3>1. loop' \in {"stopping", "returned"}  BY <1>1, <1>10, <2>2
    <3>2. QED  BY <1>9, <2>1, <3>1 DEF Past
  <2>3. CASE loop \notin {"stopping", "returned"}
    BY <1>1, <1>9, <1>11, <2>1, <2>3 DEF Past, TaskOf, Sub, Child
  <2>4. QED  BY <2>2, <2>3
<1>12. SlotsHold'
  <2> SUFFICES ASSUME NEW p \in DOMAIN task_streams, NEW g \in Gathers(p.ref),
                      NEW i \in 0 .. task_streams[p] - 1,
                      Sub(p, i) \in stream_exceptions, Closed(TaskOf(g, Sub(p, i)))'
               PROVE  ErrorSlot(p, g, i) \/ (~ Calm' /\ Past(p, g)')
    BY <1>1, <1>3, <1>4 DEF SlotsHold, Sub, Child, TaskOf
  <2>1. Closed(TaskOf(g, Sub(p, i)))  BY <1>1, <1>8 DEF Closed
  <2>2. QED  BY <1>1, <1>2, <1>11, <2>1 DEF SlotsHold, Calm
<1>13. Raises'
  <2> SUFFICES ASSUME Calm, NEW p \in DOMAIN open_streams, NEW g \in Gathers(p.ref),
                      open_streams[p] = 0, g \in dsl.raises,
                      \E i \in 0 .. task_streams[p] - 1 : ErrorSlot(p, g, i)
               PROVE  \E u \in DOMAIN pending' :
                        pending'[u].at = "finalize_gather" /\ ParentScatter(u) = p /\ u.ref = g
    BY <1>1, <1>3, <1>4, <1>9 DEF Raises, Calm
  <2>1. PICK u \in DOMAIN pending :
          pending[u].at = "finalize_gather" /\ ParentScatter(u) = p /\ u.ref = g
    BY <1>2 DEF Raises
  <2>2. QED  BY <1>7, <2>1
<1>14. QED  BY <1>6, <1>12, <1>13 DEF SlotInv

-----------------------------------------------------------------------------
(***************************************************************************)
(* The errors of streams are gathered.                                     *)
(***************************************************************************)
LEMMA TaskErrInv ==
  ASSUME Gathered, TInv, ScopeInv, ErrInv, NEW t \in DOMAIN pending, TaskStep(t)
  PROVE  ErrInv'
<1>0. Scoped /\ TokenInv  BY DEF Gathered, ErrInv
<1>1. StepKind(t)  BY <1>0, TaskKind
<1>2. CASE \E u : OwnStep(t, u)
  BY <1>0, <1>2, OwnTokens, OwnSlots DEF ErrInv
<1>3. CASE SkipStep(t) \/ EmptyStep(t)
  BY <1>0, <1>3, SkipTokens, SkipSlots DEF ErrInv
<1>4. CASE \E i \in Nat : MakeStep(t, i)
  BY <1>0, <1>4, MakeTokens, MakeSlots DEF ErrInv
<1>5. CASE UpStep(t)
  BY <1>0, <1>5, UpTokens, UpSlots DEF ErrInv
<1>6. CASE DropStep(t)
  BY <1>0, <1>6, QuietTokens, DropSlots DEF ErrInv
<1>7. CASE EndStep(t)
  BY <1>0, <1>7, QuietTokens, EndSlots DEF ErrInv
<1>8. CASE CloseStep(t)
  BY <1>0, <1>8, QuietTokens, CloseSlots DEF ErrInv
<1>9. CASE \E at : MoveStep(t, at)
  <2>1. TokenInv'  BY <1>0, <1>9, QuietTokens
  <2>2. SlotInv'  BY <1>0, <1>9, MoveSlots
  <2>3. QED  BY <2>1, <2>2 DEF ErrInv
<1>10. QED  BY <1>1, <1>2, <1>3, <1>4, <1>5, <1>6, <1>7, <1>8, <1>9 DEF StepKind

LEMMA InitErrInv ==
  ASSUME Init
  PROVE  ErrInv
<1>1. /\ DOMAIN edges = {} /\ DOMAIN pending = {} /\ completed_tasks = {} /\ stream_exceptions = {}
      /\ DOMAIN task_streams = {} /\ DOMAIN open_streams = {} /\ DOMAIN results = {}
  BY DEF Init, EmptyDict
<1>2. \A t : ~ Holder(t)  BY <1>1 DEF Holder, HoldsOwn, HoldsBelow, Reached, Marker
<1>3. TokenInv
  BY <1>1, <1>2 DEF TokenInv, PhasesReached, FailedMade, TokensUnique, FailedIdle
<1>4. SlotInv  BY <1>1 DEF SlotInv, SlotsShaped, SlotsHold, Raises
<1>5. QED  BY <1>3, <1>4 DEF ErrInv

\* When the last stream is closed all are, so the slots hold all the errors.
LEMMA ErrorsHold ==
  ASSUME Scoped, ScopeInv, ErrInv
  PROVE  StreamErrorsGathered
<1> SUFFICES ASSUME NEW t \in DOMAIN pending, Finalizing(t),
                    NEW i \in 0 .. task_streams[ParentScatter(t)] - 1,
                    Child(Parent(t.stream), LeafRef(t.stream), i) \in stream_exceptions
             PROVE  /\ ParentGather(t) \in DOMAIN results
                    /\ results[ParentGather(t)][i] = "error"
  BY DEF StreamErrorsGathered, Finalizing
<1> DEFINE p == ParentScatter(t)
<1>1. /\ dsl.kind[t.ref] = "gather" /\ p \in DOMAIN open_streams
      /\ Scope(dsl)[t.ref] = {LeafRef(t.stream)}
  BY ClosingParts DEF Closing
<1>2. p.ref = LeafRef(t.stream) /\ p.stream = Parent(t.stream)  BY DEF ParentScatter, TaskOf
<1>3. t.ref \in dsl.refs /\ p \in DOMAIN task_streams
  BY <1>1, Parts DEF TypeOK, Task, ScattersKnown
<1>4. t.ref \in Gathers(p.ref)  BY <1>1, <1>2, <1>3 DEF Gathers
<1>5. Sub(p, i) = Child(Parent(t.stream), LeafRef(t.stream), i)  BY <1>2 DEF Sub
<1>6. TaskOf(t.ref, Sub(p, i)) \in completed_tasks \union {t}
  BY <1>5, BarrierHolds DEF GatherBarrier, Finalizing
<1>7. Closed(TaskOf(t.ref, Sub(p, i)))  BY <1>6 DEF Closed
<1>8. ErrorSlot(p, t.ref, i) \/ Past(p, t.ref)
  BY <1>3, <1>4, <1>5, <1>7 DEF ErrInv, SlotInv, SlotsHold
<1>9. ~ Past(p, t.ref)  BY DEF Past
<1>10. QED  BY <1>2, <1>8, <1>9 DEF ErrorSlot, ParentGather

\* Workflows whose scopes have no dead ends and whose branches exclude each
\* other: in every state of every run a stream has one token, and the slots of
\* the gathers hold the errors of the streams that lost theirs.
THEOREM GatheredInvariant ==
  ASSUME Gathered
  PROVE  Spec => []ErrInv
<1>0. Scoped  BY DEF Gathered
<1>1. Init => TInv /\ ScopeInv /\ ErrInv  BY <1>0, InitTInv, InitScopeInv, InitErrInv DEF TInv
<1>2. TInv /\ ScopeInv /\ ErrInv /\ [Next]_vars => (TInv /\ ScopeInv /\ ErrInv)'
  <2> SUFFICES ASSUME TInv, ScopeInv, ErrInv, [Next]_vars PROVE (TInv /\ ScopeInv /\ ErrInv)'
    OBVIOUS
  <2>1. TInv' /\ TypeOK'  BY NextTInv DEF TInv
  <2>2. ASSUME NEW t \in DOMAIN pending, TaskStep(t)  PROVE ScopeInv' /\ ErrInv'
    BY <1>0, <2>1, <2>2, TaskScopeInv, TaskErrInv
  <2>3. CASE LoopStep \/ UNCHANGED vars
    <3>1. ScopeInv'  BY <1>0, <2>1, <2>3, LoopScopeInv
    <3>2. LoopFrame  BY <2>3, LoopFrames
    <3>3. ErrInv'  BY <1>0, <2>1, <3>2, LoopTokens, LoopSlots DEF ErrInv
    <3>4. QED  BY <2>1, <3>1, <3>3
  <2>4. QED  BY <2>1, <2>2, <2>3 DEF Next, Returned
<1>3. QED  BY <1>1, <1>2, PTL DEF Spec

\* When a gather is finalized the slot of every stream that failed holds its
\* error: _handle_gather_skip_stream puts it there, although another coroutine
\* recorded the error in _handle_error_path and the gather of the stream was
\* only skipped.
THEOREM GatheredStreamErrors ==
  ASSUME Gathered
  PROVE  Spec => []StreamErrorsGathered
<1>1. Scoped  BY DEF Gathered
<1>2. ScopeInv /\ ErrInv => StreamErrorsGathered  BY <1>1, ErrorsHold
<1>3. QED  BY <1>1, <1>2, ScopedInvariant, GatheredInvariant, PTL

-----------------------------------------------------------------------------
(***************************************************************************)
(* Every stream is closed.  As long as no exception is recorded, nothing   *)
(* is lost: what has ended has decided its edges, what is ready runs, and  *)
(* a stream that is counted as open has a gather that is still to come.    *)
(***************************************************************************)
Decided(x) == OutEdges(x) \subseteq DOMAIN edges

\* The scatters that have ended are in the tables, and so are those of the
\* gathers that have closed a stream.
ScattersObserved ==
  \A t \in completed_tasks :
    t \in DOMAIN task_streams \/ (dsl.kind[t.ref] = "scatter" /\ InScope(t)) => t \in DOMAIN open_streams
GathersObserve ==
  \A t \in Task : dsl.kind[t.ref] = "gather" /\ InScope(t) /\ Closed(t) => ParentScatter(t) \in DOMAIN open_streams

OpenExact == \A p \in DOMAIN open_streams : open_streams[p] <= Cardinality(Unclosed(p))

ActionsDecide == \A t \in completed_tasks : dsl.kind[t.ref] = "action" => Decided(t)
ScattersDecide ==
  \A p \in DOMAIN task_streams :
    /\ \A i \in 0 .. task_streams[p] - 1 : Decided(Below(p, i))
    /\ task_streams[p] = 0 => Decided(Below(p, SKIP))
GathersDecide ==
  \A p \in DOMAIN open_streams : \A g \in Gathers(p.ref) :
    /\ task_streams[p] > 0 /\ open_streams[p] = 0 =>
         \/ Decided(TaskOf(g, p.stream))
         \/ \E u \in DOMAIN pending : Finalizing(u) /\ ParentGather(u) = TaskOf(g, p.stream)
    /\ task_streams[p] = 0 /\ TaskOf(g, Sub(p, SKIP)) \in completed_tasks => Decided(TaskOf(g, p.stream))

\* Outside of the skip streams a scatter or a gather skips nothing.
GatesVisit ==
  \A e \in DOMAIN edges : dsl.kind[e.src] # "action" /\ ~ IsSkipStream(e.stream) => edges[e] = "VISITED"

ReadyRun ==
  \A t \in Task : InEdges(t) # {} /\ InEdges(t) \subseteq DOMAIN edges => t \in Alive
ReturnedIdle == loop = "returned" => queue = {}

FlowInv  == GatesVisit /\ ReadyRun /\ ReturnedIdle
TableInv == ScattersObserved /\ GathersObserve /\ ActionsDecide /\ ScattersDecide
NothingLost == Calm => FlowInv /\ TableInv /\ OpenExact /\ GathersDecide

\* A step that decides more edges.
Grows(t) ==
  /\ Frame(t) /\ queue \subseteq queue'
  /\ \A e \in DOMAIN edges : e \in DOMAIN edges' /\ edges'[e] = edges[e]

LEMMA DecidedStays ==
  ASSUME NEW t, Grows(t), NEW x, Decided(x)
  PROVE  Decided(x)'
<1>1. OutEdges(x)' = OutEdges(x)  BY SameScopes DEF Grows, Frame
<1>2. QED  BY <1>1 DEF Decided, Grows

LEMMA CalmBefore ==
  ASSUME ScopeInv, NothingLost, NEW t, Frame(t), Calm'
  PROVE  /\ Calm /\ FlowInv /\ TableInv /\ OpenExact /\ GathersDecide
BY DEF Frame, Calm, NothingLost

LEMMA FlowKept ==
  ASSUME ScopeInv, NothingLost, NEW t \in DOMAIN pending, Calm', Grows(t),
         \A y \in Task : InEdges(y) \subseteq DOMAIN edges' /\ ~ (InEdges(y) \subseteq DOMAIN edges) => y \in queue',
         \A e \in DOMAIN edges' \ DOMAIN edges :
           dsl.kind[e.src] # "action" /\ ~ IsSkipStream(e.stream) => edges'[e] = "VISITED"
  PROVE  FlowInv'
<1>1. Frame(t) /\ dsl' = dsl  BY DEF Grows, Frame
<1>2. Calm /\ FlowInv  BY <1>1, CalmBefore
<1>3. GatesVisit'
  <2>1. \A s : IsSkipStream(s)' <=> IsSkipStream(s)  BY DEF IsSkipStream, LeafIndex, ROOT_STREAM
  <2>2. QED  BY <1>1, <1>2, <2>1 DEF FlowInv, GatesVisit, Grows
<1>4. ReadyRun'
  <2> SUFFICES ASSUME NEW y \in Task, InEdges(y) # {}, InEdges(y) \subseteq DOMAIN edges'
               PROVE  y \in Alive'
    BY <1>1, SameScopes DEF ReadyRun
  <2>1. CASE InEdges(y) \subseteq DOMAIN edges
    <3>1. y \in Alive  BY <1>2, <2>1 DEF FlowInv, ReadyRun
    <3>2. QED  BY <1>1, <3>1 DEF Alive, Started, Grows, Frame
  <2>2. CASE ~ (InEdges(y) \subseteq DOMAIN edges)
    <3>1. y \in queue'  BY <2>2
    <3>2. QED  BY <3>1 DEF Alive
  <2>3. QED  BY <2>1, <2>2
<1>5. ReturnedIdle'
  <2>1. loop # "returned"  BY Parts DEF PhasesFit
  <2>2. QED  BY <1>1, <2>1 DEF ReturnedIdle, Frame
<1>6. QED  BY <1>3, <1>4, <1>5 DEF FlowInv

LEMMA TablesKept ==
  ASSUME ScopeInv, NothingLost, NEW t \in DOMAIN pending, Calm', Grows(t),
         t \in completed_tasks' /\ dsl.kind[t.ref] = "action" => Decided(t)',
         t \in DOMAIN task_streams' =>
           /\ \A i \in 0 .. task_streams'[t] - 1 : Decided(Below(t, i))'
           /\ task_streams'[t] = 0 => Decided(Below(t, SKIP))',
         /\ t \in completed_tasks'
         /\ t \in DOMAIN task_streams' \/ (dsl.kind[t.ref] = "scatter" /\ InScope(t))
         => t \in DOMAIN open_streams',
         dsl.kind[t.ref] = "gather" /\ InScope(t) /\ Closed(t)' => ParentScatter(t) \in DOMAIN open_streams
  PROVE  TableInv'
<1>1. Frame(t) /\ dsl' = dsl /\ completed_tasks' \subseteq completed_tasks \union {t}
      /\ DOMAIN open_streams \subseteq DOMAIN open_streams'
      /\ DOMAIN task_streams' \subseteq DOMAIN task_streams \union {t}
  BY DEF Grows, Frame
<1>2. Calm /\ TableInv  BY <1>1, CalmBefore
<1>3. /\ Task' = Task
      /\ \A z : InScope(z)' <=> InScope(z)
      /\ \A z : ParentScatter(z)' = ParentScatter(z)
  <2>1. \A z : ParentScatter(z)' = ParentScatter(z)  BY DEF ParentScatter, TaskOf, LeafRef, Parent
  <2>2. QED  BY <1>1, <2>1, SameScopes
<1>4. ActionsDecide'
  <2> SUFFICES ASSUME NEW z \in completed_tasks', dsl.kind[z.ref] = "action" PROVE Decided(z)'
    BY <1>1 DEF ActionsDecide
  <2>1. CASE z = t  BY <2>1
  <2>2. CASE z # t
    <3>1. Decided(z)  BY <1>1, <1>2, <2>2 DEF TableInv, ActionsDecide
    <3>2. QED  BY <3>1, DecidedStays
  <2>3. QED  BY <2>1, <2>2
<1>5. ScattersObserved'
  <2> SUFFICES ASSUME NEW z \in completed_tasks',
                      z \in DOMAIN task_streams' \/ (dsl.kind[z.ref] = "scatter" /\ InScope(z))
               PROVE  z \in DOMAIN open_streams'
    BY <1>1, <1>3 DEF ScattersObserved
  <2>1. CASE z = t  BY <2>1
  <2>2. CASE z # t  BY <1>1, <1>2, <2>2 DEF TableInv, ScattersObserved
  <2>3. QED  BY <2>1, <2>2
<1>6. GathersObserve'
  <2> SUFFICES ASSUME NEW z \in Task, dsl.kind[z.ref] = "gather", InScope(z), Closed(z)'
               PROVE  ParentScatter(z) \in DOMAIN open_streams'
    BY <1>1, <1>3 DEF GathersObserve
  <2>1. CASE z = t  BY <1>1, <2>1
  <2>2. CASE z # t
    <3>1. Closed(z)  BY <1>1, <2>2, ClosedBefore
    <3>2. QED  BY <1>1, <1>2, <3>1 DEF TableInv, GathersObserve
  <2>3. QED  BY <2>1, <2>2
<1>7. ScattersDecide'
  <2>1. ASSUME NEW p \in DOMAIN task_streams'
        PROVE  /\ \A i \in 0 .. task_streams'[p] - 1 : Decided(Below(p, i))'
               /\ task_streams'[p] = 0 => Decided(Below(p, SKIP))'
    <3>1. CASE p = t  BY <2>1, <3>1
    <3>2. CASE p # t
      <4>1. p \in DOMAIN task_streams /\ task_streams'[p] = task_streams[p]  BY <1>1, <2>1, <3>2 DEF Frame
      <4>2. /\ \A i \in 0 .. task_streams[p] - 1 : Decided(Below(p, i))
            /\ task_streams[p] = 0 => Decided(Below(p, SKIP))
        BY <1>2, <4>1 DEF TableInv, ScattersDecide
      <4>3. QED  BY <4>1, <4>2, DecidedStays
    <3>3. QED  BY <3>1, <3>2
  <2>2. \A p, i : Below(p, i)' = Below(p, i)  BY DEF Below, TaskOf, Child
  <2>3. SKIP' = SKIP  BY DEF SKIP
  <2>4. QED  BY <2>1, <2>2, <2>3 DEF ScattersDecide, Below, TaskOf, Child, SKIP
<1>8. QED  BY <1>4, <1>5, <1>6, <1>7 DEF TableInv

\* The streams of a scatter that are not closed.
LEMMA UnclosedAs ==
  ASSUME NEW p, dsl' = dsl
  PROVE  /\ Unclosed(p) =
              {i \in 0 .. task_streams[p] - 1 : \A g \in Gathers(p.ref) : ~ Closed(TaskOf(g, Sub(p, i)))}
         /\ Unclosed(p)' =
              {i \in 0 .. task_streams'[p] - 1 : \A g \in Gathers(p.ref) : ~ Closed(TaskOf(g, Sub(p, i)))'}
<1>1. Unclosed(p) =
        {i \in 0 .. task_streams[p] - 1 : \A g \in Gathers(p.ref) : ~ Closed(TaskOf(g, Sub(p, i)))}
  BY DEF Unclosed, Gathers, Closed, Sub
<1>2. Unclosed(p)' =
        {i \in 0 .. task_streams'[p] - 1 : \A g \in Gathers(p.ref) : ~ Closed(TaskOf(g, Sub(p, i)))'}
  BY DEF Unclosed, Gathers, Closed, Sub, Child, TaskOf, Finalizing
<1>3. QED  BY <1>1, <1>2

\* Steps that close no stream.
LEMMA ExactKept ==
  ASSUME Scoped, ScopeInv, NothingLost, NEW t \in DOMAIN pending, Calm', Frame(t), TypeOK',
         t \in DOMAIN pending' /\ Finalizing(t) => Finalizing(t)',
         dsl.kind[t.ref] = "gather" /\ InScope(t) /\ Closed(t)' => Closed(t),
         \A p \in DOMAIN open_streams : open_streams'[p] = open_streams[p],
         t \in DOMAIN open_streams' =>
           dsl.kind[t.ref] = "scatter" /\ t \in DOMAIN task_streams' /\ open_streams'[t] = task_streams'[t]
  PROVE  OpenExact'
<1>1. dsl' = dsl  BY DEF Frame
<1>2. TableInv /\ OpenExact  BY CalmBefore
<1>3. ASSUME NEW v \in Task, dsl.kind[v.ref] = "gather", InScope(v), Closed(v)'  PROVE Closed(v)
  <2>1. CASE v = t  BY <1>3, <2>1
  <2>2. CASE v # t  BY <1>3, <2>2, ClosedBefore
  <2>3. QED  BY <2>1, <2>2
<1>4. ASSUME NEW p \in Task, NEW i \in Nat, NEW g \in Gathers(p.ref), Closed(TaskOf(g, Sub(p, i)))'
      PROVE  Closed(TaskOf(g, Sub(p, i))) /\ p \in DOMAIN open_streams
  <2> DEFINE v == TaskOf(g, Sub(p, i))
  <2>1. i \in Int /\ i # SKIP  BY DEF SKIP
  <2>2. v \in Task /\ dsl.kind[v.ref] = "gather" /\ InScope(v) /\ ParentScatter(v) = p
    BY <2>1, Parts, SubGather
  <2>3. Closed(v)  BY <1>3, <1>4, <2>2
  <2>4. QED  BY <1>2, <2>2, <2>3 DEF TableInv, GathersObserve
<1>5. ASSUME NEW p \in DOMAIN open_streams'  PROVE open_streams'[p] <= Cardinality(Unclosed(p)')
  <2>1. CASE p = t
    <3>1. /\ task_streams'[t] \in Nat /\ open_streams'[t] = task_streams'[t] /\ t \in Task
          /\ t \notin DOMAIN open_streams
      BY <1>5, <2>1, RunningEntries DEF TypeOK
    <3>2. Unclosed(t)' = 0 .. task_streams'[t] - 1
      <4>1. ASSUME NEW i \in 0 .. task_streams'[t] - 1, NEW g \in Gathers(t.ref)
            PROVE  ~ Closed(TaskOf(g, Sub(t, i)))'
        <5>1. i \in Nat  BY <3>1
        <5>2. QED  BY <1>4, <3>1, <5>1
      <4>2. QED  BY <1>1, <4>1, UnclosedAs
    <3>3. Cardinality(0 .. task_streams'[t] - 1) = task_streams'[t]  BY <3>1, Indices
    <3>4. QED  BY <2>1, <3>1, <3>2, <3>3
  <2>2. CASE p # t
    <3>1. p \in DOMAIN open_streams /\ p \in DOMAIN task_streams /\ p \in Task
      BY <1>5, <2>2, Parts DEF Frame, ScattersKnown, TypeOK
    <3>2. Unclosed(p)' \subseteq Unclosed(p) /\ task_streams'[p] = task_streams[p]
          /\ task_streams[p] \in Nat
      BY <2>2, <3>1, UnclosedShrinks, Parts DEF TypeOK
    <3>3. ASSUME NEW i \in Unclosed(p)  PROVE i \in Unclosed(p)'
      <4>1. /\ i \in 0 .. task_streams[p] - 1
            /\ \A g \in Gathers(p.ref) : ~ Closed(TaskOf(g, Sub(p, i)))
        BY <1>1, UnclosedAs
      <4>2. i \in Nat  BY <3>2, <4>1
      <4>3. \A g \in Gathers(p.ref) : ~ Closed(TaskOf(g, Sub(p, i)))'  BY <1>4, <3>1, <4>1, <4>2
      <4>4. QED  BY <1>1, <3>2, <4>1, <4>3, UnclosedAs
    <3>4. Unclosed(p)' = Unclosed(p)  BY <3>2, <3>3
    <3>5. QED  BY <1>2, <3>1, <3>4 DEF OpenExact
  <2>3. QED  BY <2>1, <2>2
<1>6. QED  BY <1>5 DEF OpenExact

LEMMA GathersKept ==
  ASSUME Scoped, ScopeInv, NothingLost, NEW t \in DOMAIN pending, Calm', Grows(t),
         \A p \in DOMAIN open_streams : open_streams'[p] = open_streams[p],
         t \in DOMAIN open_streams' =>
           dsl.kind[t.ref] = "scatter" /\ t \in DOMAIN task_streams' /\ open_streams'[t] = task_streams'[t],
         Finalizing(t) => Finalizing(t)' \/ Decided(ParentGather(t))',
         /\ t \in completed_tasks' /\ dsl.kind[t.ref] = "gather"
         /\ IsSkipStream(t.stream) /\ ParentScatter(t) \in DOMAIN open_streams
         => Decided(ParentGather(t))'
  PROVE  GathersDecide'
<1>1. Frame(t) /\ dsl' = dsl  BY DEF Grows, Frame
<1>2. GathersDecide  BY <1>1, CalmBefore
<1>3. ASSUME NEW p \in DOMAIN open_streams', NEW g \in Gathers(p.ref),
             task_streams'[p] > 0, open_streams'[p] = 0
      PROVE  \/ Decided(TaskOf(g, p.stream))'
             \/ \E u \in DOMAIN pending' : Finalizing(u)' /\ ParentGather(u) = TaskOf(g, p.stream)
  <2>1. p # t  BY <1>3
  <2>2. p \in DOMAIN open_streams  BY <1>1, <2>1 DEF Frame
  <2>3. task_streams[p] > 0 /\ open_streams[p] = 0  BY <1>1, <1>3, <2>2, OpenFixed
  <2>4. CASE Decided(TaskOf(g, p.stream))  BY <2>4, DecidedStays
  <2>5. CASE \E u \in DOMAIN pending : Finalizing(u) /\ ParentGather(u) = TaskOf(g, p.stream)
    <3>1. PICK u \in DOMAIN pending : Finalizing(u) /\ ParentGather(u) = TaskOf(g, p.stream)  BY <2>5
    <3>2. CASE u = t
      <4>1. Finalizing(t)' => t \in DOMAIN pending'  BY DEF Finalizing
      <4>2. Decided(ParentGather(t))' => Decided(TaskOf(g, p.stream))'
        BY <3>1, <3>2 DEF ParentGather, TaskOf, Parent, Decided, OutEdges, EdgeOf
      <4>3. QED  BY <3>1, <3>2, <4>1, <4>2
    <3>3. CASE u # t
      <4>1. u \in DOMAIN pending' /\ pending'[u] = pending[u]  BY <1>1, <3>3 DEF Frame
      <4>2. Finalizing(u)'  BY <3>1, <4>1 DEF Finalizing
      <4>3. QED  BY <3>1, <4>1, <4>2
    <3>4. QED  BY <3>2, <3>3
  <2>6. QED  BY <1>2, <2>2, <2>3, <2>4, <2>5 DEF GathersDecide
<1>4. ASSUME NEW p \in DOMAIN open_streams', NEW g \in Gathers(p.ref),
             task_streams'[p] = 0, TaskOf(g, Sub(p, SKIP)) \in completed_tasks'
      PROVE  Decided(TaskOf(g, p.stream))'
  <2> DEFINE v == TaskOf(g, Sub(p, SKIP))
  <2>1. p \in Task  BY <1>1, RunningEntries, Parts DEF Frame, TypeOK
  <2>2. SKIP \in Int  BY DEF SKIP
  <2>3. /\ v \in Task /\ v.stream = Sub(p, SKIP) /\ dsl.kind[v.ref] = "gather"
        /\ ParentScatter(v) = p /\ ParentGather(v) = TaskOf(g, p.stream)
    BY <2>1, <2>2, Parts, SubGather
  <2>4. IsSkipStream(v.stream) /\ v.stream # ROOT_STREAM /\ Maker(v.stream) = p /\ LeafIndex(v.stream) = SKIP
    BY <2>1, <2>2, <2>3, SubParts
  <2>5. CASE v = t
    <3>1. p # t
      <4>1. p = t => dsl.kind[t.ref] = "scatter"  OBVIOUS
      <4>2. QED  BY <2>3, <2>5, <4>1
    <3>2. p \in DOMAIN open_streams  BY <1>1, <3>1 DEF Frame
    <3>3. Decided(ParentGather(t))'  BY <1>4, <2>3, <2>4, <2>5, <3>2
    <3>4. QED
      BY <2>3, <2>5, <3>3 DEF ParentGather, TaskOf, Parent, Decided, OutEdges, EdgeOf
  <2>6. CASE v # t
    <3>1. v \in completed_tasks  BY <1>1, <1>4, <2>6 DEF Frame
    <3>2. StreamMade(v.stream)  BY <2>4, <3>1, Parts, ReachedStream DEF Started
    <3>3. p \in completed_tasks  BY <2>4, <3>2 DEF StreamMade
    <3>4. p # t  BY <3>3, Parts DEF Counted, RunsOnce
    <3>5. p \in DOMAIN open_streams  BY <1>1, <3>4 DEF Frame
    <3>6. task_streams[p] = 0  BY <1>1, <1>4, <3>5, OpenFixed
    <3>7. Decided(TaskOf(g, p.stream))  BY <1>2, <3>1, <3>5, <3>6 DEF GathersDecide
    <3>8. QED  BY <3>7, DecidedStays
  <2>7. QED  BY <2>5, <2>6
<1>5. \A u : ParentGather(u)' = ParentGather(u)  BY DEF ParentGather, TaskOf, Parent
<1>6. \A q : Gathers(q)' = Gathers(q)  BY <1>1, SameScopes
<1>7. QED  BY <1>3, <1>4, <1>5, <1>6 DEF GathersDecide, TaskOf, Sub, Child, SKIP

\* Closing a stream counts down one stream that was not closed.
LEMMA CloseExact ==
  ASSUME Scoped, ScopeInv, NothingLost, NEW t \in DOMAIN pending, Calm', CloseStep(t)
  PROVE  OpenExact'
<1> DEFINE p == ParentScatter(t)
           k == LeafIndex(t.stream)
<1>1. Frame(t) /\ dsl' = dsl /\ task_streams' = task_streams  BY QuietFrame
<1>2. /\ p \in DOMAIN open_streams /\ ~ Finalizing(t)
      /\ open_streams' = [open_streams EXCEPT ![p] = @ - 1]
  BY DEF CloseStep, CloseStream, Closing
<1>3. /\ p \in DOMAIN task_streams /\ p \in Task /\ k \in Unclosed(p) /\ t = TaskOf(t.ref, Sub(p, k))
      /\ t.ref \in Gathers(p.ref) /\ task_streams[p] \in Nat /\ open_streams[p] \in Int
  <2>1. /\ p \in DOMAIN task_streams /\ k \in Unclosed(p) /\ t = TaskOf(t.ref, Sub(p, k))
        /\ t.ref \in dsl.refs /\ Scope(dsl)[t.ref] = {p.ref} /\ dsl.kind[t.ref] = "gather"
    BY CloseUnclosed DEF Sub, CloseStep
  <2>2. QED  BY <1>2, <2>1, Parts DEF Gathers, TypeOK
<1>4. t.stream = Sub(p, k) /\ k \in Int
  <2>1. k \in 0 .. task_streams[p] - 1  BY <1>3 DEF Unclosed
  <2>2. QED  BY <1>3, <2>1 DEF TaskOf
<1>5. Closed(t)'
  <2>1. CASE Suspend(t, "finalize_gather")  BY <2>1 DEF Suspend, Closed, Finalizing
  <2>2. CASE Complete(t)  BY <2>2 DEF Complete, Closed
  <2>3. QED  BY <2>1, <2>2 DEF CloseStep, CloseStream
<1>6. OpenExact  BY <1>1, CalmBefore
<1> HIDE DEF p, k
<1>7. ASSUME NEW q \in DOMAIN open_streams
      PROVE  /\ Unclosed(q)' \subseteq Unclosed(q)
             /\ \A i \in Unclosed(q) : i \in Unclosed(q)' \/ (q = p /\ i = k)
             /\ q \in DOMAIN task_streams /\ task_streams[q] \in Nat
  <2>1. /\ q # t /\ q \in DOMAIN task_streams /\ q \in Task /\ task_streams[q] \in Nat
    BY <1>1, OpenFixed
  <2>2. Unclosed(q)' \subseteq Unclosed(q)  BY <1>1, <1>2, <2>1, UnclosedShrinks
  <2>3. ASSUME NEW i \in Unclosed(q), i \notin Unclosed(q)'  PROVE q = p /\ i = k
    <3>1. /\ i \in 0 .. task_streams[q] - 1
          /\ \A g \in Gathers(q.ref) : ~ Closed(TaskOf(g, Sub(q, i)))
      BY <1>1, UnclosedAs
    <3>2. PICK g \in Gathers(q.ref) : Closed(TaskOf(g, Sub(q, i)))'
      BY <1>1, <2>3, <3>1, UnclosedAs
    <3>3. TaskOf(g, Sub(q, i)) = t  BY <1>1, <3>1, <3>2, ClosedBefore
    <3>4. Sub(q, i) = Sub(p, k) /\ i \in Int  BY <1>4, <2>1, <3>1, <3>3 DEF TaskOf
    <3>5. QED  BY <1>3, <1>4, <2>1, <3>4, SubParts
  <2>4. QED  BY <2>1, <2>2, <2>3
<1>8. k \notin Unclosed(p)'
  BY <1>1, <1>3, <1>5, UnclosedAs
<1>9. ASSUME NEW q \in DOMAIN open_streams'  PROVE open_streams'[q] <= Cardinality(Unclosed(q)')
  <2>1. q \in DOMAIN open_streams  BY <1>2
  <2>2. CASE q = p
    <3>1. Unclosed(p)' = Unclosed(p) \ {k}  BY <1>2, <1>7, <1>8
    <3>2. IsFiniteSet(Unclosed(p)) /\ Cardinality(Unclosed(p)) \in Nat  BY <1>3, UnclosedFinite
    <3>3. Cardinality(Unclosed(p) \ {k}) = Cardinality(Unclosed(p)) - 1
      BY <1>3, <3>2, FS_RemoveElement
    <3>4. open_streams[p] <= Cardinality(Unclosed(p))  BY <1>2, <1>6 DEF OpenExact
    <3>5. open_streams'[p] = open_streams[p] - 1  BY <1>2
    <3>6. open_streams[p] - 1 <= Cardinality(Unclosed(p)) - 1  BY <1>3, <3>2, <3>4
    <3>7. QED  BY <2>2, <3>1, <3>3, <3>5, <3>6
  <2>3. CASE q # p
    <3>1. Unclosed(q)' = Unclosed(q)  BY <1>7, <2>1, <2>3
    <3>2. open_streams'[q] = open_streams[q]  BY <1>2, <2>1, <2>3
    <3>3. QED  BY <1>6, <2>1, <3>1, <3>2 DEF OpenExact
  <2>4. QED  BY <2>2, <2>3
<1>10. QED  BY <1>9 DEF OpenExact

\* The gather that closes the last stream goes on.
LEMMA CloseGathers ==
  ASSUME Scoped, ScopeInv, NothingLost, NEW t \in DOMAIN pending, Calm', CloseStep(t)
  PROVE  GathersDecide'
<1> DEFINE p == ParentScatter(t)
<1>1. Frame(t) /\ Grows(t) /\ dsl' = dsl /\ task_streams' = task_streams  BY QuietFrame DEF Grows
<1>2. /\ p \in DOMAIN open_streams /\ ~ Finalizing(t) /\ ~ IsSkipStream(t.stream)
      /\ open_streams' = [open_streams EXCEPT ![p] = @ - 1]
      /\ open_streams[p] = 1 => Suspend(t, "finalize_gather")
  BY DEF CloseStep, CloseStream, Closing, LastToClose
<1>3. t.ref \in Gathers(p.ref) /\ ParentGather(t) = TaskOf(t.ref, p.stream) /\ open_streams[p] \in Int
  <2>1. t.ref \in dsl.refs /\ Scope(dsl)[t.ref] = {p.ref} /\ dsl.kind[t.ref] = "gather"
    BY CloseUnclosed DEF CloseStep
  <2>2. QED  BY <1>2, <2>1, Parts DEF Gathers, TypeOK, ParentGather, ParentScatter, TaskOf
<1>4. GathersDecide  BY <1>1, CalmBefore
<1> HIDE DEF p
<1>5. ASSUME NEW q \in DOMAIN open_streams, NEW g \in Gathers(q.ref),
             task_streams[q] > 0, open_streams'[q] = 0
      PROVE  \/ Decided(TaskOf(g, q.stream))'
             \/ \E u \in DOMAIN pending' : Finalizing(u)' /\ ParentGather(u) = TaskOf(g, q.stream)
  <2>1. CASE q = p
    <3>1. open_streams[p] = 1  BY <1>2, <1>3, <1>5, <2>1
    <3>2. t \in DOMAIN pending' /\ Finalizing(t)'  BY <1>2, <3>1 DEF Suspend, Finalizing
    <3>3. g = t.ref  BY <1>3, <2>1, Parts, OneGather
    <3>4. QED  BY <1>3, <2>1, <3>2, <3>3
  <2>2. CASE q # p
    <3>1. open_streams[q] = 0  BY <1>2, <1>5, <2>2
    <3>2. CASE Decided(TaskOf(g, q.stream))  BY <1>1, <3>2, DecidedStays
    <3>3. CASE \E u \in DOMAIN pending : Finalizing(u) /\ ParentGather(u) = TaskOf(g, q.stream)
      <4>1. PICK u \in DOMAIN pending : Finalizing(u) /\ ParentGather(u) = TaskOf(g, q.stream)  BY <3>3
      <4>2. u # t  BY <1>2, <4>1
      <4>3. u \in DOMAIN pending' /\ Finalizing(u)'  BY <1>1, <4>1, <4>2 DEF Frame, Finalizing
      <4>4. QED  BY <4>1, <4>3
    <3>4. QED  BY <1>4, <1>5, <3>1, <3>2, <3>3 DEF GathersDecide
  <2>3. QED  BY <2>1, <2>2
<1>6. ASSUME NEW q \in DOMAIN open_streams, NEW g \in Gathers(q.ref),
             task_streams[q] = 0, TaskOf(g, Sub(q, SKIP)) \in completed_tasks'
      PROVE  Decided(TaskOf(g, q.stream))'
  <2>1. q \in Task /\ SKIP \in Int  BY <1>1, OpenFixed DEF SKIP
  <2>2. IsSkipStream(TaskOf(g, Sub(q, SKIP)).stream)  BY <2>1, SubParts DEF TaskOf
  <2>3. TaskOf(g, Sub(q, SKIP)) \in completed_tasks  BY <1>1, <1>2, <1>6, <2>2 DEF Frame
  <2>4. Decided(TaskOf(g, q.stream))  BY <1>4, <1>6, <2>3 DEF GathersDecide
  <2>5. QED  BY <1>1, <2>4, DecidedStays
<1>7. \A u : ParentGather(u)' = ParentGather(u)  BY DEF ParentGather, TaskOf, Parent
<1>8. \A q : Gathers(q)' = Gathers(q)  BY <1>1, SameScopes
<1>9. DOMAIN open_streams' = DOMAIN open_streams  BY <1>2
<1>10. QED  BY <1>1, <1>5, <1>6, <1>7, <1>8, <1>9 DEF GathersDecide, TaskOf, Sub, Child, SKIP

-----------------------------------------------------------------------------
\* The steps that decide edges.
LEMMA EmissionFlow ==
  ASSUME Scoped, ScopeInv, NothingLost, NEW t \in DOMAIN pending, NEW x, NEW u, Emission(t, x, u), Calm',
         dsl.kind[x.ref] # "action" /\ ~ IsSkipStream(x.stream) => u = {}
  PROVE  /\ Frame(t) /\ Grows(t) /\ FlowInv' /\ Decided(x)'
         /\ \A p \in DOMAIN open_streams : open_streams'[p] = open_streams[p]
<1>1. /\ x \in Task /\ dsl' = dsl /\ DOMAIN edges' = DOMAIN edges \union OutEdges(x)
      /\ \A e \in DOMAIN edges : edges'[e] = edges[e]
      /\ \A e \in OutEdges(x) : edges'[e] = IF e \in u THEN "SKIPPED" ELSE "VISITED"
      /\ \A e \in OutEdges(x) : e.src = x.ref /\ e.stream = x.stream
      /\ queue \subseteq queue'
  BY EmissionGraph
<1>2. Frame(t) /\ QueueTasks(x, u)  BY DEF Emission
<1>3. Grows(t)  BY <1>1, <1>2 DEF Grows
<1>4. Decided(x)'
  <2>1. OutEdges(x)' = OutEdges(x)  BY <1>1, SameScopes
  <2>2. QED  BY <1>1, <2>1 DEF Decided
<1>5. \A y \in Task : InEdges(y) \subseteq DOMAIN edges' /\ ~ (InEdges(y) \subseteq DOMAIN edges) => y \in queue'
  BY <1>1, <1>2, Parts, QueueTasksReaches
<1>6. \A e \in DOMAIN edges' \ DOMAIN edges :
        dsl.kind[e.src] # "action" /\ ~ IsSkipStream(e.stream) => edges'[e] = "VISITED"
  BY <1>1
<1>7. FlowInv'  BY <1>3, <1>5, <1>6, FlowKept
<1>8. QED  BY <1>2, <1>3, <1>4, <1>7 DEF Emission

LEMMA OwnLost ==
  ASSUME Scoped, ScopeInv, NothingLost, TypeOK', NEW t \in DOMAIN pending, NEW u, OwnStep(t, u)
  PROVE  NothingLost'
<1> SUFFICES ASSUME Calm' PROVE FlowInv' /\ TableInv' /\ OpenExact' /\ GathersDecide'
  BY DEF NothingLost
<1>1. /\ Emission(t, t, u) /\ t \notin DOMAIN pending' /\ UNCHANGED <<task_streams, open_streams>>
  BY OwnEmission
<1>2. dsl.kind[t.ref] = "action" \/ Dead(t.stream)  BY DEF OwnStep
<1>3. /\ Frame(t) /\ Grows(t) /\ FlowInv' /\ Decided(t)'
  BY <1>1, <1>2, EmissionFlow DEF Dead
<1>4. t \notin DOMAIN task_streams /\ t \notin DOMAIN open_streams
  BY RunningEntries DEF OwnStep
<1>5. InScope(t) => dsl.kind[t.ref] = "action"  BY <1>2 DEF Dead, InScope, Execution
<1>6. ~ Finalizing(t)
  BY <1>2, FinalizingParts DEF Dead, Execution
<1>7. ParentScatter(t) \in DOMAIN open_streams => ~ Dead(t.stream)
  BY DEF Dead, ParentScatter, Maker
<1>8. TableInv'  BY <1>1, <1>3, <1>4, <1>5, TablesKept
<1>9. OpenExact'  BY <1>1, <1>3, <1>4, <1>5, <1>6, ExactKept
<1>10. GathersDecide'  BY <1>1, <1>2, <1>3, <1>4, <1>6, <1>7, GathersKept
<1>11. QED  BY <1>3, <1>8, <1>9, <1>10

\* A scatter of a scope runs: no scatter or gather before it skips it.
LEMMA ScatterRuns ==
  ASSUME Closable, ScopeInv, NothingLost, Calm, NEW t \in DOMAIN pending, SkipStep(t)
  PROVE  ~ InScope(t)
<1> SUFFICES ASSUME InScope(t) PROVE FALSE  OBVIOUS
<1>1. Scoped /\ InnerScattersRun(dsl)  BY Parts DEF Closable, TypeOK
<1>2. t \in Task /\ t.ref \in dsl.refs /\ dsl.kind[t.ref] = "scatter"  BY RunningEntries DEF SkipStep, Task
<1>3. LeafRef(t.stream) \in dsl.refs /\ Scope(dsl)[t.ref] = {LeafRef(t.stream)} /\ ~ IsSkipStream(t.stream)
  BY <1>1, <1>2, Parts, ExecutionParts DEF InScope, Execution
<1>4. t.ref \notin dsl.runIf /\ \A d \in dsl.deps[t.ref] : dsl.kind[d[1]] # "action"
  BY <1>1, <1>2, <1>3 DEF InnerScattersRun
<1>5. InEdges(t) # {} /\ \A e \in InEdges(t) : Marker(e) = "SKIPPED"
  BY <1>4 DEF SkipStep, SkipShouldPropagate
<1>6. PICK d \in dsl.deps[t.ref] : Marker(DepEdge(d, t)) = "SKIPPED"  BY <1>5 DEF InEdges
<1>7. DepEdge(d, t) \in DOMAIN edges /\ edges[DepEdge(d, t)] = "SKIPPED"  BY <1>6 DEF Marker
<1>8. DepEdge(d, t).src = d[1] /\ DepEdge(d, t).stream = t.stream  BY DEF DepEdge, EdgeOf
<1>9. QED  BY <1>3, <1>4, <1>7, <1>8 DEF NothingLost, FlowInv, GatesVisit

LEMMA SkipLost ==
  ASSUME Closable, ScopeInv, NothingLost, TypeOK', NEW t \in DOMAIN pending, SkipStep(t) \/ EmptyStep(t)
  PROVE  NothingLost'
<1> SUFFICES ASSUME Calm' PROVE FlowInv' /\ TableInv' /\ OpenExact' /\ GathersDecide'
  BY DEF NothingLost
<1> DEFINE x == Below(t, SKIP)
<1>0. Scoped  BY DEF Closable
<1>1. Emission(t, x, OutEdges(x)) /\ t \notin DOMAIN pending' /\ t \in Task
  BY <1>0, SkipEmission, RunningEntries
<1>2. IsSkipStream(x.stream)
  <2>1. SKIP \in Int  BY DEF SKIP
  <2>2. QED  BY <1>1, <2>1, SubParts DEF TaskOf
<1>3. /\ Frame(t) /\ Grows(t) /\ FlowInv' /\ Decided(x)'
      /\ \A p \in DOMAIN open_streams : open_streams'[p] = open_streams[p]
  BY <1>0, <1>1, <1>2, EmissionFlow
<1>4. /\ dsl.kind[t.ref] = "scatter" /\ t \notin DOMAIN task_streams /\ t \notin DOMAIN open_streams
  BY RunningEntries DEF SkipStep, EmptyStep
<1>5. Calm  BY <1>3, CalmBefore
<1>6. ~ Finalizing(t)  BY <1>0, <1>4, FinalizingParts
<1>7. \/ t \notin DOMAIN task_streams' /\ t \notin DOMAIN open_streams' /\ ~ InScope(t)
      \/ t \in DOMAIN task_streams' /\ t \in DOMAIN open_streams' /\ task_streams'[t] = 0 /\ open_streams'[t] = 0
  <2>1. CASE SkipStep(t)
    <3>1. ~ InScope(t)  BY <1>5, <2>1, ScatterRuns
    <3>2. QED  BY <1>4, <2>1, <3>1 DEF SkipStep, scopes
  <2>2. CASE EmptyStep(t)  BY <2>2 DEF EmptyStep, SetOpenStreams
  <2>3. QED  BY <2>1, <2>2
<1>8. TableInv'
  <2>1. t \in DOMAIN task_streams' => \A i \in 0 .. task_streams'[t] - 1 : Decided(Below(t, i))'
    BY <1>7
  <2>2. QED  BY <1>3, <1>4, <1>7, <2>1, TablesKept
<1>9. OpenExact'  BY <1>0, <1>1, <1>3, <1>4, <1>6, <1>7, ExactKept
<1>10. GathersDecide'  BY <1>0, <1>3, <1>4, <1>6, <1>7, GathersKept
<1>11. QED  BY <1>3, <1>8, <1>9, <1>10

LEMMA MakeLost ==
  ASSUME Scoped, ScopeInv, NothingLost, TypeOK', NEW t \in DOMAIN pending, NEW k \in Nat, MakeStep(t, k)
  PROVE  NothingLost'
<1> SUFFICES ASSUME Calm' PROVE FlowInv' /\ TableInv' /\ OpenExact' /\ GathersDecide'
  BY DEF NothingLost
<1>1. /\ Emission(t, Below(t, k), {}) /\ pending'[t].at = "scattering" /\ completed_tasks' = completed_tasks
      /\ open_streams' = open_streams
  BY MakeEmission
<1>2. /\ Frame(t) /\ Grows(t) /\ FlowInv' /\ Decided(Below(t, k))'
  BY <1>1, EmissionFlow
<1>3. /\ dsl.kind[t.ref] = "scatter" /\ t \notin DOMAIN open_streams /\ t \notin completed_tasks
      /\ t \in DOMAIN task_streams' /\ task_streams'[t] = k + 1
  BY RunningEntries, Parts DEF MakeStep, CreateStream, Counted, RunsOnce
<1>4. ~ Finalizing(t)  BY <1>3, FinalizingParts
<1>5. ASSUME NEW i \in 0 .. task_streams'[t] - 1  PROVE Decided(Below(t, i))'
  <2>1. i \in 0 .. k  BY <1>3
  <2>2. CASE i = k  BY <1>2, <2>2
  <2>3. CASE i # k
    <3>1. t \in DOMAIN task_streams /\ i \in 0 .. task_streams[t] - 1  BY <2>1, <2>3 DEF MakeStep
    <3>2. TableInv  BY <1>2, CalmBefore
    <3>3. Decided(Below(t, i))  BY <3>1, <3>2 DEF TableInv, ScattersDecide
    <3>4. QED  BY <1>2, <3>3, DecidedStays
  <2>4. QED  BY <2>2, <2>3
<1>6. TableInv'
  <2>1. task_streams'[t] # 0  BY <1>3
  <2>2. QED  BY <1>1, <1>2, <1>3, <1>5, <2>1, TablesKept
<1>7. OpenExact'  BY <1>1, <1>2, <1>3, <1>4, ExactKept
<1>8. GathersDecide'  BY <1>1, <1>2, <1>3, <1>4, GathersKept
<1>9. QED  BY <1>2, <1>6, <1>7, <1>8

LEMMA UpLost ==
  ASSUME Scoped, ScopeInv, NothingLost, TypeOK', NEW t \in DOMAIN pending, UpStep(t)
  PROVE  NothingLost'
<1> SUFFICES ASSUME Calm' PROVE FlowInv' /\ TableInv' /\ OpenExact' /\ GathersDecide'
  BY DEF NothingLost
<1>1. /\ Emission(t, ParentGather(t), {}) /\ t \notin DOMAIN pending'
      /\ UNCHANGED <<task_streams, open_streams>>
  BY UpEmission
<1>2. /\ Frame(t) /\ Grows(t) /\ FlowInv' /\ Decided(ParentGather(t))'
  BY <1>1, EmissionFlow
<1>3. /\ Closing(t) /\ dsl.kind[t.ref] = "gather" /\ t \notin DOMAIN task_streams /\ t \notin DOMAIN open_streams
      /\ ParentScatter(t) \in DOMAIN open_streams
  BY ClosingParts, RunningEntries, Parts DEF UpStep, ScattersKnown
<1>4. InScope(t) => Closed(t)
  BY <1>3, Parts DEF InScope, Execution, Closing, Closed, PhasesFit, PhaseFit
<1>5. TableInv'  BY <1>1, <1>2, <1>3, TablesKept
<1>6. OpenExact'  BY <1>1, <1>2, <1>3, <1>4, ExactKept
<1>7. GathersDecide'  BY <1>1, <1>2, <1>3, GathersKept
<1>8. QED  BY <1>2, <1>5, <1>6, <1>7

\* The steps that decide no edge.
LEMMA QuietLost ==
  ASSUME Scoped, TInv, ScopeInv, NothingLost, TypeOK', NEW t \in DOMAIN pending,
         DropStep(t) \/ EndStep(t) \/ CloseStep(t) \/ \E at : MoveStep(t, at)
  PROVE  NothingLost'
<1> SUFFICES ASSUME Calm' PROVE FlowInv' /\ TableInv' /\ OpenExact' /\ GathersDecide'
  BY DEF NothingLost
<1>1. Frame(t) /\ UNCHANGED <<dsl, edges, queue, task_streams>>  BY QuietFrame
<1>2. Grows(t)  BY <1>1 DEF Grows
<1>3. FlowInv'  BY <1>1, <1>2, FlowKept
<1>4. CASE DropStep(t)  BY <1>4 DEF DropStep
<1>5. CASE EndStep(t)
  <2>1. /\ dsl.kind[t.ref] = "scatter" /\ t \notin DOMAIN open_streams /\ t \in DOMAIN task_streams
        /\ t \in DOMAIN open_streams' /\ open_streams'[t] = task_streams[t]
        /\ \A p \in DOMAIN open_streams : open_streams'[p] = open_streams[p]
    <3>1. t \notin DOMAIN open_streams /\ dsl.kind[t.ref] = "scatter"
      BY <1>5, RunningEntries, Parts DEF EndStep, Scattering, PhasesFit, PhaseFit
    <3>2. /\ t \in DOMAIN open_streams' /\ open_streams'[t] = task_streams[t]
          /\ \A p \in DOMAIN open_streams : p # t => open_streams'[p] = open_streams[p]
      BY <1>5 DEF EndStep, SetOpenStreams
    <3>3. t \in DOMAIN task_streams  BY <1>5 DEF EndStep, Scattering, TInv, ScatterTracked
    <3>4. QED  BY <3>1, <3>2, <3>3
  <2>2. ~ Finalizing(t)  BY <2>1, FinalizingParts
  <2>3. TableInv  BY <1>1, CalmBefore
  <2>4. /\ \A i \in 0 .. task_streams'[t] - 1 : Decided(Below(t, i))'
        /\ task_streams'[t] = 0 => Decided(Below(t, SKIP))'
    BY <1>1, <1>2, <2>1, <2>3, DecidedStays DEF TableInv, ScattersDecide
  <2>5. TableInv'  BY <1>2, <2>1, <2>4, TablesKept
  <2>6. OpenExact'  BY <1>1, <2>1, <2>2, ExactKept
  <2>7. GathersDecide'  BY <1>1, <1>2, <2>1, <2>2, GathersKept
  <2>8. QED  BY <1>3, <2>5, <2>6, <2>7
<1>6. CASE CloseStep(t)
  <2>1. /\ dsl.kind[t.ref] = "gather" /\ t \notin DOMAIN task_streams
        /\ ParentScatter(t) \in DOMAIN open_streams
    BY <1>6, Parts DEF CloseStep, ScattersKnown
  <2>2. TableInv'  BY <1>1, <1>2, <2>1, TablesKept
  <2>3. QED  BY <1>3, <1>6, <2>2, CloseExact, CloseGathers
<1>7. CASE \E at : MoveStep(t, at)
  <2>1. PICK at : MoveStep(t, at)  BY <1>7
  <2>2. /\ t \in DOMAIN pending' /\ pending'[t].at = at /\ completed_tasks' = completed_tasks
        /\ open_streams' = open_streams /\ t \notin completed_tasks
    BY <2>1, Parts DEF MoveStep, Suspend, scopes, Counted, RunsOnce
  <2>3. t \notin DOMAIN task_streams /\ t \notin DOMAIN open_streams
    BY <2>1, RunningEntries DEF MoveStep
  <2>4. Finalizing(t)' <=> Finalizing(t)
    BY <2>1, <2>2 DEF MoveStep, Finalizing, Closing
  <2>5. Closed(t)' => Closed(t) /\ ParentScatter(t) \in DOMAIN open_streams
    BY <2>2, <2>4, ClosingParts DEF Closed, Closing
  <2>6. TableInv'  BY <1>1, <1>2, <2>2, <2>3, <2>5, TablesKept
  <2>7. OpenExact'  BY <1>1, <2>2, <2>3, <2>4, <2>5, ExactKept
  <2>8. GathersDecide'  BY <1>1, <1>2, <2>2, <2>3, <2>4, GathersKept
  <2>9. QED  BY <1>3, <2>6, <2>7, <2>8
<1>8. QED  BY <1>4, <1>5, <1>6, <1>7

\* The main loop starts everything that is queued.
LEMMA LoopLost ==
  ASSUME Scoped, ScopeInv, NothingLost, LoopFrame
  PROVE  NothingLost'
<1> SUFFICES ASSUME Calm' PROVE FlowInv' /\ TableInv' /\ OpenExact' /\ GathersDecide'
  BY DEF NothingLost
<1>1. UNCHANGED <<dsl, edges, completed_tasks, task_exceptions, task_streams, open_streams>>
  BY DEF LoopFrame
<1>2. Calm /\ FlowInv /\ TableInv /\ OpenExact /\ GathersDecide
  BY <1>1 DEF NothingLost, Calm
<1>3. /\ queue \union DOMAIN pending \subseteq queue' \union DOMAIN pending'
      /\ loop' = "returned" => queue' = {} \/ (loop = "returned" /\ queue' = queue)
      /\ \A z \in DOMAIN pending : pending[z].at # "created" => z \in DOMAIN pending'
      /\ \A z \in DOMAIN pending' :
           \/ z \in DOMAIN pending /\ pending'[z] = pending[z]
           \/ z \in queue /\ pending'[z].at = "created"
  BY <1>2 DEF LoopFrame
<1>4. ASSUME NEW z  PROVE Finalizing(z)' <=> Finalizing(z)
  BY <1>3, Parts DEF Finalizing, Counted, RunsOnce
<1>5. ASSUME NEW z  PROVE Closed(z)' <=> Closed(z)  BY <1>1, <1>4 DEF Closed
<1>6. /\ Task' = Task /\ \A q : Gathers(q)' = Gathers(q)
      /\ \A z : InScope(z)' <=> InScope(z)
      /\ \A z : InEdges(z)' = InEdges(z) /\ OutEdges(z)' = OutEdges(z)
  BY <1>1, SameScopes
<1>7. \A z : Decided(z)' <=> Decided(z)  BY <1>1, <1>6 DEF Decided
<1>8. /\ \A z : ParentScatter(z)' = ParentScatter(z)
      /\ \A z : ParentGather(z)' = ParentGather(z)
  BY DEF ParentScatter, ParentGather, TaskOf, LeafRef, Parent
<1>9. FlowInv'
  <2>1. GatesVisit'
    BY <1>1, <1>2 DEF FlowInv, GatesVisit, IsSkipStream, LeafIndex, ROOT_STREAM
  <2>2. Alive \subseteq Alive'  BY <1>1, <1>2, <1>3 DEF Alive, Started
  <2>3. ReadyRun'  BY <1>1, <1>2, <1>6, <2>2 DEF FlowInv, ReadyRun
  <2>4. ReturnedIdle'  BY <1>2, <1>3 DEF FlowInv, ReturnedIdle
  <2>5. QED  BY <2>1, <2>3, <2>4 DEF FlowInv
<1>10. TableInv'
  <2>1. ScattersObserved'  BY <1>1, <1>2, <1>6 DEF TableInv, ScattersObserved
  <2>2. GathersObserve'  BY <1>1, <1>2, <1>5, <1>6, <1>8 DEF TableInv, GathersObserve
  <2>3. ActionsDecide'  BY <1>1, <1>2, <1>7 DEF TableInv, ActionsDecide
  <2>4. ScattersDecide'
    BY <1>1, <1>2, <1>7 DEF TableInv, ScattersDecide, Below, TaskOf, Child, SKIP
  <2>5. QED  BY <2>1, <2>2, <2>3, <2>4 DEF TableInv
<1>11. OpenExact'
  <2>1. ASSUME NEW p  PROVE Unclosed(p)' = Unclosed(p)
    BY <1>1, <1>5, UnclosedAs
  <2>2. QED  BY <1>1, <1>2, <2>1 DEF OpenExact
<1>12. GathersDecide'
  <2>1. ASSUME NEW p \in DOMAIN open_streams, NEW g \in Gathers(p.ref)
        PROVE  /\ task_streams[p] > 0 /\ open_streams[p] = 0 =>
                    \/ Decided(TaskOf(g, p.stream))
                    \/ \E u \in DOMAIN pending' : Finalizing(u)' /\ ParentGather(u) = TaskOf(g, p.stream)
               /\ task_streams[p] = 0 /\ TaskOf(g, Sub(p, SKIP)) \in completed_tasks =>
                    Decided(TaskOf(g, p.stream))
    <3>1. \A u \in DOMAIN pending : Finalizing(u) => u \in DOMAIN pending' /\ Finalizing(u)'
      BY <1>4 DEF Finalizing
    <3>2. QED  BY <1>2, <3>1 DEF GathersDecide
  <2>2. QED  BY <1>1, <1>6, <1>7, <1>8, <2>1 DEF GathersDecide, TaskOf, Sub, Child, SKIP
<1>13. QED  BY <1>9, <1>10, <1>11, <1>12

LEMMA InitLost ==
  ASSUME Init
  PROVE  NothingLost
<1>1. /\ DOMAIN edges = {} /\ DOMAIN pending = {} /\ completed_tasks = {} /\ loop = "ready"
      /\ DOMAIN task_streams = {} /\ DOMAIN open_streams = {}
  BY DEF Init, EmptyDict
<1>2. FlowInv  BY <1>1 DEF FlowInv, GatesVisit, ReadyRun, ReturnedIdle
<1>3. \A t : ~ Closed(t)  BY <1>1 DEF Closed, Finalizing
<1>4. TableInv
  BY <1>1, <1>3 DEF TableInv, ScattersObserved, GathersObserve, ActionsDecide, ScattersDecide
<1>5. QED  BY <1>1, <1>2, <1>4 DEF NothingLost, OpenExact, GathersDecide

-----------------------------------------------------------------------------
(***************************************************************************)
(* The run has returned.                                                   *)
(***************************************************************************)
Idle == loop = "returned" /\ Calm

\* What depends on a task that has decided its edges.
LEMMA DepDecided ==
  ASSUME NEW y \in Task, dsl.deps \in [dsl.refs -> SUBSET (dsl.refs \X EdgeTypes)], NEW d \in dsl.deps[y.ref],
         NEW x, x.ref = d[1], x.stream = y.stream, Decided(x)
  PROVE  DepEdge(d, y) \in DOMAIN edges
<1>1. y.ref \in dsl.refs /\ d = <<d[1], d[2]>> /\ d[2] \in EdgeTypes  BY DEF Task
<1>2. <<y.ref, d[2]>> \in dsl.refs \X EdgeTypes /\ <<x.ref, d[2]>> \in dsl.deps[y.ref]  BY <1>1
<1>3. EdgeOf(x.ref, y.ref, d[2], x.stream) \in OutEdges(x)
  <2> DEFINE b == <<y.ref, d[2]>>
  <2>1. b \in {c \in dsl.refs \X EdgeTypes : <<x.ref, c[2]>> \in dsl.deps[c[1]]}  BY <1>2
  <2>2. EdgeOf(x.ref, b[1], b[2], x.stream) \in OutEdges(x)  BY <2>1 DEF OutEdges
  <2>3. QED  BY <2>2
<1>4. DepEdge(d, y) = EdgeOf(x.ref, y.ref, d[2], x.stream)  BY DEF DepEdge
<1>5. QED  BY <1>3, <1>4 DEF Decided

\* Everything in the scope of a stream has run, if the inner gathers have gone on.
LEMMA StreamDone ==
  ASSUME Scoped, ScopeInv, NothingLost, Idle, NEW p \in DOMAIN open_streams, NEW i,
         i \in 0 .. task_streams[p] - 1 \/ (i = SKIP /\ task_streams[p] = 0),
         \A z \in dsl.refs :
           dsl.kind[z] = "scatter" /\ Scope(dsl)[z] = {p.ref} /\ TaskOf(z, Sub(p, i)) \in completed_tasks =>
             \A g \in Gathers(z) : Decided(TaskOf(g, Sub(p, i))),
         NEW r \in dsl.refs, Scope(dsl)[r] = {p.ref}
  PROVE  TaskOf(r, Sub(p, i)) \in completed_tasks
<1> SUFFICES ASSUME TaskOf(r, Sub(p, i)) \notin completed_tasks PROVE FALSE  OBVIOUS
<1> DEFINE s == Sub(p, i)
           U == {x \in dsl.refs : Scope(dsl)[x] = {p.ref} /\ TaskOf(x, s) \notin completed_tasks}
<1>1. /\ p \in Task /\ p \in DOMAIN task_streams /\ task_streams[p] \in Nat
  BY Parts DEF ScattersKnown, TypeOK
<1>2. i \in Int  BY <1>1 DEF SKIP
<1>3. s \in StreamId /\ Below(p, i) = TaskOf(p.ref, s)  BY <1>1, <1>2, SubParts
<1>4. FlowInv /\ TableInv /\ DOMAIN pending = {} /\ queue = {}
  BY Parts DEF Idle, NothingLost, FlowInv, ReturnedIdle, PhasesFit
<1>5. U \in SUBSET dsl.refs /\ U # {}  OBVIOUS
<1>6. PICK m \in U : \A x \in U : Rank(dsl)[m] <= Rank(dsl)[x]  BY <1>5, Parts, LowestRef
<1> DEFINE y == TaskOf(m, s)
<1>7. m \in dsl.refs /\ Scope(dsl)[m] = {p.ref} /\ y \notin completed_tasks /\ y \in Task
      /\ y.ref = m /\ y.stream = s
  BY <1>3, <1>6 DEF Task, TaskOf
<1>8. /\ Rank(dsl) \in [dsl.refs -> Nat]
      /\ \A d \in dsl.deps[m] : Rank(dsl)[d[1]] < Rank(dsl)[m] /\ {p.ref} = SuccScope(dsl, Scope(dsl), d[1])
      /\ dsl.deps[m] # {}
      /\ Scope(dsl) \in [dsl.refs -> {{}} \union {{q} : q \in dsl.refs}]
  BY <1>7, Parts, ScopeLaws DEF ScopedBy
<1>9. dsl.deps \in [dsl.refs -> SUBSET (dsl.refs \X EdgeTypes)]
      /\ dsl.kind \in [dsl.refs -> {"action", "scatter", "gather"}]
  BY Parts, DslOK DEF WorkflowOK
<1> HIDE DEF s, U, y
<1>10. ASSUME NEW x \in dsl.refs, Scope(dsl)[x] = {p.ref}, Rank(dsl)[x] < Rank(dsl)[m]
       PROVE  TaskOf(x, s) \in completed_tasks
  <2>1. x \notin U  BY <1>6, <1>7, <1>8, <1>10
  <2>2. QED  BY <1>10, <2>1 DEF U
<1>11. ASSUME NEW d \in dsl.deps[m]  PROVE DepEdge(d, y) \in DOMAIN edges
  <2>1. /\ d[1] \in dsl.refs /\ Rank(dsl)[d[1]] < Rank(dsl)[m] /\ {p.ref} = SuccScope(dsl, Scope(dsl), d[1])
    <3>1. d \in dsl.refs \X EdgeTypes  BY <1>7, <1>9
    <3>2. d[1] \in dsl.refs  BY <3>1
    <3>3. QED  BY <1>8, <3>2
  <2>2. SUFFICES Decided(TaskOf(d[1], s))
    <3>1. TaskOf(d[1], s).ref = d[1] /\ TaskOf(d[1], s).stream = y.stream  BY <1>7 DEF TaskOf
    <3>2. QED  BY <1>7, <1>9, <2>2, <3>1, DepDecided
  <2>3. CASE dsl.kind[d[1]] = "scatter"
    <3>1. d[1] = p.ref  BY <2>1, <2>3 DEF SuccScope
    <3>2. Decided(Below(p, i))  BY <1>1, <1>4 DEF TableInv, ScattersDecide
    <3>3. QED  BY <1>3, <3>1, <3>2 DEF s
  <2>4. CASE dsl.kind[d[1]] = "action"
    <3>1. Scope(dsl)[d[1]] = {p.ref}  BY <2>1, <2>4 DEF SuccScope
    <3>2. TaskOf(d[1], s) \in completed_tasks  BY <1>10, <2>1, <3>1
    <3>3. TaskOf(d[1], s).ref = d[1]  BY DEF TaskOf
    <3>4. QED  BY <1>4, <2>4, <3>2, <3>3 DEF TableInv, ActionsDecide
  <2>5. CASE dsl.kind[d[1]] = "gather"
    <3>1. {p.ref} = UNION {Scope(dsl)[z] : z \in Scope(dsl)[d[1]]}  BY <2>1, <2>5 DEF SuccScope
    <3>2. PICK z \in Scope(dsl)[d[1]] : p.ref \in Scope(dsl)[z]  BY <3>1
    <3>3. Scope(dsl)[d[1]] = {z} /\ z \in dsl.refs  BY <1>8, <2>1, <3>2
    <3>4. Scope(dsl)[z] = {p.ref}  BY <1>8, <3>2, <3>3
    <3>5. dsl.kind[z] = "scatter" /\ Rank(dsl)[z] < Rank(dsl)[d[1]]  BY <2>1, <3>3, Parts, ScopeScatter
    <3>6. Rank(dsl)[z] < Rank(dsl)[m]  BY <1>7, <1>8, <2>1, <3>3, <3>5
    <3>7. TaskOf(z, s) \in completed_tasks  BY <1>10, <3>3, <3>4, <3>6
    <3>8. d[1] \in Gathers(z)  BY <2>1, <2>5, <3>3 DEF Gathers
    <3>9. QED  BY <3>3, <3>4, <3>5, <3>7, <3>8 DEF s
  <2>6. QED  BY <1>9, <2>1, <2>3, <2>4, <2>5
<1>12. InEdges(y) # {} /\ InEdges(y) \subseteq DOMAIN edges
  BY <1>7, <1>8, <1>11 DEF InEdges
<1>13. y \in Alive  BY <1>4, <1>7, <1>12 DEF FlowInv, ReadyRun
<1>14. QED  BY <1>4, <1>7, <1>13 DEF Alive, Started

\* The gather of a scatter without items goes on: no scatter is in its scope.
LEMMA EmptyDone ==
  ASSUME Closable, ScopeInv, NothingLost, Idle, NEW p \in DOMAIN open_streams, task_streams[p] = 0,
         Scope(dsl)[p.ref] # {}, NEW g \in Gathers(p.ref)
  PROVE  Decided(TaskOf(g, p.stream))
<1>1. Scoped /\ InnerScattersRun(dsl)  BY Parts DEF Closable, TypeOK
<1>2. p.ref \in dsl.refs  BY Parts DEF TypeOK, Task
<1>3. \A z \in dsl.refs : ~ (dsl.kind[z] = "scatter" /\ Scope(dsl)[z] = {p.ref})
  BY <1>1, <1>2 DEF InnerScattersRun
<1>4. g \in dsl.refs /\ Scope(dsl)[g] = {p.ref}  BY DEF Gathers
<1>5. TaskOf(g, Sub(p, SKIP)) \in completed_tasks  BY <1>1, <1>3, <1>4, StreamDone
<1>6. QED  BY <1>5 DEF Idle, NothingLost, GathersDecide

LEMMA StreamsClose ==
  ASSUME Closable, ScopeInv, NothingLost
  PROVE  AllStreamsClosed
<1> SUFFICES ASSUME Idle, NEW p0 \in DOMAIN open_streams, open_streams[p0] # 0 PROVE FALSE
  BY DEF AllStreamsClosed, Idle, Calm
<1> DEFINE P == {p \in DOMAIN open_streams : open_streams[p] # 0}
           R == {p.ref : p \in P}
<1>1. Scoped /\ NoDeadEnds(dsl) /\ TypeOK  BY Parts DEF Closable, TypeOK
<1>2. ASSUME NEW p \in DOMAIN open_streams
      PROVE  /\ p \in Task /\ p.ref \in dsl.refs /\ p \in DOMAIN task_streams /\ task_streams[p] \in Nat
             /\ dsl.kind[p.ref] = "scatter" /\ open_streams[p] \in Int
  BY <1>1, Parts DEF TypeOK, Task, ScattersKnown
<1>3. R \in SUBSET dsl.refs /\ R # {}  BY <1>2
<1>4. PICK h \in R : \A x \in R : Rank(dsl)[x] <= Rank(dsl)[h]  BY <1>1, <1>3, HighestRef
<1>5. PICK p \in P : p.ref = h  BY <1>4
<1>6. /\ p \in DOMAIN open_streams /\ open_streams[p] # 0 /\ p \in Task /\ p.ref \in dsl.refs
      /\ p \in DOMAIN task_streams /\ task_streams[p] \in Nat /\ dsl.kind[p.ref] = "scatter"
      /\ open_streams[p] \in Int
  BY <1>2, <1>5
<1>7. \A q \in DOMAIN open_streams : open_streams[q] # 0 => Rank(dsl)[q.ref] <= Rank(dsl)[p.ref]
  BY <1>4, <1>5
<1> HIDE DEF P, R
<1>8. /\ TableInv /\ OpenExact /\ GathersDecide /\ DOMAIN pending = {}
  BY Parts DEF Idle, NothingLost, PhasesFit
<1>9. PICK i \in Unclosed(p) : TRUE
  <2>1. IsFiniteSet(Unclosed(p)) /\ Cardinality(Unclosed(p)) \in Nat  BY <1>6, UnclosedFinite
  <2>2. Cardinality(Unclosed(p)) <= open_streams[p]  BY <1>6, Parts DEF OpenCounts
  <2>3. open_streams[p] <= Cardinality(Unclosed(p))  BY <1>6, <1>8 DEF OpenExact
  <2>4. Cardinality(Unclosed(p)) # 0  BY <1>6, <2>1, <2>2, <2>3
  <2>5. QED  BY <2>1, <2>4, FS_EmptySet
<1>10. i \in 0 .. task_streams[p] - 1 /\ \A g \in Gathers(p.ref) : TaskOf(g, Sub(p, i)) \notin completed_tasks
  BY DEF Unclosed, Gathers, Sub
<1>11. i \in Int /\ i # SKIP  BY <1>6, <1>10 DEF SKIP
<1>12. ASSUME NEW z \in dsl.refs, dsl.kind[z] = "scatter", Scope(dsl)[z] = {p.ref},
              TaskOf(z, Sub(p, i)) \in completed_tasks, NEW g \in Gathers(z)
       PROVE  Decided(TaskOf(g, Sub(p, i)))
  <2> DEFINE q == TaskOf(z, Sub(p, i))
  <2>1. q.ref = z /\ q.stream = Sub(p, i)  BY DEF TaskOf
  <2>2. InScope(q)  BY <1>6, <1>11, <1>12, <2>1, SubParts DEF InScope, Execution
  <2>3. q \in DOMAIN open_streams  BY <1>8, <1>12, <2>1, <2>2 DEF TableInv, ScattersObserved
  <2>4. task_streams[q] \in Nat  BY <1>2, <2>3
  <2>5. open_streams[q] = 0
    <3>1. Rank(dsl)[p.ref] < Rank(dsl)[z]  BY <1>1, <1>12, ScopeScatter
    <3>2. Rank(dsl)[p.ref] \in Nat /\ Rank(dsl)[z] \in Nat  BY <1>1, <1>6, ScopeLaws DEF ScopedBy
    <3>3. QED  BY <1>7, <2>1, <2>3, <3>1, <3>2
  <2>6. CASE task_streams[q] > 0
    BY <1>8, <2>1, <2>3, <2>5, <2>6 DEF GathersDecide
  <2>7. CASE task_streams[q] = 0
    <3>1. Scope(dsl)[q.ref] # {}  BY <1>12, <2>1
    <3>2. QED  BY <2>1, <2>3, <2>7, <3>1, EmptyDone
  <2>8. QED  BY <2>4, <2>6, <2>7
<1>13. PICK g \in dsl.refs : dsl.kind[g] = "gather" /\ Scope(dsl)[g] = {p.ref}
  BY <1>1, <1>6 DEF NoDeadEnds
<1>14. TaskOf(g, Sub(p, i)) \in completed_tasks
  BY <1>1, <1>6, <1>10, <1>12, <1>13, StreamDone
<1>15. QED  BY <1>10, <1>13, <1>14 DEF Gathers

LEMMA TaskLost ==
  ASSUME Closable, TInv, ScopeInv, NothingLost, TypeOK', NEW t \in DOMAIN pending, TaskStep(t)
  PROVE  NothingLost'
<1>0. Scoped  BY DEF Closable
<1>1. StepKind(t)  BY <1>0, TaskKind
<1>2. CASE \E u : OwnStep(t, u)  BY <1>0, <1>2, OwnLost
<1>3. CASE SkipStep(t) \/ EmptyStep(t)  BY <1>3, SkipLost
<1>4. CASE \E i \in Nat : MakeStep(t, i)  BY <1>0, <1>4, MakeLost
<1>5. CASE UpStep(t)  BY <1>0, <1>5, UpLost
<1>6. CASE DropStep(t) \/ EndStep(t) \/ CloseStep(t) \/ \E at : MoveStep(t, at)
  BY <1>0, <1>6, QuietLost
<1>7. QED  BY <1>1, <1>2, <1>3, <1>4, <1>5, <1>6 DEF StepKind

\* Workflows whose scopes have no dead ends and whose inner scatters are never
\* skipped: as long as no exception is recorded, open_streams is exactly the
\* number of streams still to be closed and everything that is ready runs.
THEOREM ClosableInvariant ==
  ASSUME Closable
  PROVE  Spec => []NothingLost
<1>0. Scoped  BY DEF Closable
<1>1. Init => TInv /\ ScopeInv /\ NothingLost  BY <1>0, InitTInv, InitScopeInv, InitLost DEF TInv
<1>2. TInv /\ ScopeInv /\ NothingLost /\ [Next]_vars => (TInv /\ ScopeInv /\ NothingLost)'
  <2> SUFFICES ASSUME TInv, ScopeInv, NothingLost, [Next]_vars
               PROVE  (TInv /\ ScopeInv /\ NothingLost)'
    OBVIOUS
  <2>1. TInv' /\ TypeOK'  BY NextTInv DEF TInv
  <2>2. ASSUME NEW t \in DOMAIN pending, TaskStep(t)  PROVE ScopeInv' /\ NothingLost'
    BY <1>0, <2>1, <2>2, TaskScopeInv, TaskLost
  <2>3. CASE LoopStep \/ UNCHANGED vars
    <3>1. ScopeInv'  BY <1>0, <2>1, <2>3, LoopScopeInv
    <3>2. LoopFrame  BY <2>3, LoopFrames
    <3>3. NothingLost'  BY <1>0, <3>2, LoopLost
    <3>4. QED  BY <2>1, <3>1, <3>3
  <2>4. QED  BY <2>1, <2>2, <2>3 DEF Next, Returned
<1>3. QED  BY <1>1, <1>2, PTL DEF Spec

\* When start() returns without exceptions every stream that a scatter opened
\* has been closed by a gather: open_streams is 0 for every scatter, and no
\* _handle_gather waits for a stream that nobody runs.
THEOREM ClosableStreamsClosed ==
  ASSUME Closable
  PROVE  Spec => []AllStreamsClosed
<1>1. Scoped  BY DEF Closable
<1>2. ScopeInv /\ NothingLost => AllStreamsClosed  BY StreamsClose
<1>3. QED  BY <1>1, <1>2, ScopedInvariant, ClosableInvariant, PTL

-----------------------------------------------------------------------------
(***************************************************************************)
(* A gather that raises fails the run.                                     *)
(***************************************************************************)

\* A stream that has failed is closed when the run returns.
LEMMA FailedClosed ==
  ASSUME Closable, ScopeInv, FailedMade, NothingLost, Idle, NEW s \in stream_exceptions
  PROVE  \E p \in DOMAIN open_streams : \E i \in 0 .. task_streams[p] - 1 :
           /\ s = Sub(p, i) /\ open_streams[p] = 0
           /\ \E g \in Gathers(p.ref) : Closed(TaskOf(g, s))
<1> DEFINE p == Maker(s)
           i == LeafIndex(s)
<1>1. TypeOK /\ s \in StreamId  BY Parts DEF TypeOK
<1>2. s # ROOT_STREAM /\ ~ IsSkipStream(s) /\ StreamMade(s)
  BY Parts DEF FailedMade, StreamsMade, Idle
<1>3. i # SKIP  BY <1>2 DEF IsSkipStream
<1>4. p \in DOMAIN task_streams /\ i \in 0 .. task_streams[p] - 1 /\ dsl.kind[LeafRef(s)] = "scatter"
  BY <1>2, <1>3 DEF StreamMade
<1>5. s = Sub(p, i)
  <2>1. s = Child(Parent(s), LeafRef(s), LeafIndex(s))  BY <1>1, <1>2, StreamParts
  <2>2. p.ref = LeafRef(s) /\ p.stream = Parent(s)  BY DEF Maker, TaskOf
  <2>3. QED  BY <2>1, <2>2 DEF Sub
<1> HIDE DEF p, i
<1>6. p \in completed_tasks /\ task_streams[p] \in Nat
  BY <1>1, <1>4, Parts DEF TypeOK, ScattersKnown, Started, PhasesFit, Idle
<1>7. p \in DOMAIN open_streams
  BY <1>4, <1>6 DEF Idle, NothingLost, TableInv, ScattersObserved
<1>8. open_streams[p] = 0  BY <1>7, StreamsClose DEF AllStreamsClosed, Idle, Calm
<1>9. i \notin Unclosed(p)
  <2>1. IsFiniteSet(Unclosed(p)) /\ Cardinality(Unclosed(p)) \in Nat  BY <1>6, UnclosedFinite
  <2>2. Cardinality(Unclosed(p)) <= 0  BY <1>7, <1>8, Parts DEF OpenCounts
  <2>3. Cardinality(Unclosed(p)) = 0  BY <2>1, <2>2
  <2>4. QED  BY <2>1, <2>3, FS_EmptySet
<1>10. PICK g \in Gathers(p.ref) : Closed(TaskOf(g, Sub(p, i)))
  BY <1>4, <1>9 DEF Unclosed, Gathers, Closed, Sub
<1>11. QED  BY <1>4, <1>5, <1>7, <1>8, <1>10

LEMMA RaisingFails ==
  ASSUME Closable, ScopeInv, ErrInv, NothingLost
  PROVE  RaisingGathersFail
<1> SUFFICES ASSUME Idle, stream_exceptions # {},
                    \A r \in dsl.refs : dsl.kind[r] = "gather" => r \in dsl.raises
             PROVE  FALSE
  BY DEF RaisingGathersFail, Idle, Calm
<1>1. FailedMade /\ SlotsHold /\ Raises /\ Calm  BY DEF ErrInv, TokenInv, SlotInv, Idle
<1>2. PICK s \in stream_exceptions : TRUE  OBVIOUS
<1>3. PICK p \in DOMAIN open_streams : \E i \in 0 .. task_streams[p] - 1 :
        /\ s = Sub(p, i) /\ open_streams[p] = 0
        /\ \E g \in Gathers(p.ref) : Closed(TaskOf(g, s))
  BY <1>1, FailedClosed
<1>4. PICK i \in 0 .. task_streams[p] - 1 :
        /\ s = Sub(p, i) /\ open_streams[p] = 0
        /\ \E g \in Gathers(p.ref) : Closed(TaskOf(g, s))
  BY <1>3
<1>5. PICK g \in Gathers(p.ref) : Closed(TaskOf(g, s))  BY <1>4
<1>6. p \in DOMAIN task_streams /\ DOMAIN pending = {}  BY Parts DEF ScattersKnown, PhasesFit, Idle
<1>7. ErrorSlot(p, g, i)  BY <1>1, <1>4, <1>5, <1>6 DEF SlotsHold
<1>8. g \in dsl.raises  BY DEF Gathers
<1>9. QED  BY <1>1, <1>4, <1>6, <1>7, <1>8 DEF Raises

\* A run in which an execution stream failed does not return as a success when
\* every gather raises on errors: _handle_error_path kept the error of the
\* stream out of task_exceptions, but it reaches a slot, the gather of that slot
\* is finalized and _handle_gather_result records it in task_exceptions.
THEOREM RaisedErrorsFail ==
  ASSUME Gathered, Closable
  PROVE  Spec => []RaisingGathersFail
<1>1. Scoped  BY DEF Gathered
<1>2. ScopeInv /\ ErrInv /\ NothingLost => RaisingGathersFail  BY RaisingFails
<1>3. QED  BY <1>1, <1>2, ScopedInvariant, GatheredInvariant, ClosableInvariant, PTL
=============================================================================
