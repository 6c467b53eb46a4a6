--------------------------- MODULE DSLValidation ----------------------------
(***************************************************************************)
(* Which workflows a run may be given: validate_structure of DSLInput      *)
(* (allama/dsl/common.py).  A scatter opens a scope named after it, its    *)
(* gather returns to the scope around it, and edges stay in one scope.     *)
(*                                                                         *)
(* Workflows are the records of DSLScheduler.  Its references are a set    *)
(* and its dependencies are sets, so the uniqueness of references and the  *)
(* existence of dependencies hold by WorkflowOK; expressions that mention  *)
(* other actions are not part of the record.                               *)
(***************************************************************************)
EXTENDS Integers, FiniteSets

ROOT_SCOPE == "<root>"

OfKind(w, k) == {r \in w.refs : w.kind[r] = k}

Sources(w, r) == {d[1] : d \in w.deps[r]}

Entrypoints(w) == {r \in w.refs : w.deps[r] = {}}

(***************************************************************************)
(* The topological pass visits everything, or there is a cycle.            *)
(***************************************************************************)
Acyclic(w) ==
  LET visited[n \in 0 .. Cardinality(w.refs)] ==
        IF n = 0 THEN {}
        ELSE {r \in w.refs : Sources(w, r) \subseteq visited[n - 1]}
  IN  visited[Cardinality(w.refs)] = w.refs

(***************************************************************************)
(* The scope in which each action is reached (curr_scope).  The code takes *)
(* the scope that the last visited predecessor leaves behind; any choice   *)
(* gives the same verdict, because the edges are compared afterwards.  The *)
(* scope around a scope is the one in which its scatter is reached.        *)
(***************************************************************************)
CurrScopes(w) ==
  LET curr[r \in w.refs] ==
        IF w.deps[r] = {} THEN ROOT_SCOPE
        ELSE LET p == CHOOSE p \in Sources(w, r) : TRUE
             IN  CASE w.kind[p] = "scatter" -> p
                   [] w.kind[p] = "gather"  ->
                        IF curr[p] = ROOT_SCOPE THEN ROOT_SCOPE ELSE curr[curr[p]]
                   [] OTHER                 -> curr[p]
  IN  curr

\* scope_hierarchy; the root has no scope around it.
ScopeParent(curr, s) == IF s = ROOT_SCOPE THEN "none" ELSE curr[s]

\* The scope assigned to an action: a scatter has its own, a gather the outer one.
ActionScope(w, curr, r) ==
  CASE w.kind[r] = "scatter" -> r
    [] w.kind[r] = "gather"  -> ScopeParent(curr, curr[r])
    [] OTHER                 -> curr[r]

EdgeInScope(w, curr, r, p) ==
  LET scope == ActionScope(w, curr, r)
      dep   == ActionScope(w, curr, p)
  IN  CASE w.kind[r] = "scatter" -> dep = ScopeParent(curr, scope)
        [] w.kind[r] = "gather"  -> scope = ScopeParent(curr, dep)
        [] OTHER                 -> dep = scope

ScopesValid(w) ==
  /\ Cardinality(OfKind(w, "gather")) <= Cardinality(OfKind(w, "scatter"))
  /\ OfKind(w, "scatter") # {} =>
       /\ Acyclic(w)
       /\ LET curr == CurrScopes(w)
          IN  /\ \A r \in OfKind(w, "gather") : curr[r] # ROOT_SCOPE
              /\ \A r \in w.refs : \A p \in Sources(w, r) : EdgeInScope(w, curr, r, p)

ValidateStructure(w) ==
  /\ w.refs # {}
  /\ Entrypoints(w) # {}
  /\ ScopesValid(w)
=============================================================================
