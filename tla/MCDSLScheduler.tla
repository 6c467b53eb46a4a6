--------------------------- MODULE MCDSLScheduler ---------------------------
(***************************************************************************)
(* Small workflows for model checking DSLScheduler.                        *)
(***************************************************************************)
EXTENDS DSLScheduler, DSLValidation, TLC

S(r) == <<r, "success">>
E(r) == <<r, "error">>

Workflow(deps, kind, join, raises, runIf, mayFail, mayFailSync) ==
  [refs |-> DOMAIN deps, deps |-> deps, kind |-> kind, join |-> join,
   raises |-> raises, runIf |-> runIf, mayFail |-> mayFail,
   mayFailSync |-> mayFailSync]

(***************************************************************************)
(* Every acyclic graph without scatter on three actions, with every mix of *)
(* success and error edges, every join strategy and every set of run_if.   *)
(***************************************************************************)
From(rs) == SUBSET (rs \X EdgeTypes)

Graphs3 ==
  {Workflow(("a" :> {}) @@ ("b" :> db) @@ ("c" :> dc),
            [r \in {"a", "b", "c"} |-> "action"],
            [r \in {"a", "b", "c"} |-> j], {}, ri, {"a", "b", "c"}, {}) :
     db \in From({"a"}), dc \in From({"a", "b"}),
     j \in {"any", "all"}, ri \in SUBSET {"a", "b", "c"}}

(***************************************************************************)
(* Diamonds a -> {b, c} -> d with any edges at the join.                   *)
(***************************************************************************)
Diamonds ==
  {Workflow(("a" :> {}) @@ ("b" :> {S("a")}) @@ ("c" :> {S("a")}) @@ ("d" :> dd),
            [r \in {"a", "b", "c", "d"} |-> "action"],
            [r \in {"a", "b", "c", "d"} |-> j], {}, ri,
            {"a", "b", "c", "d"}, {}) :
     dd \in From({"b", "c"}), j \in {"any", "all"},
     ri \in SUBSET {"b", "c"}}

GraphWorkflows == Graphs3 \union Diamonds

(***************************************************************************)
(* One scatter: s -> x -> g -> z, beside an action p that z joins with g.  *)
(* The body may fail, be skipped by run_if or have an error handler h that *)
(* rejoins at the gather; the gather raises or not.                        *)
(***************************************************************************)
FlatKind == [r \in {"s", "x", "g", "p", "z"} |->
               IF r = "s" THEN "scatter" ELSE IF r = "g" THEN "gather"
               ELSE "action"]

FlatWorkflows ==
  {Workflow(("s" :> {}) @@ ("x" :> {S("s")}) @@ ("g" :> {S("x")})
              @@ ("p" :> {}) @@ ("z" :> {S("g"), S("p")}),
            FlatKind, [r \in DOMAIN FlatKind |-> "any"],
            ra, ri, mf, {}) :
     ra \in SUBSET {"g"}, ri \in SUBSET {"x"}, mf \in {{"x"}, {"x", "s", "p"}}}
  \union
  {Workflow(("s" :> {}) @@ ("x" :> {S("s")}) @@ ("h" :> {E("x")})
              @@ ("g" :> {S("x"), S("h")}) @@ ("z" :> {S("g")}),
            [r \in {"s", "x", "h", "g", "z"} |->
               IF r = "s" THEN "scatter" ELSE IF r = "g" THEN "gather"
               ELSE "action"],
            [r \in {"s", "x", "h", "g", "z"} |-> "any"],
            {}, {}, {"x", "h"}, {})}

(***************************************************************************)
(* A scatter inside a scatter: s -> s2 -> x -> g2 -> g -> z.               *)
(***************************************************************************)
NestedDeps == ("s" :> {}) @@ ("s2" :> {S("s")}) @@ ("x" :> {S("s2")})
                @@ ("g2" :> {S("x")}) @@ ("g" :> {S("g2")}) @@ ("z" :> {S("g")})
NestedKind == [r \in DOMAIN NestedDeps |->
                 IF r \in {"s", "s2"} THEN "scatter"
                 ELSE IF r \in {"g", "g2"} THEN "gather" ELSE "action"]

NestedWorkflows ==
  {Workflow(NestedDeps, NestedKind, [r \in DOMAIN NestedDeps |-> "all"],
            {}, {"x"}, {"x"}, {})}

(***************************************************************************)
(* Everything the validator accepts on a scatter, its gather and two       *)
(* actions that depend on any of them by success edges, as long as what is *)
(* in the scope leads to the gather, along one branch: the validator       *)
(* accepts a branch that ends inside the scope, whose errors nobody        *)
(* gathers, and a join of two branches (see TwoBranchGather).              *)
(***************************************************************************)
LeadsToGather(w) ==
  \A r \in w.refs :
    ActionScope(w, CurrScopes(w), r) # ROOT_SCOPE =>
      Cardinality({n \in w.refs : r \in Sources(w, n)}) = 1

AcceptedWorkflows ==
  {w \in {Workflow(("s" :> ds) @@ ("x" :> dx) @@ ("g" :> dg) @@ ("z" :> dz),
                   [r \in {"s", "x", "g", "z"} |->
                      IF r = "s" THEN "scatter" ELSE IF r = "g" THEN "gather"
                      ELSE "action"],
                   [r \in {"s", "x", "g", "z"} |-> "all"], {}, {"x"}, {"x", "z"}, {}) :
            ds \in SUBSET {S("x")}, dx \in SUBSET {S("s"), S("z")},
            dg \in SUBSET {S("s"), S("x"), S("z")}, dz \in SUBSET {S("s"), S("x"), S("g")}} :
     ValidateStructure(w) /\ LeadsToGather(w)}

ScopedWorkflows == FlatWorkflows \union NestedWorkflows \union AcceptedWorkflows

(***************************************************************************)
(* A gather that joins two branches of its scope, one with a run_if.       *)
(***************************************************************************)
TwoBranchGather ==
  {Workflow(("s" :> {}) @@ ("x" :> {S("s")}) @@ ("y" :> {S("s")})
              @@ ("g" :> {S("x"), S("y")}),
            [r \in {"s", "x", "y", "g"} |->
               IF r = "s" THEN "scatter" ELSE IF r = "g" THEN "gather"
               ELSE "action"],
            [r \in {"s", "x", "y", "g"} |-> "all"], {}, {"x"}, {}, {})}

(***************************************************************************)
(* A scatter with a run_if, joined after its gather with another branch.   *)
(***************************************************************************)
SkippedScatter ==
  {Workflow(("s" :> {}) @@ ("x" :> {S("s")}) @@ ("g" :> {S("x")})
              @@ ("p" :> {}) @@ ("z" :> {S("g"), S("p")}),
            FlatKind, [r \in DOMAIN FlatKind |-> "any"], {}, {"s"}, {}, {})}

(***************************************************************************)
(* A body action whose arguments do not validate, beside another branch.   *)
(***************************************************************************)
SyncFailingBody ==
  {Workflow(("s" :> {}) @@ ("x" :> {S("s")}) @@ ("g" :> {S("x")})
              @@ ("p" :> {}) @@ ("z" :> {S("g"), S("p")}),
            FlatKind, [r \in DOMAIN FlatKind |-> "any"], {}, {}, {}, {"x"})}

(***************************************************************************)
(* Nested scatters whose inner collection may fail to evaluate; both       *)
(* gathers raise on errors.                                                *)
(***************************************************************************)
InnerScatterFails ==
  {Workflow(NestedDeps, NestedKind, [r \in DOMAIN NestedDeps |-> "all"],
            {"g", "g2"}, {}, {"s2"}, {})}

(***************************************************************************)
(* One scatter in which anything may fail, before or after it suspends,    *)
(* and anything may be skipped; with and without an error handler on the   *)
(* scatter, and with a gather that joins two branches.                     *)
(***************************************************************************)
AnyFailure ==
  {Workflow(("s" :> {}) @@ ("x" :> {S("s")}) @@ ("y" :> dy)
              @@ ("g" :> dg) @@ ("z" :> dz),
            [r \in {"s", "x", "y", "g", "z"} |->
               IF r = "s" THEN "scatter" ELSE IF r = "g" THEN "gather"
               ELSE "action"],
            [r \in {"s", "x", "y", "g", "z"} |-> "all"], ra,
            {"s", "x"}, {"s", "x", "y", "g"}, {"x", "g"}) :
     dy \in {{S("s")}, {E("s")}, {E("x")}},
     dg \in {{S("x")}, {S("x"), S("y")}},
     dz \in {{S("g")}, {E("g")}},
     ra \in SUBSET {"g"}}

SmallWorkflows == GraphWorkflows \union AnyFailure

\* The workflows of the runs are ones that the validator accepts.
ASSUME RunsAreValid ==
  \A w \in SmallWorkflows \union ScopedWorkflows \union TwoBranchGather
             \union SkippedScatter \union SyncFailingBody \union InnerScatterFails :
    ValidateStructure(w)
=============================================================================
