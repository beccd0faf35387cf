------------------------------ MODULE DepGraph ------------------------------
(***************************************************************************)
(* The dependency graph of a workspace (src/src/graph.rs): D[r] is the     *)
(* depends_on list of repo r, and the operators are what the traversals of *)
(* graph.rs return.  They are least fixed points written as intersections  *)
(* of closed sets, so that they can be reasoned about without recursion.   *)
(***************************************************************************)
CONSTANT Repo

Graph == [Repo -> SUBSET Repo]

Closed(D, U) == \A u \in U : D[u] \subseteq U

\* What a traversal along depends_on that starts at r comes upon.
Reach(D, r) ==
  {u \in Repo : \A U \in SUBSET Repo : D[r] \subseteq U /\ Closed(D, U) => u \in U}

\* transitive_upstreams, which takes the repo itself out again.
Upstreams(D, r) == Reach(D, r) \ {r}

\* check_cycles accepts the graph.
Acyclic(D) == \A r \in Repo : r \notin Reach(D, r)
=============================================================================
