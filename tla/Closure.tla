------------------------------- MODULE Closure -------------------------------
(***************************************************************************)
(* downstream_closure (src/src/graph.rs): a breadth-first search against   *)
(* depends_on that finds what a change of one repo affects, how many hops  *)
(* away, and along which path.                                             *)
(***************************************************************************)
EXTENDS Integers, Sequences, DepGraph

CONSTANT Rank  \* the order of repo names

ASSUME ClosureAssumption ==
  Rank \in [Repo -> Nat] /\ \A r, s \in Repo : Rank[r] = Rank[s] => r = s

VARIABLES
  graph,     \* depends_on of every repo
  changed,   \* where the search started
  seen,      \* what it has come upon; nothing before the first search
  frontier,  \* what is left of this level
  next,      \* the level after it
  depth,     \* the number of that level
  found      \* for each repo its depth and path, if it is affected

closure == <<graph, changed, seen, frontier, next, depth, found>>

NotFound == [depth |-> 0, via |-> <<>>]

StartClosure(repo) ==
  /\ changed' = repo /\ seen' = {repo}
  /\ frontier' = {repo} /\ next' = {} /\ depth' = 1
  /\ found' = [r \in Repo |-> NotFound]
  /\ UNCHANGED graph

\* Mutant: the edges are not reversed.
Dependencies(node) == graph[node]

\* The reverse map.
Dependents(node) == {r \in Repo : node \in graph[r]}

\* The dependents that no level has come upon.
Fresh(node) == Dependents(node) \ seen

\* Mutant: it is in no order.
AnyTurn(node) == node \in frontier

\* The frontier is sorted by name.
Turn(node) == node \in frontier /\ \A f \in frontier : Rank[node] <= Rank[f]

Visit(node) ==
  /\ Turn(node)
  /\ seen' = seen \cup Fresh(node)
  /\ found' = [r \in Repo |->
       IF r \in Fresh(node)
       THEN [depth |-> depth, via |-> Append(found[node].via, node)] ELSE found[r]]
  /\ frontier' = frontier \ {node} /\ next' = next \cup Fresh(node)
  /\ UNCHANGED <<graph, changed, depth>>

\* Mutant: the level after this one is dropped.
OneLevel ==
  /\ frontier = {} /\ next # {} /\ next' = {}
  /\ UNCHANGED <<graph, changed, seen, frontier, depth, found>>

NextLevel ==
  /\ frontier = {} /\ next # {}
  /\ frontier' = next /\ next' = {} /\ depth' = depth + 1
  /\ UNCHANGED <<graph, changed, seen, found>>

ClosureStep == NextLevel \/ \E node \in Repo : Visit(node)

Exhausted == frontier = {} /\ next = {}

Affected == {r \in Repo : found[r].depth > 0}

-----------------------------------------------------------------------------
(* Properties.                                                             *)

\* All that depends on repo, directly or through others.
Downstream(repo) == {r \in Repo : repo \in Upstreams(graph, r)}

\* What check-impact lists and verify adds to what is dirty: all repos
\* downstream of the change, none else, and not the changed repo itself.
ClosureExact == Exhausted /\ seen # {} => Affected = Downstream(changed)

\* The path leads from the change along dependencies to the repo, and there is
\* no shorter one; of paths as short the one by the first name is taken, so
\* that equal workspaces give equal output.
ShortestPath(r) ==
  LET via == found[r].via
      parent == via[Len(via)]
  IN  /\ Len(via) = found[r].depth /\ via[1] = changed
      /\ parent \in graph[r]
      /\ \A i \in 1 .. Len(via) - 1 : via[i] \in graph[via[i + 1]]
      /\ \A d \in graph[r] \cap seen :
           \/ found[d].depth >= found[r].depth
           \/ found[d].depth = found[r].depth - 1 /\ Rank[parent] <= Rank[d]

PathsShortest == \A r \in Affected : ShortestPath(r)

-----------------------------------------------------------------------------
(* The invariant behind it, part by part.                                  *)

ClosureTypes ==
  /\ graph \in Graph
  /\ seen \subseteq Repo /\ frontier \subseteq seen /\ next \subseteq seen
  /\ depth \in Nat \ {0}
  /\ found \in [Repo -> [depth : Nat, via : Seq(Repo)]]

Visited == seen \ (frontier \cup next)

\* Each level is complete before the next one is begun.
LevelInv ==
  /\ seen # {} => changed \in seen /\ found[changed] = NotFound
  /\ Affected = seen \ {changed}
  /\ \A f \in frontier : found[f].depth = depth - 1
  /\ \A n \in next : found[n].depth = depth
  /\ \A v \in Visited : found[v].depth < depth /\ Dependents(v) \subseteq seen
  /\ \A v \in Visited : found[v].depth = depth - 1 =>
       \A f \in frontier : Rank[v] < Rank[f]

\* What is affected reaches the change, and its path is all visited.
PathInv ==
  \A r \in Affected :
    /\ changed \in Reach(graph, r)
    /\ found[r].via[Len(found[r].via)] \in Visited
    /\ found[found[r].via[Len(found[r].via)]].depth = found[r].depth - 1
    /\ Len(found[r].via) = found[r].depth

ClosureInv == ClosureTypes /\ LevelInv /\ PathInv /\ PathsShortest
=============================================================================
