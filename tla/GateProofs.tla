----------------------------- MODULE GateProofs -----------------------------
(***************************************************************************)
(* Proofs about Gate and Closure for any workspace and any number of       *)
(* edits: the closure is what is downstream, by the shortest paths, and a  *)
(* pass of the gate covers all work that was there to see.                 *)
(***************************************************************************)
EXTENDS Gate, FiniteSetTheorems, TLAPS

----------------------------------------------------------------------------
(* The graph: what Reach, a least fixed point, has of the traversals.      *)

\* What a repo depends on directly, it reaches.
LEMMA ReachFirst ==
  ASSUME NEW G \in Graph, NEW r \in Repo, NEW d \in G[r]
  PROVE  d \in Reach(G, r)
BY DEF Reach, Graph

\* Reach is closed under dependencies.
LEMMA ReachStep ==
  ASSUME NEW G \in Graph, NEW r \in Repo, NEW u \in Reach(G, r), NEW v \in G[u]
  PROVE  v \in Reach(G, r)
<1> SUFFICES ASSUME NEW U \in SUBSET Repo, G[r] \subseteq U, Closed(G, U)
             PROVE  v \in U
  BY DEF Reach, Graph
<1> QED
  BY DEF Reach, Closed

\* Reach is transitive.
LEMMA ReachTransitive ==
  ASSUME NEW G \in Graph, NEW r \in Repo, NEW u \in Reach(G, r), NEW v \in Reach(G, u)
  PROVE  v \in Reach(G, r)
<1>1. G[u] \subseteq Reach(G, r) /\ Closed(G, Reach(G, r)) /\ Reach(G, r) \in SUBSET Repo
  BY ReachStep DEF Closed, Reach
<1> QED
  BY <1>1 DEF Reach

----------------------------------------------------------------------------
(* The closure.                                                            *)

\* A search begins.
LEMMA StartKeeps ==
  ASSUME ClosureInv, NEW repo \in Repo, StartClosure(repo)
  PROVE  ClosureInv'
<1>1. /\ graph' = graph /\ graph \in Graph
      /\ changed' = repo /\ seen' = {repo} /\ frontier' = {repo} /\ next' = {}
      /\ depth' = 1 /\ found' = [r \in Repo |-> NotFound]
  BY DEF StartClosure, ClosureInv, ClosureTypes
<1>2. NotFound \in [depth : Nat, via : Seq(Repo)] /\ NotFound.depth = 0
  BY DEF NotFound
<1>3. Affected' = {} /\ Visited' = {}
  BY <1>1, <1>2 DEF Affected, Visited
<1>4. ClosureTypes'
  BY <1>1, <1>2 DEF ClosureTypes
<1>5. LevelInv'
  BY <1>1, <1>2, <1>3 DEF LevelInv
<1>6. PathInv' /\ PathsShortest'
  BY <1>3 DEF PathInv, PathsShortest
<1> QED
  BY <1>4, <1>5, <1>6 DEF ClosureInv

\* The next level begins.
LEMMA NextLevelKeeps ==
  ASSUME ClosureInv, NextLevel
  PROVE  ClosureInv'
<1> USE DEF ClosureInv
<1>1. /\ frontier = {} /\ frontier' = next /\ next' = {} /\ depth' = depth + 1
      /\ graph' = graph /\ changed' = changed /\ seen' = seen /\ found' = found
      /\ depth \in Nat \ {0} /\ \A r \in Repo : found[r].depth \in Nat
  BY DEF NextLevel, ClosureTypes
<1>2. Visited' = Visited /\ Affected' = Affected /\ Visited \subseteq Repo
  BY <1>1 DEF Visited, Affected, ClosureTypes
<1>3. ClosureTypes'
  BY <1>1 DEF ClosureTypes
<1>4. LevelInv'
  <2>1. \A f \in frontier' : found'[f].depth = depth' - 1
    BY <1>1 DEF LevelInv
  <2>2. \A v \in Visited' : found'[v].depth < depth' - 1 /\ found'[v].depth < depth'
    BY <1>1, <1>2 DEF LevelInv
  <2>3. \A v \in Visited' : Dependents(v)' \subseteq seen'
    BY <1>1, <1>2 DEF LevelInv, Dependents
  <2>4. (seen' # {} => changed' \in seen' /\ found'[changed'] = NotFound)
        /\ Affected' = seen' \ {changed'}
    BY <1>1, <1>2 DEF LevelInv
  <2>5. \A v \in Visited' : found'[v].depth # depth' - 1
    BY <1>1, <1>2, <2>2
  <2> QED
    BY <1>1, <2>1, <2>2, <2>3, <2>4, <2>5 DEF LevelInv
<1>5. PathInv'
  BY <1>1, <1>2 DEF PathInv
<1>6. PathsShortest'
  BY <1>1, <1>2 DEF PathsShortest, ShortestPath
<1> QED
  BY <1>3, <1>4, <1>5, <1>6

\* A node of the frontier is visited.
LEMMA VisitKeeps ==
  ASSUME ClosureInv, NEW node \in Repo, Visit(node)
  PROVE  ClosureInv'
<1> USE DEF ClosureInv
<1> DEFINE F == Fresh(node)
           entry == [depth |-> depth, via |-> Append(found[node].via, node)]
<1>1. /\ node \in frontier /\ \A f \in frontier : Rank[node] <= Rank[f]
      /\ seen' = seen \cup F /\ next' = next \cup F /\ frontier' = frontier \ {node}
      /\ found' = [r \in Repo |-> IF r \in F THEN entry ELSE found[r]]
      /\ graph' = graph /\ changed' = changed /\ depth' = depth
  BY DEF Visit, Turn
<1>2. /\ graph \in Graph /\ seen \subseteq Repo
      /\ frontier \subseteq seen /\ next \subseteq seen /\ depth \in Nat \ {0}
      /\ found \in [Repo -> [depth : Nat, via : Seq(Repo)]]
      /\ \A r \in Repo : found[r].depth \in Nat /\ found[r].via \in Seq(Repo)
  BY DEF ClosureTypes
<1>3. /\ F \subseteq Repo /\ F \cap seen = {} /\ Dependents(node) \subseteq seen \cup F
      /\ \A r \in F : node \in graph[r]
  BY DEF Fresh, Dependents
<1>4. /\ entry \in [depth : Nat, via : Seq(Repo)] /\ entry.depth = depth
      /\ entry.via = Append(found[node].via, node)
  BY <1>2
<1> HIDE DEF F, entry
<1>5. \A r \in Repo : found'[r] = IF r \in F THEN entry ELSE found[r]
  BY <1>1
<1>6. /\ changed \in seen /\ found[changed] = NotFound /\ Affected = seen \ {changed}
      /\ found[node].depth = depth - 1
      /\ \A f \in frontier : found[f].depth = depth - 1
      /\ \A n \in next : found[n].depth = depth
      /\ \A v \in Visited : found[v].depth < depth /\ Dependents(v) \subseteq seen
      /\ \A v \in Visited : found[v].depth = depth - 1 =>
           \A f \in frontier : Rank[v] < Rank[f]
  BY <1>1, <1>2 DEF LevelInv
<1>7. node \notin next /\ Visited' = Visited \cup {node}
  BY <1>1, <1>2, <1>3, <1>6 DEF Visited
<1>8. Affected' = Affected \cup F
  BY <1>2, <1>3, <1>4, <1>5 DEF Affected
<1>9. ClosureTypes'
  <2>1. found' \in [Repo -> [depth : Nat, via : Seq(Repo)]]
    BY <1>1, <1>2, <1>4
  <2> QED
    BY <1>1, <1>2, <1>3, <2>1 DEF ClosureTypes
<1>10. LevelInv'
  <2>1. changed' \in seen' /\ found'[changed'] = NotFound /\ Affected' = seen' \ {changed'}
    BY <1>1, <1>2, <1>3, <1>5, <1>6, <1>8
  <2>2. \A f \in frontier' : found'[f].depth = depth' - 1
    BY <1>1, <1>2, <1>3, <1>5, <1>6
  <2>3. \A n \in next' : found'[n].depth = depth'
    BY <1>1, <1>2, <1>3, <1>4, <1>5, <1>6
  <2>4. \A v \in Visited' : found'[v] = found[v] /\ v \in seen
    BY <1>1, <1>2, <1>3, <1>5, <1>7 DEF Visited
  <2>5. ASSUME NEW v \in Visited'
        PROVE  found'[v].depth < depth' /\ Dependents(v)' \subseteq seen'
    <3>1. Dependents(v)' = Dependents(v)
      BY <1>1 DEF Dependents
    <3>2. CASE v = node
      BY <1>1, <1>2, <1>3, <1>6, <2>4, <3>1, <3>2
    <3>3. CASE v \in Visited
      BY <1>1, <1>6, <2>4, <3>1, <3>3
    <3> QED
      BY <1>7, <3>2, <3>3
  <2>6. ASSUME NEW v \in Visited', found'[v].depth = depth' - 1, NEW f \in frontier'
        PROVE  Rank[v] < Rank[f]
    <3>1. CASE v = node
      <4>1. f # node /\ Rank[node] <= Rank[f] /\ f \in Repo
        BY <1>1, <1>2
      <4> QED
        BY <3>1, <4>1, ClosureAssumption
    <3>2. CASE v \in Visited
      BY <1>1, <1>6, <2>4, <2>6, <3>2
    <3> QED
      BY <1>7, <3>1, <3>2
  <2> QED
    BY <2>1, <2>2, <2>3, <2>5, <2>6 DEF LevelInv
<1>11. ASSUME node # changed
       PROVE  /\ node \in Affected /\ changed \in Reach(graph, node)
              /\ Len(found[node].via) = depth - 1 /\ ShortestPath(node)
  <2>1. node \in Affected
    BY <1>1, <1>2, <1>6, <1>11
  <2> QED
    BY <1>6, <2>1 DEF PathInv, PathsShortest
<1>12. /\ Len(found[node].via) = depth - 1
       /\ Len(entry.via) = depth /\ entry.via[depth] = node
       /\ \A i \in 1 .. depth - 1 : entry.via[i] = found[node].via[i]
  <2>1. Len(found[node].via) = depth - 1
    BY <1>6, <1>11 DEF NotFound
  <2> QED
    BY <1>2, <1>4, <2>1
<1>13. PathInv'
  <2> SUFFICES ASSUME NEW r \in Affected'
               PROVE  /\ changed \in Reach(graph, r)
                      /\ found'[r].via[Len(found'[r].via)] \in Visited'
                      /\ found'[found'[r].via[Len(found'[r].via)]].depth = found'[r].depth - 1
                      /\ Len(found'[r].via) = found'[r].depth
    BY <1>1 DEF PathInv
  <2>1. CASE r \in F
    <3>1. changed \in Reach(graph, r)
      <4>1. CASE node = changed
        BY <1>2, <1>3, <2>1, <4>1, ReachFirst
      <4>2. CASE node # changed
        <5>1. node \in Reach(graph, r)
          BY <1>2, <1>3, <2>1, ReachFirst
        <5> QED
          BY <1>2, <1>3, <1>11, <2>1, <4>2, <5>1, ReachTransitive
      <4> QED
        BY <4>1, <4>2
    <3>2. found'[r] = entry /\ found'[node] = found[node]
      BY <1>1, <1>2, <1>3, <1>5, <2>1
    <3> QED
      BY <1>4, <1>6, <1>7, <1>12, <3>1, <3>2
  <2>2. CASE r \notin F
    <3>1. r \in Affected /\ r \in Repo /\ found'[r] = found[r]
      BY <1>5, <1>8, <2>2 DEF Affected
    <3>2. /\ changed \in Reach(graph, r)
          /\ found[r].via[Len(found[r].via)] \in Visited
          /\ found[found[r].via[Len(found[r].via)]].depth = found[r].depth - 1
          /\ Len(found[r].via) = found[r].depth
      BY <3>1 DEF PathInv
    <3>3. \A v \in Visited : found'[v] = found[v]
      BY <1>2, <1>3, <1>5 DEF Visited
    <3> QED
      BY <1>7, <3>1, <3>2, <3>3
  <2> QED
    BY <2>1, <2>2
<1>14. PathsShortest'
  <2> SUFFICES ASSUME NEW r \in Affected' PROVE ShortestPath(r)'
    BY DEF PathsShortest
  <2>0. \A d \in seen : found'[d] = found[d]
    BY <1>2, <1>3, <1>5
  <2>1. CASE r \in F
    <3>1. found'[r] = entry
      BY <1>3, <1>5, <2>1
    <3>2. entry.via[1] = changed
      <4>1. CASE node = changed
        <5>1. depth = 1
          BY <1>2, <1>6, <4>1 DEF NotFound
        <5> QED
          BY <1>12, <4>1, <5>1
      <4>2. CASE node # changed
        <5>1. depth > 1 /\ found[node].via[1] = changed
          BY <1>2, <1>6, <1>11, <4>2 DEF Affected, ShortestPath
        <5>2. 1 \in 1 .. depth - 1
          BY <1>2, <5>1
        <5> QED
          BY <1>12, <5>1, <5>2
      <4> QED
        BY <4>1, <4>2
    <3>3. ASSUME NEW i \in 1 .. depth - 1 PROVE entry.via[i] \in graph[entry.via[i + 1]]
      <4>1. node # changed
        BY <1>2, <1>6 DEF NotFound
      <4>2. CASE i = depth - 1
        <5>1. found[node].via[Len(found[node].via)] \in graph[node]
          BY <1>11, <4>1 DEF ShortestPath
        <5> QED
          BY <1>2, <1>12, <4>2, <5>1
      <4>3. CASE i # depth - 1
        <5>1. i \in 1 .. Len(found[node].via) - 1 /\ i + 1 \in 1 .. depth - 1
          BY <1>2, <1>12, <4>3
        <5>2. found[node].via[i] \in graph[found[node].via[i + 1]]
          BY <1>11, <4>1, <5>1 DEF ShortestPath
        <5> QED
          BY <1>12, <5>1, <5>2
      <4> QED
        BY <4>2, <4>3
    <3>4. ASSUME NEW d \in graph[r] \cap seen'
          PROVE  \/ found'[d].depth >= depth
                 \/ found'[d].depth = depth - 1 /\ Rank[node] <= Rank[d]
      <4>1. d \in Repo /\ r \in Dependents(d) /\ r \notin seen
        BY <1>1, <1>2, <1>3, <2>1 DEF Dependents
      <4>2. d \in F \/ d \in next \/ d \in frontier
        BY <1>1, <1>6, <4>1 DEF Visited
      <4>3. CASE d \in F
        BY <1>2, <1>4, <1>5, <4>1, <4>3
      <4>4. CASE d \in next
        BY <1>2, <1>6, <2>0, <4>4
      <4>5. CASE d \in frontier
        BY <1>1, <1>2, <1>6, <2>0, <4>5
      <4> QED
        BY <4>2, <4>3, <4>4, <4>5
    <3> QED
      BY <1>1, <1>2, <1>3, <1>4, <1>12, <2>1, <3>1, <3>2, <3>3, <3>4 DEF ShortestPath
  <2>2. CASE r \notin F
    <3>1. r \in Affected /\ r \in seen /\ found'[r] = found[r] /\ r \in Repo
      BY <1>2, <1>5, <1>6, <1>8, <2>2 DEF Affected
    <3>2. ShortestPath(r)
      BY <3>1 DEF PathsShortest
    <3>3. found[r].depth <= depth
      <4>1. r \in Visited \/ r \in frontier \/ r \in next
        BY <3>1 DEF Visited
      <4>2. found[r].depth < depth \/ found[r].depth = depth - 1 \/ found[r].depth = depth
        BY <1>6, <4>1
      <4> QED
        BY <1>2, <3>1, <4>2
    <3>4. ASSUME NEW d \in graph[r] \cap seen'
          PROVE  \/ found'[d].depth >= found[r].depth
                 \/ /\ found'[d].depth = found[r].depth - 1
                    /\ Rank[found[r].via[Len(found[r].via)]] <= Rank[d]
      <4>1. CASE d \in seen
        BY <2>0, <3>2, <4>1 DEF ShortestPath
      <4>2. CASE d \in F
        BY <1>2, <1>3, <1>4, <1>5, <3>1, <3>3, <4>2
      <4> QED
        BY <1>1, <4>1, <4>2
    <3> QED
      BY <1>1, <3>1, <3>2, <3>4 DEF ShortestPath
  <2> QED
    BY <2>1, <2>2
<1> QED
  BY <1>9, <1>10, <1>13, <1>14

\* When nothing is left to visit, what has been seen is what is downstream.
LEMMA ExhaustedExact == ClosureInv => ClosureExact
<1> SUFFICES ASSUME ClosureInv, Exhausted, seen # {} PROVE Affected = Downstream(changed)
  BY DEF ClosureExact
<1> USE DEF ClosureInv
<1>1. /\ changed \in seen /\ Affected = seen \ {changed} /\ seen \subseteq Repo
      /\ graph \in Graph /\ \A v \in seen : Dependents(v) \subseteq seen
  BY DEF LevelInv, ClosureTypes, Exhausted, Visited
<1>2. ASSUME NEW r \in Affected PROVE r \in Downstream(changed)
  BY <1>1, <1>2 DEF PathInv, Downstream, Upstreams
<1>3. ASSUME NEW r \in Downstream(changed) PROVE r \in Affected
  <2>1. r \in Repo /\ changed \in Reach(graph, r) /\ r # changed
    BY DEF Downstream, Upstreams
  <2>2. SUFFICES ASSUME r \notin seen PROVE FALSE
    BY <1>1, <2>1
  <2> DEFINE Rest == Repo \ seen
  <2>3. \A u \in Rest : graph[u] \subseteq Rest
    BY <1>1 DEF Graph, Dependents
  <2>4. graph[r] \subseteq Rest /\ Closed(graph, Rest)
    BY <2>1, <2>2, <2>3 DEF Closed
  <2>5. changed \in Rest
    BY <2>1, <2>4 DEF Reach
  <2> QED
    BY <1>1, <2>5
<1> QED
  BY <1>2, <1>3

\* What leaves the search alone.
LEMMA ClosureUnchanged == ClosureInv /\ UNCHANGED closure => ClosureInv'
<1> SUFFICES ASSUME ClosureInv, UNCHANGED closure PROVE ClosureInv'
  OBVIOUS
<1> USE DEF ClosureInv, closure
<1>1. ClosureTypes'
  BY DEF ClosureTypes
<1>2. LevelInv'
  BY DEF LevelInv, Visited, Affected, Dependents
<1>3. PathInv'
  BY DEF PathInv, Visited, Affected
<1>4. PathsShortest'
  BY DEF PathsShortest, ShortestPath, Affected
<1> QED
  BY <1>1, <1>2, <1>3, <1>4

----------------------------------------------------------------------------
(* The gate.                                                               *)

LEMMA InitInd == Init => IndInv
<1> SUFFICES ASSUME Init PROVE IndInv
  OBVIOUS
<1>1. tree \in [Repo -> Tree]
  BY GateAssumption DEF Init
<1>2. TypeOK
  BY <1>1, GateAssumption DEF Init, TypeOK, Commands, Stages
<1>3. LookInv
  BY DEF Init, LookInv, Commands
<1>4. SetInv
  BY DEF Init, SetInv, Commands
<1>5. VerdictInv
  BY DEF Init, VerdictInv
<1>6. NotFound \in [depth : Nat, via : Seq(Repo)] /\ NotFound.depth = 0
  BY DEF NotFound
<1>7. ClosureTypes
  BY <1>6, GateAssumption DEF Init, ClosureTypes
<1>8. Affected = {} /\ Visited = {}
  BY <1>6 DEF Init, Affected, Visited
<1>9. ClosureInv
  BY <1>7, <1>8 DEF Init, ClosureInv, LevelInv, PathInv, PathsShortest
<1> QED
  BY <1>2, <1>3, <1>4, <1>5, <1>9 DEF IndInv

\* The commands look around.
LEMMA LookKeeps ==
  ASSUME IndInv, Look \/ Filtered \/ People
  PROVE  IndInv'
<1> USE DEF IndInv
<1>1. UNCHANGED <<closure, toClose, running, verdict, command, target>> /\ phase = "looking"
  BY DEF Look, LookAt, Filtered, People, Edit, looked
<1>2. /\ tree \in [Repo -> Tree] /\ worked \subseteq Repo /\ everWorked \subseteq Repo
      /\ edits \in 0 .. MaxEdits /\ MaxEdits \in Nat
      /\ unseen \subseteq target /\ target \subseteq Repo /\ dirty \subseteq Repo
  BY GateAssumption DEF TypeOK
<1>3. ClosureInv'
  BY <1>1, ClosureUnchanged
<1>4. \A t : Shows(t) <=> DirtyOrUnreadable(t)
  BY DEF Shows, DirtyOrUnreadable, TreeState
<1>5. TypeOK' /\ LookInv' /\ (phase' = phase \/ (phase' = "done" /\ command = "filter"))
  <2>1. ASSUME NEW r \in Repo, LookAt(r) PROVE TypeOK' /\ LookInv' /\ phase' = phase
    <3>1. /\ UNCHANGED <<people, command, target, phase>> /\ unseen' = unseen \ {r}
          /\ dirty' = IF Shows(tree[r]) THEN dirty \cup {r} ELSE dirty
          /\ r \in unseen
      BY <1>4, <2>1 DEF LookAt
    <3>2. TypeOK'
      BY <1>1, <1>2, <3>1 DEF TypeOK, people, running, verdict
    <3>3. dirty' \subseteq everWorked \cap target
      BY <1>2, <3>1 DEF LookInv
    <3>4. worked \cap (target \ unseen') \subseteq dirty'
      BY <1>2, <3>1 DEF LookInv
    <3> QED
      BY <1>1, <3>1, <3>2, <3>3, <3>4 DEF LookInv, people
  <2>2. ASSUME Filtered
        PROVE  TypeOK' /\ LookInv' /\ phase' = "done" /\ command = "filter"
    <3>1. /\ UNCHANGED <<people, looked>> /\ phase' = "done" /\ unseen = {}
          /\ command = "filter"
      BY <2>2 DEF Filtered
    <3> QED
      BY <1>1, <3>1 DEF TypeOK, LookInv, people, looked, running, verdict
  <2>3. ASSUME NEW r \in Repo, NEW t \in Tree, Edit(r, t)
        PROVE  TypeOK' /\ LookInv' /\ phase' = phase
    <3>1. /\ tree' = [tree EXCEPT ![r] = t] /\ edits < MaxEdits /\ edits' = edits + 1
          /\ worked' = (IF Shows(t) THEN worked ELSE worked \ {r})
          /\ everWorked' = (IF Shows(t) THEN everWorked \cup {r} ELSE everWorked)
          /\ UNCHANGED <<looked, phase>>
      BY <2>3 DEF Edit
    <3>2. /\ tree' \in [Repo -> Tree] /\ tree'[r] = t
          /\ \A x \in Repo \ {r} : tree'[x] = tree[x]
      BY <1>2, <3>1
    <3>3. TypeOK'
      BY <1>1, <1>2, <3>1, <3>2 DEF TypeOK, looked, running, verdict
    <3>4. \A x \in worked' : Shows(tree'[x])
      BY <1>2, <3>1, <3>2 DEF LookInv
    <3>5. \A x \in Repo : Shows(tree'[x]) => x \in everWorked'
      BY <1>2, <3>1, <3>2 DEF LookInv
    <3>6. worked' \subseteq worked /\ everWorked \subseteq everWorked'
      BY <3>1
    <3> QED
      BY <3>1, <3>3, <3>4, <3>5, <3>6 DEF LookInv, looked
  <2> QED
    BY <2>1, <2>2, <2>3 DEF Look, People
<1>6. SetInv'
  <2>1. dirty \subseteq dirty'
    BY DEF Look, LookAt, Filtered, People, Edit, looked
  <2> QED
    BY <1>1, <1>5, <2>1 DEF SetInv, closure, running, verdict
<1>7. VerdictInv'
  BY <1>1, <1>5 DEF VerdictInv, running, verdict
<1> QED
  BY <1>3, <1>5, <1>6, <1>7

\* Where a finished search leaves Affected, whichever repo it was about.
LEMMA AffectedNow ==
  ASSUME ClosureInv, Exhausted
  PROVE  /\ seen = {} => Affected = {}
         /\ seen # {} => Affected = Downstream(changed)
BY ExhaustedExact DEF ClosureExact, ClosureInv, LevelInv

\* Between looking and closing.
LEMMA PickKeeps ==
  ASSUME IndInv, Looked \/ NoSuchRepo \/ Pick
  PROVE  IndInv'
<1> USE DEF IndInv
<1>1. CASE Looked
  <2>1. /\ UNCHANGED <<looked, people, stage, verdict, closure>>
        /\ phase = "looking" /\ unseen = {} /\ command = "verify"
        /\ phase' = "closing" /\ toClose' = dirty /\ set' = dirty
    BY <1>1 DEF Looked, ToVerify
  <2>2. TypeOK' /\ LookInv'
    BY <2>1 DEF TypeOK, LookInv, looked, people, verdict
  <2>3. SetInv'
    BY <2>1 DEF SetInv, looked, closure, WithDownstream
  <2>4. VerdictInv'
    BY <2>1 DEF VerdictInv, verdict
  <2> QED
    BY <2>1, <2>2, <2>3, <2>4, ClosureUnchanged
<1>2. CASE NoSuchRepo
  <2>1. /\ UNCHANGED <<looked, people, toClose, running, checked, failed, closure>>
        /\ phase = "picking" /\ exit' = 2 /\ phase' = "done"
    BY <1>2 DEF NoSuchRepo
  <2>2. command \in {"impact", "impact_check"} /\ command' = command
    BY <2>1 DEF LookInv, looked
  <2>3. TypeOK' /\ LookInv'
    BY <2>1, <2>2 DEF TypeOK, LookInv, looked, people, running
  <2>4. SetInv' /\ VerdictInv'
    BY <2>1, <2>2 DEF SetInv, VerdictInv, looked, running, closure
  <2> QED
    BY <2>1, <2>3, <2>4, ClosureUnchanged
<1>3. ASSUME NEW r \in Repo, PickRepo(r) PROVE IndInv'
  <2>1. /\ UNCHANGED <<looked, people, toClose, running, verdict>>
        /\ phase = "picking" /\ phase' = "closing" /\ StartClosure(r)
    BY <1>3 DEF PickRepo
  <2>2. command \in {"impact", "impact_check"} /\ command' = command /\ seen' = {r}
    BY <2>1 DEF LookInv, looked, StartClosure
  <2>3. TypeOK' /\ LookInv'
    BY <2>1, <2>2 DEF TypeOK, LookInv, looked, people, running, verdict
  <2>4. SetInv' /\ VerdictInv'
    BY <2>1, <2>2 DEF SetInv, VerdictInv, looked, running, verdict
  <2> QED
    BY <2>1, <2>3, <2>4, StartKeeps
<1> QED
  BY <1>1, <1>2, <1>3 DEF Pick

\* The closures, one after the other.
LEMMA CloseKeeps ==
  ASSUME IndInv, CloseSome \/ Close \/ AllClosed \/ Listed
  PROVE  IndInv'
<1> USE DEF IndInv
<1>0. graph' = graph /\ \A r : Downstream(r)' = Downstream(r)
  <2>1. graph' = graph
    BY DEF CloseSome, CloseNext, Close, AllClosed, Listed, StartClosure, ClosureStep, Visit,
           NextLevel, closure
  <2> QED
    BY <2>1 DEF Downstream
<1>1. ASSUME NEW r \in Repo, CloseNext(r) PROVE IndInv'
  <2>1. /\ UNCHANGED <<looked, phase, people, stage, verdict>>
        /\ phase = "closing" /\ command = "verify" /\ Exhausted /\ r \in toClose
        /\ toClose' = toClose \ {r} /\ set' = set \cup Affected /\ StartClosure(r)
    BY <1>1 DEF CloseNext, Remaining
  <2>2. changed' = r /\ seen' = {r} /\ r \in dirty /\ dirty' = dirty /\ command' = command
    BY <2>1 DEF StartClosure, SetInv, looked
  <2>3. Affected \subseteq Repo
    BY DEF Affected
  <2>4. TypeOK' /\ LookInv'
    BY <2>1, <2>3 DEF TypeOK, LookInv, looked, people, verdict
  <2>5. dirty' \subseteq set' /\ set' \subseteq WithDownstream(dirty)'
    BY <1>0, <2>1, <2>2, AffectedNow DEF SetInv, WithDownstream
  <2>6. \A d \in dirty' \ toClose' :
          Downstream(d)' \subseteq set' \/ (seen' # {} /\ d = changed')
    BY <1>0, <2>1, <2>2, AffectedNow DEF SetInv
  <2>7. SetInv'
    BY <2>1, <2>2, <2>5, <2>6 DEF SetInv
  <2>8. VerdictInv'
    BY <2>1 DEF VerdictInv, verdict
  <2> QED
    BY <2>1, <2>4, <2>7, <2>8, StartKeeps
<1>2. CASE Close
  <2>1. UNCHANGED gate /\ phase = "closing" /\ ClosureStep
    BY <1>2 DEF Close
  <2>2. ClosureInv'
    BY <2>1, NextLevelKeeps, VisitKeeps DEF ClosureStep
  <2>3. changed' = changed /\ (seen # {} <=> seen' # {})
    BY <2>1 DEF ClosureStep, NextLevel, Visit, Turn, ClosureInv, ClosureTypes
  <2>4. TypeOK' /\ LookInv' /\ VerdictInv'
    BY <2>1 DEF TypeOK, LookInv, VerdictInv, gate, looked, people, running, verdict
  <2>5. SetInv'
    BY <1>0, <2>1, <2>3 DEF SetInv, WithDownstream, gate, looked, people, running, verdict
  <2> QED
    BY <2>2, <2>4, <2>5
<1>3. CASE AllClosed
  <2>1. /\ UNCHANGED <<looked, people, toClose, stage, verdict, closure>>
        /\ phase = "closing" /\ command # "impact" /\ Exhausted /\ toClose = {}
        /\ set' = set \cup Affected /\ phase' = "running"
    BY <1>3 DEF AllClosed
  <2>2. Affected \subseteq Repo
    BY DEF Affected
  <2>3. TypeOK' /\ LookInv' /\ VerdictInv'
    BY <2>1, <2>2 DEF TypeOK, LookInv, VerdictInv, looked, people, verdict
  <2>4. CASE command = "verify"
    <3>1. set' = WithDownstream(dirty)
      BY <2>1, <2>4, AffectedNow DEF SetInv, WithDownstream
    <3>2. WithDownstream(dirty)' = WithDownstream(dirty)
      BY <1>0, <2>1 DEF WithDownstream, looked
    <3> QED
      BY <2>1, <2>3, <2>4, <3>1, <3>2, ClosureUnchanged DEF SetInv, looked, closure
  <2>5. CASE command # "verify"
    <3>1. set' = Downstream(changed)
      BY <2>1, <2>5, AffectedNow DEF SetInv
    <3> QED
      BY <1>0, <2>1, <2>3, <2>5, <3>1, ClosureUnchanged DEF SetInv, looked, closure
  <2> QED
    BY <2>4, <2>5
<1>4. CASE Listed
  <2>1. /\ UNCHANGED <<looked, people, toClose, running, checked, failed, closure>>
        /\ phase = "closing" /\ command = "impact" /\ phase' = "done" /\ exit' = 0
    BY <1>4 DEF Listed
  <2>2. TypeOK' /\ LookInv' /\ VerdictInv'
    BY <2>1 DEF TypeOK, LookInv, VerdictInv, looked, people, running
  <2>3. SetInv'
    BY <2>1 DEF SetInv, looked, running, closure
  <2> QED
    BY <2>1, <2>2, <2>3, ClosureUnchanged
<1> QED
  BY <1>1, <1>2, <1>3, <1>4 DEF CloseSome

\* The checks are run, and the verdict is given.
LEMMA RunKeeps ==
  ASSUME IndInv, Execute \/ Verdict
  PROVE  IndInv'
<1> USE DEF IndInv
<1>1. CASE Execute
  <2>1. /\ UNCHANGED <<looked, phase, people, toClose, verdict, changed, seen,
                       frontier, next, depth, found>>
        /\ phase = "running" /\ Execution!Next
    BY <1>1 DEF Execute
  <2>2. set' = set /\ graph' = graph /\ stage' \in [Repo -> Stages]
    <3>1. PICK r \in Repo : \/ Execution!Start(r) \/ Execution!Refuse(r)
                            \/ Execution!Finish(r) \/ Execution!Skip(r)
      BY <2>1 DEF Execution!Next
    <3>2. \E what \in Stages : Execution!Become(r, what)
      BY <3>1 DEF Execution!Start, Execution!Refuse, Execution!Finish, Execution!Skip, Stages
    <3> QED
      BY <3>2 DEF Execution!Become, TypeOK
  <2>3. TypeOK' /\ LookInv' /\ VerdictInv'
    BY <2>1, <2>2 DEF TypeOK, LookInv, VerdictInv, looked, people, verdict
  <2>4. SetInv'
    BY <2>1, <2>2 DEF SetInv, looked, verdict, WithDownstream, Downstream
  <2> QED
    BY <2>1, <2>2, <2>3, <2>4, ClosureUnchanged DEF closure
<1>2. CASE Verdict
  <2>1. /\ UNCHANGED <<looked, people, toClose, running, closure>>
        /\ phase = "running" /\ set = With({"passed", "failed", "skipped"})
        /\ checked' = Cardinality(With({"passed"})) + Cardinality(FailedRepos)
        /\ failed' = FailedRepos /\ exit' = (IF FailedRepos = {} THEN 0 ELSE 1)
        /\ phase' = "done"
    BY <1>2 DEF Verdict
  <2>2. /\ With({"passed"}) \cup FailedRepos = set /\ With({"passed"}) \cap FailedRepos = {}
        /\ FailedRepos = {r \in set : stage[r] # "passed"} /\ FailedRepos \subseteq Repo
    BY <2>1 DEF With, FailedRepos, TypeOK
  <2>3. IsFiniteSet(With({"passed"})) /\ IsFiniteSet(FailedRepos) /\ IsFiniteSet(set)
    BY GateAssumption, FS_Subset DEF With, FailedRepos, TypeOK
  <2>4. checked' = Cardinality(set) /\ checked' \in Nat
    <3>1. Cardinality(With({"passed"}) \cap FailedRepos) = 0
      BY <2>2, FS_EmptySet
    <3>2. Cardinality(With({"passed"}) \cup FailedRepos) =
            Cardinality(With({"passed"})) + Cardinality(FailedRepos) - 0
      BY <2>3, <3>1, FS_Union
    <3>3. Cardinality(With({"passed"})) \in Nat /\ Cardinality(FailedRepos) \in Nat
      BY <2>3, FS_CardinalityType
    <3>4. Cardinality(set) = Cardinality(With({"passed"}) \cup FailedRepos)
      BY <2>2
    <3> QED
      BY <2>1, <3>2, <3>3, <3>4
  <2>5. TypeOK' /\ LookInv'
    BY <2>1, <2>2, <2>4 DEF TypeOK, LookInv, looked, people, running
  <2>6. SetInv'
    BY <2>1 DEF SetInv, VerdictInv, looked, running, closure, WithDownstream, Downstream
  <2>7. VerdictInv'
    BY <2>1, <2>2, <2>4 DEF VerdictInv, running
  <2> QED
    BY <2>1, <2>5, <2>6, <2>7, ClosureUnchanged
<1> QED
  BY <1>1, <1>2

\* The parts of the invariant hold in every state.
THEOREM Inductive == Spec => []IndInv
<1>1. IndInv /\ [Next]_vars => IndInv'
  <2> SUFFICES ASSUME IndInv, [Next]_vars PROVE IndInv'
    OBVIOUS
  <2>1. CASE UNCHANGED vars
    <3>1. UNCHANGED gate /\ UNCHANGED closure
      BY <2>1 DEF vars
    <3>2. TypeOK' /\ LookInv' /\ VerdictInv'
      BY <3>1 DEF IndInv, TypeOK, LookInv, VerdictInv, gate, looked, people, running, verdict
    <3>3. SetInv'
      BY <3>1 DEF IndInv, SetInv, WithDownstream, Downstream, gate, looked, people, running,
                  verdict, closure
    <3> QED
      BY <3>1, <3>2, <3>3, ClosureUnchanged DEF IndInv
  <2> QED
    BY <2>1, LookKeeps, PickKeeps, CloseKeeps, RunKeeps DEF Next, Program
<1> QED
  BY <1>1, InitInd, PTL DEF Spec

\* For any workspace: check-impact lists, and verify adds, exactly what is
\* downstream.
THEOREM ClosureIsExact == Spec => []ClosureExact
<1>1. IndInv => ClosureExact
  BY ExhaustedExact DEF IndInv
<1> QED
  BY <1>1, Inductive, PTL

\* Whoever works where, and whichever repo is looked at when: a pass covers all
\* that showed work throughout, and all that is downstream of it.
THEOREM VerdictIsSound == Spec => []VerdictSound
<1>1. ASSUME IndInv, phase = "done", command = "verify" PROVE VerdictSound
  <2>1. worked \subseteq dirty /\ dirty \subseteq everWorked
    BY <1>1 DEF IndInv, TypeOK, LookInv
  <2>2. /\ set = WithDownstream(dirty) /\ checked = Cardinality(set)
        /\ failed = {r \in set : stage[r] # "passed"} /\ exit = IF failed = {} THEN 0 ELSE 1
    BY <1>1 DEF IndInv, SetInv, VerdictInv
  <2>3. WithDownstream(worked) \subseteq set /\ set \subseteq WithDownstream(everWorked)
    BY <2>1, <2>2 DEF WithDownstream
  <2> QED
    BY <2>2, <2>3 DEF VerdictSound
<1>2. IndInv => VerdictSound
  BY <1>1 DEF VerdictSound
<1> QED
  BY <1>2, Inductive, PTL

\* check-impact --check, the same.
THEOREM ImpactIsSound == Spec => []ImpactSound
<1>1. IndInv => ImpactSound
  BY DEF IndInv, SetInv, VerdictInv, ImpactSound, Downstream, Upstreams
<1> QED
  BY <1>1, Inductive, PTL

\* --dirty misses nothing that was there to see.
THEOREM FilterIsSound == Spec => []FilterSound
<1>1. IndInv => FilterSound
  BY DEF IndInv, LookInv, FilterSound
<1> QED
  BY <1>1, Inductive, PTL
=============================================================================
