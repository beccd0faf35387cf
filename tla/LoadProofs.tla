----------------------------- MODULE LoadProofs -----------------------------
(***************************************************************************)
(* Proofs about Load and CycleCheck for any configuration over any repos:  *)
(* merging does not depend on the order of entries, and the search for     *)
(* cycles accepts and rejects the right graphs.                            *)
(***************************************************************************)
EXTENDS Load, SequenceTheorems, TLAPS

----------------------------------------------------------------------------
(* The graph: what Reach, a least fixed point, has of the traversals.      *)

\* What a repo depends on directly, it reaches.
LEMMA ReachFirst ==
  ASSUME NEW G \in Graph, NEW r \in Repo, NEW d \in G[r]
  PROVE  d \in Reach(G, r)
BY DEF Reach, Graph

\* Reach is closed under dependencies.
LEMMA ReachStep ==
  ASSUME NEW G \in Graph, NEW r \in Repo, NEW u \in Reach(G, r), NEW v \in G[u]
  PROVE  v \in Reach(G, r)
<1> SUFFICES ASSUME NEW U \in SUBSET Repo, G[r] \subseteq U, Closed(G, U)
             PROVE  v \in U
  BY DEF Reach, Graph
<1> QED
  BY DEF Reach, Closed

\* What is reached is a dependency, or reached from one.
LEMMA ReachBack ==
  ASSUME NEW G \in Graph, NEW r \in Repo, NEW u \in Reach(G, r)
  PROVE  u \in G[r] \/ \E d \in G[r] : u \in Reach(G, d)
<1> DEFINE U == G[r] \cup {v \in Repo : \E d \in G[r] : v \in Reach(G, d)}
<1>1. U \in SUBSET Repo /\ G[r] \subseteq U
  BY DEF Graph
<1>2. ASSUME NEW v \in U PROVE G[v] \subseteq U
  <2>1. CASE v \in G[r]
    BY <2>1, ReachFirst DEF Graph
  <2>2. ASSUME NEW d \in G[r], v \in Reach(G, d) PROVE G[v] \subseteq U
    BY <2>2, ReachStep DEF Graph
  <2> QED
    BY <1>2, <2>1, <2>2
<1>3. Closed(G, U)
  BY <1>2 DEF Closed
<1>4. u \in U
  BY <1>1, <1>3 DEF Reach
<1> QED
  BY <1>4

\* A graph in which every set of repos has one without dependencies in the set
\* is acyclic.
LEMMA WellFoundedAcyclic ==
  ASSUME NEW G \in Graph,
         \A S \in SUBSET Repo : (\A s \in S : G[s] \cap S # {}) => S = {}
  PROVE  Acyclic(G)
<1> SUFFICES ASSUME NEW r \in Repo, r \in Reach(G, r) PROVE FALSE
  BY DEF Acyclic
<1> DEFINE S == {s \in Repo : r \in Reach(G, s)}
<1>1. ASSUME NEW s \in S PROVE G[s] \cap S # {}
  <2>1. CASE r \in G[s]
    BY <2>1
  <2>2. ASSUME NEW d \in G[s], r \in Reach(G, d) PROVE G[s] \cap S # {}
    BY <2>2 DEF Graph
  <2> QED
    BY <2>1, <2>2, ReachBack
<1> QED
  BY <1>1

----------------------------------------------------------------------------
(* The search for cycles.                                                  *)

\* What Push does to the stack.
LEMMA Pushed ==
  ASSUME WalkTypes, NEW dep \in Repo, Push(dep)
  PROVE  /\ stack' \in Seq(Repo) /\ Len(stack') = Len(stack) + 1
         /\ \A i \in 1 .. Len(stack) : stack'[i] = stack[i]
         /\ stack'[Len(stack) + 1] = dep
         /\ mark' \in [Repo -> {"white", "gray", "black"}]
         /\ mark'[dep] = "gray" /\ \A r \in Repo \ {dep} : mark'[r] = mark[r]
BY DEF WalkTypes, Push

\* What Retreat does to it.
LEMMA Popped ==
  ASSUME WalkTypes, Retreat
  PROVE  /\ Len(stack) \in Nat \ {0} /\ Top \in Repo
         /\ stack' \in Seq(Repo) /\ Len(stack') = Len(stack) - 1
         /\ \A i \in 1 .. Len(stack) - 1 : stack'[i] = stack[i]
         /\ mark' \in [Repo -> {"white", "gray", "black"}]
         /\ mark'[Top] = "black" /\ \A r \in Repo \ {Top} : mark'[r] = mark[r]
<1>1. stack \in Seq(Repo) /\ stack # <<>>
  BY DEF WalkTypes, Retreat
<1>2. Len(stack) \in Nat \ {0}
  BY <1>1
<1>3. Top \in Repo
  BY <1>1, <1>2 DEF Top
<1>4. /\ SubSeq(stack, 1, Len(stack) - 1) \in Seq(Repo)
      /\ Len(SubSeq(stack, 1, Len(stack) - 1)) = Len(stack) - 1
      /\ \A i \in 1 .. Len(stack) - 1 : SubSeq(stack, 1, Len(stack) - 1)[i] = stack[i]
  <2> DEFINE n == Len(stack) - 1
             below == SubSeq(stack, 1, n)
  <2>1. n \in Nat /\ \A i \in 1 .. n : stack[i] \in Repo
    BY <1>1, <1>2
  <2>2. /\ below \in Seq(Repo) /\ Len(below) = IF 1 <= n THEN n - 1 + 1 ELSE 0
        /\ \A i \in 1 .. n - 1 + 1 : below[i] = stack[1 + i - 1]
    <3> HIDE DEF n
    <3> QED
      BY <2>1, SubSeqProperties
  <2>3. Len(below) = n
    <3> HIDE DEF n, below
    <3> QED
      BY <2>1, <2>2
  <2>4. \A i \in 1 .. n : below[i] = stack[i]
    <3> HIDE DEF n, below
    <3> QED
      BY <2>1, <2>2
  <2> QED
    BY <2>2, <2>3, <2>4
<1> QED
  BY <1>2, <1>3, <1>4 DEF WalkTypes, Retreat

\* What the first repo of a search leaves of the invariant.
LEMMA RootKeeps ==
  ASSUME CheckInv, NEW r \in Repo, Root(r)
  PROVE  CheckInv'
<1> USE DEF CheckInv
<1>1. /\ stack = <<>> /\ Len(stack) = 0 /\ cycle = <<>> /\ mark[r] = "white" /\ r \in repos
      /\ D' = D /\ repos' = repos /\ left' = left /\ cycle' = cycle
  BY DEF Root, CycleInv, Rejects
<1>2. /\ stack' \in Seq(Repo) /\ Len(stack') = 1 /\ stack'[1] = r
      /\ mark' \in [Repo -> {"white", "gray", "black"}]
      /\ mark'[r] = "gray" /\ \A x \in Repo \ {r} : mark'[x] = mark[x]
  BY <1>1, Pushed DEF Root
<1>3. WalkTypes'
  BY <1>1, <1>2 DEF WalkTypes
<1>4. StackInv'
  <2>1. \A x \in Repo : mark[x] # "gray"
    BY <1>1 DEF StackInv
  <2> QED
    BY <1>2, <2>1 DEF StackInv
<1>5. LookedInv'
  <2>1. \A x \in Repo : mark'[x] = "white" => left[x] = D[x]
    BY <1>2 DEF LookedInv
  <2>2. \A x \in Repo : mark'[x] = "black" => \A d \in D[x] : mark'[d] = "black"
    BY <1>1, <1>2 DEF LookedInv, WalkTypes, Graph
  <2>3. D[r] \ left[r] = {}
    BY <1>1 DEF LookedInv
  <2> QED
    BY <1>1, <1>2, <2>1, <2>2, <2>3 DEF LookedInv
<1>6. BlackInv'
  <2>1. {x \in Repo : mark'[x] = "black"} = {x \in Repo : mark[x] = "black"}
    BY <1>1, <1>2
  <2> QED
    BY <1>1, <2>1 DEF BlackInv
<1>7. CycleInv'
  BY <1>1 DEF CycleInv, Rejects
<1> QED
  BY <1>3, <1>4, <1>5, <1>6, <1>7

\* What Look has in hand: the top of the stack, gray, and its dependency.
LEMMA Looked ==
  ASSUME CheckInv, NEW dep \in Repo, Look(dep)
  PROVE  /\ Len(stack) \in Nat \ {0} /\ Top = stack[Len(stack)] /\ Top \in Repo
         /\ mark[Top] = "gray" /\ dep \in D[Top] /\ cycle = <<>>
         /\ D' = D /\ repos' = repos
         /\ left' \in Graph /\ left'[Top] = left[Top] \ {dep}
         /\ \A x \in Repo \ {Top} : left'[x] = left[x]
         /\ \A i \in 1 .. Len(stack) - 1 : stack[i] # Top
         /\ \A i \in 1 .. Len(stack) : stack[i] \in Repo
<1> USE DEF CheckInv
<1>1. stack \in Seq(Repo) /\ stack # <<>>
  BY DEF WalkTypes, Look
<1>2. Len(stack) \in Nat \ {0} /\ \A i \in 1 .. Len(stack) : stack[i] \in Repo
  BY <1>1
<1>3. Top = stack[Len(stack)] /\ Top \in Repo
  BY <1>1, <1>2 DEF Top
<1>4. mark[Top] = "gray" /\ \A i \in 1 .. Len(stack) - 1 : stack[i] # Top
  BY <1>2, <1>3 DEF StackInv
<1>5. dep \in D[Top] /\ cycle = <<>> /\ D' = D /\ repos' = repos
  BY <1>3 DEF Look, WalkTypes
<1>6. /\ left' \in Graph /\ left'[Top] = left[Top] \ {dep}
      /\ \A x \in Repo \ {Top} : left'[x] = left[x]
  BY <1>3 DEF Look, WalkTypes, Graph
<1> QED
  BY <1>2, <1>3, <1>4, <1>5, <1>6

\* Look walks into a white repo.
LEMMA LookWhiteKeeps ==
  ASSUME CheckInv, NEW dep \in Repo, Look(dep), mark[dep] = "white"
  PROVE  CheckInv'
<1> USE DEF CheckInv
<1> DEFINE N == Len(stack)
<1>1. /\ N \in Nat \ {0} /\ Top = stack[N] /\ Top \in Repo
      /\ mark[Top] = "gray" /\ dep \in D[Top] /\ cycle = <<>>
      /\ D' = D /\ repos' = repos
      /\ left' \in Graph /\ left'[Top] = left[Top] \ {dep}
      /\ \A x \in Repo \ {Top} : left'[x] = left[x]
      /\ \A i \in 1 .. N - 1 : stack[i] # Top
      /\ \A i \in 1 .. N : stack[i] \in Repo
  BY Looked
<1>2. Push(dep) /\ cycle' = cycle
  BY DEF Look
<1>3. /\ stack' \in Seq(Repo) /\ Len(stack') = N + 1
      /\ \A i \in 1 .. N : stack'[i] = stack[i]
      /\ stack'[N + 1] = dep
      /\ mark' \in [Repo -> {"white", "gray", "black"}]
      /\ mark'[dep] = "gray" /\ \A x \in Repo \ {dep} : mark'[x] = mark[x]
  BY <1>2, Pushed
<1> HIDE DEF N
<1>4. WalkTypes'
  <2>1. left' \in Graph /\ \A x \in Repo : left'[x] \subseteq D[x]
    BY <1>1 DEF WalkTypes
  <2> QED
    BY <1>1, <1>2, <1>3, <2>1 DEF WalkTypes
<1>5. StackInv'
  <2>1. \A x \in Repo : mark'[x] = "gray" <=> \E i \in 1 .. N + 1 : stack'[i] = x
    <3>1. \A x \in Repo : mark[x] = "gray" <=> \E i \in 1 .. N : stack[i] = x
      BY DEF StackInv, N
    <3> QED
      BY <1>1, <1>3, <3>1
  <2>2. ASSUME NEW i \in 1 .. N + 1, NEW j \in 1 .. N + 1, i < j
        PROVE  stack'[i] # stack'[j] /\ stack'[j] \in Reach(D, stack'[i])
    <3>1. i \in 1 .. N /\ stack'[i] = stack[i] /\ mark[stack[i]] = "gray"
      BY <1>1, <1>3, <2>2 DEF StackInv, N
    <3>2. CASE j \in 1 .. N
      BY <1>3, <2>2, <3>1, <3>2 DEF StackInv, N
    <3>3. CASE j = N + 1 /\ i = N
      BY <1>1, <1>3, <3>1, <3>3, ReachFirst DEF WalkTypes
    <3>4. CASE j = N + 1 /\ i < N
      <4>1. Top \in Reach(D, stack[i])
        BY <1>1, <3>1, <3>4 DEF StackInv, N
      <4>2. dep \in Reach(D, stack[i])
        BY <1>1, <3>1, <4>1, ReachStep DEF WalkTypes
      <4> QED
        BY <1>3, <3>1, <3>4, <4>2
    <3> QED
      BY <1>1, <3>1, <3>2, <3>3, <3>4
  <2>3. \A i \in 1 .. N : stack'[i + 1] \in D[stack'[i]]
    <3>1. \A i \in 1 .. N - 1 : stack[i + 1] \in D[stack[i]]
      BY DEF StackInv, N
    <3> QED
      BY <1>1, <1>3, <3>1
  <2> QED
    BY <1>1, <1>3, <2>1, <2>2, <2>3 DEF StackInv
<1>6. LookedInv'
  <2>1. \A x \in Repo : mark'[x] = "white" => left'[x] = D[x]
    BY <1>1, <1>3 DEF LookedInv
  <2>2. \A x \in Repo : mark'[x] = "black" => \A d \in D[x] : mark'[d] = "black"
    BY <1>3 DEF LookedInv, WalkTypes, Graph
  <2>3. ASSUME NEW i \in 1 .. N + 1, NEW d \in D[stack'[i]] \ left'[stack'[i]]
        PROVE  mark'[d] = "black" \/ (i < N + 1 /\ d = stack'[i + 1])
    <3>1. CASE i = N + 1
      <4>1. left[dep] = D[dep] /\ dep # Top
        BY <1>1 DEF LookedInv
      <4> QED
        BY <1>1, <1>3, <2>3, <3>1, <4>1
    <3>2. CASE i = N
      <4>1. d = dep \/ d \in D[Top] \ left[Top]
        BY <1>1, <1>3, <2>3, <3>2
      <4>2. CASE d = dep
        BY <1>1, <1>3, <3>2, <4>2
      <4>3. CASE d \in D[Top] \ left[Top]
        <5>1. mark[d] = "black" /\ d \in Repo
          BY <1>1, <4>3 DEF LookedInv, WalkTypes, Graph, N
        <5> QED
          BY <1>3, <5>1
      <4> QED
        BY <4>1, <4>2, <4>3
    <3>3. CASE i < N
      <4>1. i \in 1 .. N - 1 /\ stack'[i] = stack[i] /\ stack'[i + 1] = stack[i + 1]
        BY <1>1, <1>3, <2>3, <3>3
      <4>2. d \in D[stack[i]] \ left[stack[i]] /\ d \in Repo
        BY <1>1, <4>1 DEF WalkTypes, Graph
      <4>3. mark[d] = "black" \/ d = stack[i + 1]
        BY <1>1, <4>1, <4>2 DEF LookedInv, N
      <4> QED
        BY <1>1, <1>3, <4>1, <4>2, <4>3
    <3> QED
      BY <1>1, <3>1, <3>2, <3>3
  <2> QED
    BY <1>1, <1>3, <2>1, <2>2, <2>3 DEF LookedInv
<1>7. BlackInv'
  <2>1. {x \in Repo : mark'[x] = "black"} = {x \in Repo : mark[x] = "black"}
    BY <1>3
  <2> QED
    BY <1>1, <2>1 DEF BlackInv
<1>8. CycleInv'
  BY <1>1, <1>2 DEF CycleInv, Rejects
<1> QED
  BY <1>4, <1>5, <1>6, <1>7, <1>8

\* Look finds a cycle, or a repo that is done.
LEMMA LookDarkKeeps ==
  ASSUME CheckInv, NEW dep \in Repo, Look(dep), mark[dep] # "white"
  PROVE  CheckInv'
<1> USE DEF CheckInv
<1> DEFINE N == Len(stack)
<1>1. /\ N \in Nat \ {0} /\ Top = stack[N] /\ Top \in Repo
      /\ mark[Top] = "gray" /\ dep \in D[Top] /\ cycle = <<>>
      /\ D' = D /\ repos' = repos
      /\ left' \in Graph /\ left'[Top] = left[Top] \ {dep}
      /\ \A x \in Repo \ {Top} : left'[x] = left[x]
      /\ \A i \in 1 .. N - 1 : stack[i] # Top
      /\ \A i \in 1 .. N : stack[i] \in Repo
  BY Looked
<1>2. /\ mark' = mark /\ stack' = stack /\ stack \in Seq(Repo)
      /\ \/ mark[dep] = "gray" /\ cycle' = CycleAt(dep)
         \/ mark[dep] = "black" /\ cycle' = cycle
  BY DEF Look, WalkTypes
<1> HIDE DEF N
<1>3. ASSUME mark[dep] = "gray", cycle' = CycleAt(dep)
      PROVE  /\ cycle' \in Seq(Repo) /\ cycle'[Len(cycle')] = dep /\ cycle' # <<>>
             /\ IsCycle(cycle') /\ cycle'[1] \in Reach(D, cycle'[1])
  <2> DEFINE from == CHOOSE i \in 1 .. N : stack[i] = dep
             part == SubSeq(stack, from, N)
  <2>1. from \in 1 .. N /\ stack[from] = dep
    BY <1>3 DEF StackInv, N
  <2> HIDE DEF from
  <2>2. /\ part \in Seq(Repo) /\ Len(part) = N - from + 1
        /\ \A i \in 1 .. N - from + 1 : part[i] = stack[from + i - 1]
    BY <1>1, <2>1, SubSeqProperties
  <2>3. cycle' = Append(part, dep)
    BY <1>3 DEF CycleAt, from, N
  <2> HIDE DEF part
  <2>4. /\ cycle' \in Seq(Repo) /\ Len(cycle') = N - from + 2
        /\ cycle'[N - from + 2] = dep
        /\ \A i \in 1 .. N - from + 1 : cycle'[i] = stack[from + i - 1]
    BY <1>1, <2>1, <2>2, <2>3
  <2>5. cycle'[1] = dep
    BY <1>1, <2>1, <2>4
  <2>6. \A i \in 1 .. N - from + 1 : cycle'[i + 1] \in D[cycle'[i]]
    <3>1. \A i \in 1 .. N - 1 : stack[i + 1] \in D[stack[i]]
      BY DEF StackInv, N
    <3> TAKE i \in 1 .. N - from + 1
    <3>2. CASE i = N - from + 1
      BY <1>1, <2>1, <2>4, <3>2
    <3>3. CASE i # N - from + 1
      <4>1. from + i - 1 \in 1 .. N - 1 /\ i + 1 \in 1 .. N - from + 1
        BY <1>1, <2>1, <3>3
      <4>2. stack[(from + i - 1) + 1] \in D[stack[from + i - 1]]
        BY <3>1, <4>1
      <4>3. cycle'[i] = stack[from + i - 1] /\ cycle'[i + 1] = stack[from + (i + 1) - 1]
        BY <2>4, <4>1
      <4>4. from + (i + 1) - 1 = (from + i - 1) + 1
        BY <1>1, <2>1
      <4> QED
        BY <4>2, <4>3, <4>4
    <3> QED
      BY <3>2, <3>3
  <2>7. dep \in Reach(D, dep)
    <3>1. CASE from = N
      BY <1>1, <2>1, <3>1, ReachFirst DEF WalkTypes
    <3>2. CASE from # N
      <4>1. Top \in Reach(D, dep)
        BY <1>1, <2>1, <3>2 DEF StackInv, N
      <4> QED
        BY <1>1, <4>1, ReachStep DEF WalkTypes
    <3> QED
      BY <3>1, <3>2
  <2>8. IsCycle(cycle')
    BY <1>1, <2>1, <2>4, <2>5, <2>6 DEF IsCycle
  <2>9. cycle' # <<>> /\ cycle'[Len(cycle')] = dep
    BY <1>1, <2>1, <2>4
  <2> QED
    BY <2>4, <2>5, <2>7, <2>8, <2>9
<1>4. WalkTypes'
  <2>1. \A x \in Repo : left'[x] \subseteq D[x]
    BY <1>1 DEF WalkTypes
  <2>2. cycle' \in Seq(Repo)
    BY <1>2, <1>3 DEF WalkTypes
  <2> QED
    BY <1>1, <1>2, <2>1, <2>2 DEF WalkTypes
<1>5. StackInv'
  BY <1>1, <1>2 DEF StackInv
<1>6. LookedInv'
  <2>1. \A x \in Repo : mark[x] = "white" => left'[x] = D[x]
    BY <1>1 DEF LookedInv
  <2>2. ASSUME NEW i \in 1 .. N, NEW d \in D[stack[i]] \ left'[stack[i]]
        PROVE  \/ mark[d] = "black"
               \/ i < N /\ d = stack[i + 1]
               \/ cycle' # <<>> /\ i = N /\ d = cycle'[Len(cycle')]
    <3>1. CASE d = dep /\ i = N
      BY <1>2, <1>3, <3>1
    <3>2. CASE ~(d = dep /\ i = N)
      <4>1. d \in D[stack[i]] \ left[stack[i]]
        BY <1>1, <2>2, <3>2
      <4> QED
        BY <1>1, <4>1 DEF LookedInv, N
    <3> QED
      BY <3>1, <3>2
  <2> QED
    BY <1>1, <1>2, <2>1, <2>2 DEF LookedInv, N
<1>7. BlackInv'
  BY <1>1, <1>2 DEF BlackInv
<1>8. CycleInv'
  <2>1. stack # <<>>
    BY DEF Look
  <2>2. CASE mark[dep] = "gray" /\ cycle' = CycleAt(dep)
    BY <1>1, <1>2, <1>3, <2>1, <2>2 DEF CycleInv, IsCycle, Rejects
  <2>3. CASE cycle' = cycle
    BY <1>1, <2>3 DEF CycleInv, Rejects
  <2> QED
    BY <1>2, <2>2, <2>3
<1> QED
  BY <1>4, <1>5, <1>6, <1>7, <1>8

\* The repo on top is done.
LEMMA RetreatKeeps ==
  ASSUME CheckInv, Retreat
  PROVE  CheckInv'
<1> USE DEF CheckInv
<1> DEFINE N == Len(stack)
<1>1. /\ N \in Nat \ {0} /\ Top \in Repo
      /\ stack' \in Seq(Repo) /\ Len(stack') = N - 1
      /\ \A i \in 1 .. N - 1 : stack'[i] = stack[i]
      /\ mark' \in [Repo -> {"white", "gray", "black"}]
      /\ mark'[Top] = "black" /\ \A r \in Repo \ {Top} : mark'[r] = mark[r]
  BY Popped
<1>2. /\ D' = D /\ repos' = repos /\ left' = left /\ cycle' = cycle /\ cycle = <<>>
      /\ Top = stack[N] /\ left[Top] = {}
  BY DEF Retreat, Top
<1>3. mark[Top] = "gray" /\ \A i \in 1 .. N : stack[i] \in Repo
  BY <1>1, <1>2 DEF StackInv, WalkTypes
<1> HIDE DEF N
<1>4. \A i \in 1 .. N - 1 : stack[i] # Top
  BY <1>1, <1>2 DEF StackInv, N
<1>5. \A d \in D[Top] : mark[d] = "black"
  BY <1>1, <1>2 DEF LookedInv, N
<1>6. WalkTypes'
  BY <1>1, <1>2 DEF WalkTypes
<1>7. StackInv'
  <2>1. \A x \in Repo : mark'[x] = "gray" <=> \E i \in 1 .. N - 1 : stack'[i] = x
    <3>1. \A x \in Repo : mark[x] = "gray" <=> \E i \in 1 .. N : stack[i] = x
      BY DEF StackInv, N
    <3> QED
      BY <1>1, <1>2, <1>4, <3>1
  <2>2. ASSUME NEW i \in 1 .. N - 1, NEW j \in 1 .. N - 1, i < j
        PROVE  stack'[i] # stack'[j] /\ stack'[j] \in Reach(D, stack'[i])
    <3>1. i \in 1 .. N /\ j \in 1 .. N
      BY <1>1
    <3>2. stack[i] # stack[j] /\ stack[j] \in Reach(D, stack[i])
      BY <2>2, <3>1 DEF StackInv, N
    <3> QED
      BY <1>1, <3>2
  <2>3. \A i \in 1 .. N - 2 : stack'[i + 1] \in D[stack'[i]]
    BY <1>1 DEF StackInv, N
  <2>4. (N - 1) - 1 = N - 2
    BY <1>1
  <2> QED
    BY <1>1, <1>2, <2>1, <2>2, <2>3, <2>4 DEF StackInv
<1>8. LookedInv'
  <2>1. \A x \in Repo : mark'[x] = "white" => left[x] = D[x]
    BY <1>1 DEF LookedInv
  <2>2. \A x \in Repo : mark'[x] = "black" => \A d \in D[x] : mark'[d] = "black"
    BY <1>1, <1>5 DEF LookedInv, WalkTypes, Graph
  <2>3. ASSUME NEW i \in 1 .. N - 1, NEW d \in D[stack[i]] \ left[stack[i]]
        PROVE  mark'[d] = "black" \/ (i < N - 1 /\ d = stack[i + 1])
    <3>1. d \in Repo
      BY <1>1, <1>3 DEF WalkTypes, Graph
    <3>2. mark[d] = "black" \/ d = stack[i + 1]
      BY <1>1, <1>2 DEF LookedInv, N
    <3> QED
      BY <1>1, <1>2, <3>1, <3>2
  <2> QED
    BY <1>1, <1>2, <2>1, <2>2, <2>3 DEF LookedInv
<1>9. BlackInv'
  <2> SUFFICES ASSUME NEW S \in SUBSET {x \in Repo : mark'[x] = "black"},
                      \A s \in S : D[s] \cap S # {}
               PROVE  S = {}
    BY <1>2 DEF BlackInv
  <2> DEFINE T == S \ {Top}
  <2>1. T \in SUBSET {x \in Repo : mark[x] = "black"}
    BY <1>1
  <2>2. \A s \in T : D[s] \cap T # {}
    BY <1>3, <2>1 DEF LookedInv
  <2>3. T = {}
    BY <2>1, <2>2 DEF BlackInv
  <2>4. Top \notin D[Top]
    BY <1>3, <1>5
  <2> QED
    BY <2>3, <2>4
<1>10. CycleInv'
  BY <1>2 DEF CycleInv, Rejects
<1> QED
  BY <1>6, <1>7, <1>8, <1>9, <1>10

\* The verdict follows from the invariant.
LEMMA CheckInvRight == CheckInv => VerdictRight
<1> SUFFICES ASSUME CheckInv PROVE VerdictRight
  OBVIOUS
<1> USE DEF CheckInv
<1>1. ASSUME Accepts PROVE Acyclic(D)
  <2>1. \A r \in repos : mark[r] = "black"
    BY <1>1 DEF Accepts, StackInv, WalkTypes
  <2>2. ASSUME NEW S \in SUBSET Repo, \A s \in S : D[s] \cap S # {} PROVE S = {}
    <3>1. S \subseteq repos
      BY <2>2 DEF WalkTypes
    <3> QED
      BY <2>1, <2>2, <3>1 DEF BlackInv
  <2> QED
    BY <2>2, WellFoundedAcyclic DEF WalkTypes
<1>2. ASSUME Rejects PROVE ~Acyclic(D) /\ IsCycle(cycle)
  BY <1>2 DEF CycleInv, Acyclic, IsCycle, Reach
<1> QED
  BY <1>1, <1>2 DEF VerdictRight

----------------------------------------------------------------------------
(* Merging.                                                                *)

\* The next entry, and what is known of its repo.
LEMMA NextEntry ==
  ASSUME TypeOK, at < Len(config)
  PROVE  /\ at + 1 \in 1 .. Len(config) /\ at \in Nat
         /\ config[at + 1] \in Entries
         /\ config[at + 1].group \in Group /\ config[at + 1].path \in Path
         /\ config[at + 1].fields \in Values
         /\ EntryName(config[at + 1]) \in Repo \cup {NotSet}
<1>1. at + 1 \in 1 .. Len(config) /\ at \in Nat /\ config \in Seq(Entries)
  BY DEF TypeOK
<1>2. config[at + 1] \in Entries
  BY <1>1
<1> QED
  BY <1>1, <1>2, LoadAssumption DEF EntryName

LEMMA Entry ==
  ASSUME TypeOK, NEW i \in 1 .. Len(config)
  PROVE  /\ config[i] \in Entries /\ config[i].fields \in Values
         /\ config[i].fields["depends_on"] \in {NotSet} \cup Seq(Repo)
         /\ EntryName(config[i]) \in Repo \cup {NotSet} /\ config[i].path \in Path
<1>1. config[i] \in Entries
  BY DEF TypeOK
<1> QED
  BY <1>1, LoadAssumption DEF EntryName

\* A record of a path and fields is not the absent one.
LEMMA Present ==
  ASSUME NEW p, NEW v
  PROVE  [path |-> p, fields |-> v] # Absent
<1>1. "fields" \in DOMAIN [path |-> p, fields |-> v] /\ "fields" \notin DOMAIN Absent
  BY DEF Absent
<1> QED
  BY <1>1

\* The first entry of a repo.
LEMMA MergeFirst ==
  ASSUME TypeOK, MergeInv, at < Len(config), EntryName(config[at + 1]) # NotSet,
         pending[EntryName(config[at + 1])] = Absent,
         pending' = [pending EXCEPT ![EntryName(config[at + 1])] =
                       [path |-> config[at + 1].path, fields |-> config[at + 1].fields]],
         groups' = [groups EXCEPT ![config[at + 1].group] =
                      @ \cup {EntryName(config[at + 1])}],
         at' = at + 1, config' = config
  PROVE  MergeInv' /\ pending' \in [Repo -> Pending] /\ groups' \in [Group -> SUBSET Repo]
<1> DEFINE e == config[at + 1]
           n == EntryName(e)
<1>1. /\ at + 1 \in 1 .. Len(config) /\ at \in Nat /\ n \in Repo
      /\ e.group \in Group /\ e.path \in Path /\ e.fields \in Values
  BY NextEntry
<1>2. /\ pending \in [Repo -> Pending] /\ groups \in [Group -> SUBSET Repo]
      /\ \A i \in 1 .. at : EntryName(config[i]) \in Repo /\ config[i].group \in Group
  <2>1. ASSUME NEW i \in 1 .. at
        PROVE  EntryName(config[i]) \in Repo /\ config[i].group \in Group
    BY <1>1, <2>1, Entry, LoadAssumption DEF TypeOK, MergeInv
  <2> QED
    BY <2>1 DEF TypeOK
<1>3. /\ pending[n] = Absent
      /\ pending'[n] = [path |-> e.path, fields |-> e.fields]
      /\ \A r \in Repo \ {n} : pending'[r] = pending[r]
      /\ groups'[e.group] = groups[e.group] \cup {n}
      /\ \A g \in Group \ {e.group} : groups'[g] = groups[g]
  BY <1>1, <1>2
<1> HIDE DEF n, e
<1>4. pending'[n] # Absent /\ pending'[n].path = e.path /\ pending'[n].fields = e.fields
  BY <1>3, Present
<1>5. Known' = Known \cup {n}
  BY <1>1, <1>3, <1>4 DEF Known
<1>6. \A i \in 1 .. at' :
        LET o == config'[i]
            p == pending'[EntryName(o)]
        IN  /\ p # Absent /\ p.path = o.path
            /\ \A f \in Field : o.fields[f] \in {NotSet, p.fields[f]}
            /\ EntryName(o) \in groups'[o.group]
  <2> TAKE i \in 1 .. at'
  <2>1. CASE i = at + 1
    BY <1>1, <1>3, <1>4, <2>1 DEF n, e
  <2>2. CASE i # at + 1
    <3>1. i \in 1 .. at
      BY <1>1, <2>2
    <3>2. EntryName(config[i]) # n
      BY <1>3, <3>1 DEF MergeInv
    <3> QED
      BY <1>2, <1>3, <3>1, <3>2 DEF MergeInv
  <2> QED
    BY <2>1, <2>2
<1>7. \A r \in Known' : \E i \in 1 .. at' : EntryName(config'[i]) = r
  BY <1>1, <1>5 DEF MergeInv, n, e
<1>8. ASSUME NEW r \in Known', NEW f \in Field, pending'[r].fields[f] # NotSet
      PROVE  \E i \in 1 .. at' : /\ EntryName(config'[i]) = r
                                /\ config'[i].fields[f] = pending'[r].fields[f]
  <2>1. CASE r = n
    BY <1>1, <1>4, <2>1 DEF n, e
  <2>2. CASE r # n
    <3>1. r \in Known /\ pending'[r] = pending[r]
      BY <1>3, <1>5, <2>2 DEF Known
    <3> QED
      BY <1>1, <1>8, <3>1 DEF MergeInv
  <2> QED
    BY <2>1, <2>2
<1>9. \A g \in Group : groups'[g] \subseteq Known'
  BY <1>3, <1>5 DEF MergeInv
<1>10. pending' \in [Repo -> Pending] /\ groups' \in [Group -> SUBSET Repo]
  BY <1>1, <1>2 DEF Pending, e, n
<1>11. \A i \in 1 .. at' : EntryName(config'[i]) # NotSet
  BY <1>1 DEF MergeInv
<1> QED
  BY <1>6, <1>7, <1>8, <1>9, <1>10, <1>11 DEF MergeInv

\* A further entry of a repo, which agrees with those before it.
LEMMA MergeMore ==
  ASSUME TypeOK, MergeInv, at < Len(config), EntryName(config[at + 1]) # NotSet,
         pending[EntryName(config[at + 1])] # Absent,
         pending[EntryName(config[at + 1])].path = config[at + 1].path,
         ~Conflict(pending[EntryName(config[at + 1])].fields, config[at + 1].fields),
         pending' = [pending EXCEPT ![EntryName(config[at + 1])] =
           [path |-> config[at + 1].path,
            fields |-> Merged(pending[EntryName(config[at + 1])].fields,
                              config[at + 1].fields)]],
         groups' = [groups EXCEPT ![config[at + 1].group] =
                      @ \cup {EntryName(config[at + 1])}],
         at' = at + 1, config' = config
  PROVE  MergeInv' /\ pending' \in [Repo -> Pending] /\ groups' \in [Group -> SUBSET Repo]
<1> DEFINE e == config[at + 1]
           n == EntryName(e)
           old == pending[n].fields
<1>1. /\ at + 1 \in 1 .. Len(config) /\ at \in Nat /\ n \in Repo
      /\ e.group \in Group /\ e.path \in Path /\ e.fields \in Values
  BY NextEntry
<1>2. /\ pending \in [Repo -> Pending] /\ groups \in [Group -> SUBSET Repo]
      /\ \A i \in 1 .. at : EntryName(config[i]) \in Repo /\ config[i].group \in Group
  <2>1. ASSUME NEW i \in 1 .. at
        PROVE  EntryName(config[i]) \in Repo /\ config[i].group \in Group
    BY <1>1, <2>1, Entry, LoadAssumption DEF TypeOK, MergeInv
  <2> QED
    BY <2>1 DEF TypeOK
<1>3. pending[n] \in [path : Path, fields : Values] /\ old \in Values
  BY <1>1, <1>2 DEF Pending
<1>4. /\ pending'[n] = [path |-> e.path, fields |-> Merged(old, e.fields)]
      /\ \A r \in Repo \ {n} : pending'[r] = pending[r]
      /\ groups'[e.group] = groups[e.group] \cup {n}
      /\ \A g \in Group \ {e.group} : groups'[g] = groups[g]
  BY <1>1, <1>2
<1>5. \A f \in Field : e.fields[f] \in {NotSet, Merged(old, e.fields)[f]}
                    /\ old[f] \in {NotSet, Merged(old, e.fields)[f]}
                    /\ Merged(old, e.fields)[f] \in {old[f], e.fields[f]}
  BY DEF Conflict, Merged
<1>6. Merged(old, e.fields) \in Values
  BY <1>1, <1>3 DEF Merged, Values
<1>7. pending[n].path = e.path /\ pending[n] # Absent
  OBVIOUS
<1> HIDE DEF n, e, old
<1>9. /\ pending'[n] # Absent /\ pending'[n].path = e.path
      /\ pending'[n].fields = Merged(old, e.fields)
  BY <1>4, Present
<1>10. Known' = Known /\ n \in Known
  BY <1>1, <1>4, <1>7, <1>9 DEF Known
<1>11. \A i \in 1 .. at' :
        LET o == config'[i]
            p == pending'[EntryName(o)]
        IN  /\ p # Absent /\ p.path = o.path
            /\ \A f \in Field : o.fields[f] \in {NotSet, p.fields[f]}
            /\ EntryName(o) \in groups'[o.group]
  <2> TAKE i \in 1 .. at'
  <2>1. CASE i = at + 1
    BY <1>1, <1>4, <1>5, <1>9, <2>1 DEF n, e
  <2>2. CASE i # at + 1
    <3>1. i \in 1 .. at
      BY <1>1, <2>2
    <3>2. CASE EntryName(config[i]) = n
      <4>1. /\ n \in groups[config[i].group] /\ config[i].path = e.path
            /\ \A f \in Field : config[i].fields[f] \in {NotSet, old[f]}
        BY <1>7, <3>1, <3>2 DEF MergeInv, old
      <4> QED
        BY <1>2, <1>4, <1>5, <1>9, <3>1, <3>2, <4>1
    <3>3. CASE EntryName(config[i]) # n
      BY <1>2, <1>4, <3>1, <3>3 DEF MergeInv
    <3> QED
      BY <3>2, <3>3
  <2> QED
    BY <2>1, <2>2
<1>12. \A r \in Known' : \E i \in 1 .. at' : EntryName(config'[i]) = r
  BY <1>1, <1>10 DEF MergeInv
<1>13. ASSUME NEW r \in Known', NEW f \in Field, pending'[r].fields[f] # NotSet
      PROVE  \E i \in 1 .. at' : /\ EntryName(config'[i]) = r
                                /\ config'[i].fields[f] = pending'[r].fields[f]
  <2>1. CASE r = n /\ pending'[n].fields[f] = e.fields[f]
    BY <1>1, <1>9, <2>1 DEF n, e
  <2>2. CASE r = n /\ pending'[n].fields[f] = old[f]
    BY <1>1, <1>10, <1>13, <2>2 DEF MergeInv, old
  <2>3. CASE r # n
    <3>1. r \in Known /\ pending'[r] = pending[r]
      BY <1>4, <1>10, <2>3 DEF Known
    <3> QED
      BY <1>1, <1>13, <3>1 DEF MergeInv
  <2> QED
    BY <1>5, <1>9, <2>1, <2>2, <2>3
<1>14. \A g \in Group : groups'[g] \subseteq Known'
  BY <1>4, <1>10 DEF MergeInv
<1>15. pending' \in [Repo -> Pending]
  BY <1>1, <1>2, <1>4, <1>6 DEF Pending
<1>16. groups' \in [Group -> SUBSET Repo]
  BY <1>1, <1>2 DEF n, e
<1>17. \A i \in 1 .. at' : EntryName(config'[i]) # NotSet
  BY <1>1 DEF MergeInv
<1> QED
  BY <1>11, <1>12, <1>13, <1>14, <1>15, <1>16, <1>17 DEF MergeInv

\* A clash is one of the entries themselves.
LEMMA ClashReal ==
  ASSUME TypeOK, MergeInv, Clash
  PROVE  ~Consistent
<1> DEFINE e == config[at + 1]
           n == EntryName(e)
<1>1. /\ at + 1 \in 1 .. Len(config) /\ at \in Nat /\ n \in Repo
  BY NextEntry DEF Clash
<1>2. n \in Known /\ e \in EntriesOf(n)
  BY <1>1 DEF Clash, Known, EntriesOf
<1>3. \A i \in 1 .. at : EntryName(config[i]) = n => config[i] \in EntriesOf(n)
  BY <1>1 DEF EntriesOf, TypeOK
<1>4. CASE pending[n].path # e.path
  <2>1. PICK i \in 1 .. at : EntryName(config[i]) = n
    BY <1>2 DEF MergeInv
  <2>2. config[i].path # e.path
    BY <1>4, <2>1 DEF MergeInv
  <2> QED
    BY <1>1, <1>2, <1>3, <2>1, <2>2 DEF Consistent
<1>5. CASE Conflict(pending[n].fields, e.fields)
  <2>1. PICK f \in Field : /\ pending[n].fields[f] # NotSet /\ e.fields[f] # NotSet
                           /\ pending[n].fields[f] # e.fields[f]
    BY <1>5 DEF Conflict
  <2>2. PICK i \in 1 .. at : /\ EntryName(config[i]) = n
                             /\ config[i].fields[f] = pending[n].fields[f]
    BY <1>2, <2>1 DEF MergeInv
  <2> QED
    BY <1>1, <1>2, <1>3, <2>1, <2>2 DEF Consistent
<1> QED
  BY <1>4, <1>5 DEF Clash

\* Of a repo that is known, what all entries say is what is pending.
LEMMA AllMerged ==
  ASSUME TypeOK, MergeInv, at = Len(config), NEW r \in Repo, NEW e \in EntriesOf(r)
  PROVE  /\ r \in Known /\ pending[r].path = e.path
         /\ \A f \in Field : e.fields[f] \in {NotSet, pending[r].fields[f]}
<1>1. PICK i \in 1 .. at : EntryName(config[i]) = r /\ e = config[i]
  BY DEF EntriesOf
<1> QED
  BY <1>1 DEF MergeInv, Known

LEMMA KnownEntry ==
  ASSUME TypeOK, MergeInv, at = Len(config), NEW r \in Known
  PROVE  EntriesOf(r) # {}
<1>1. PICK i \in 1 .. at : EntryName(config[i]) = r
  BY DEF MergeInv
<1>2. config[i] \in EntriesOf(r)
  BY <1>1 DEF EntriesOf
<1> QED
  BY <1>2

\* What is known of dependencies is a set of repos.
LEMMA DependsOnType ==
  ASSUME TypeOK, MergeInv, NEW r \in Repo
  PROVE  DependsOn(r) \in SUBSET Repo
<1>1. CASE r \in Known /\ pending[r].fields["depends_on"] # NotSet
  <2>1. PICK i \in 1 .. at :
          config[i].fields["depends_on"] = pending[r].fields["depends_on"]
    BY <1>1 DEF MergeInv, Field
  <2>2. i \in 1 .. Len(config)
    BY DEF TypeOK
  <2> QED
    BY <1>1, <2>1, <2>2, Entry DEF DependsOn, Range
<1> QED
  BY <1>1 DEF DependsOn

\* A dependency that does not resolve is none of the repos of the entries.
LEMMA UnresolvedReal ==
  ASSUME TypeOK, MergeInv, at = Len(config), ~Resolved
  PROVE  ~AllKnown
<1>1. PICK r \in Repo : ~(DependsOn(r) \subseteq Known)
  BY DEF Resolved
<1>2. r \in Known /\ pending[r].fields["depends_on"] # NotSet
  BY <1>1 DEF DependsOn
<1>3. PICK i \in 1 .. at : /\ EntryName(config[i]) = r
                          /\ config[i].fields["depends_on"] = pending[r].fields["depends_on"]
  BY <1>2 DEF MergeInv, Field
<1>4. pending[r].fields["depends_on"] \in Given(r, "depends_on")
  BY <1>2, <1>3 DEF Given, EntriesOf
<1>5. PICK d \in DependsOn(r) : d \notin Known
  BY <1>1
<1>6. d \in Repo
  BY <1>5, DependsOnType
<1>7. EntriesOf(d) = {}
  BY <1>5, <1>6, AllMerged
<1> QED
  BY <1>2, <1>4, <1>5, <1>7 DEF AllKnown, DependsOn

\* Once everything is merged and resolved, it is what the entries say.
LEMMA MergedExact ==
  ASSUME TypeOK, MergeInv, at = Len(config), Resolved
  PROVE  /\ Named /\ Consistent /\ AllKnown
         /\ \A r \in Repo : pending[r] = Absent <=> EntriesOf(r) = {}
         /\ \A r \in Known : \A f \in Field :
              \/ Given(r, f) = {} /\ pending[r].fields[f] = NotSet
              \/ Given(r, f) = {pending[r].fields[f]}
<1>1. Consistent
  BY AllMerged DEF Consistent
<1>2. AllKnown
  <2> SUFFICES ASSUME NEW r \in Repo, NEW l \in Given(r, "depends_on"),
                      NEW d \in Range(l)
               PROVE  EntriesOf(d) # {}
    BY DEF AllKnown
  <2>1. PICK e \in EntriesOf(r) : l = e.fields["depends_on"] /\ l # NotSet
    BY DEF Given
  <2>2. r \in Known /\ l = pending[r].fields["depends_on"]
    BY <2>1, AllMerged DEF Field
  <2>3. Range(l) = DependsOn(r)
    BY <2>1, <2>2 DEF DependsOn
  <2> QED
    BY <2>3, KnownEntry DEF Resolved
<1>3. \A r \in Repo : pending[r] = Absent <=> EntriesOf(r) = {}
  BY AllMerged, KnownEntry DEF Known
<1>4. ASSUME NEW r \in Known, NEW f \in Field
      PROVE  \/ Given(r, f) = {} /\ pending[r].fields[f] = NotSet
             \/ Given(r, f) = {pending[r].fields[f]}
  <2>1. r \in Repo
    BY DEF Known
  <2>2. Given(r, f) \subseteq {pending[r].fields[f]} /\ NotSet \notin Given(r, f)
    BY <2>1, AllMerged DEF Given
  <2>3. CASE pending[r].fields[f] = NotSet
    BY <2>2, <2>3
  <2>4. CASE pending[r].fields[f] # NotSet
    <3>1. PICK i \in 1 .. at : /\ EntryName(config[i]) = r
                              /\ config[i].fields[f] = pending[r].fields[f]
      BY <2>4 DEF MergeInv
    <3>2. pending[r].fields[f] \in Given(r, f)
      BY <2>4, <3>1 DEF Given, EntriesOf
    <3> QED
      BY <2>2, <3>2
  <2> QED
    BY <2>3, <2>4
<1>5. Named
  BY DEF MergeInv, Named
<1> QED
  BY <1>1, <1>2, <1>3, <1>4, <1>5

----------------------------------------------------------------------------
(* Loading and selecting.                                                  *)

\* The invariant holds when nothing has been merged.
LEMMA InitInd == Init => IndInv
<1> SUFFICES ASSUME Init PROVE IndInv
  OBVIOUS
<1>1. config \in Seq(Entries) /\ at = 0 /\ at \in 0 .. Len(config)
  BY DEF Init
<1>2. TypeOK
  BY <1>1 DEF Init, TypeOK, Pending
<1>3. Known = {}
  BY DEF Init, Known
<1>4. MergeInv
  BY <1>1, <1>3 DEF Init, MergeInv
<1>5. PhaseInv
  BY DEF Init, PhaseInv, Ended
<1>6. CheckInv
  BY DEF Init, CheckInv, WalkTypes, StackInv, LookedInv, BlackInv, CycleInv, Rejects, Graph
<1> QED
  BY <1>2, <1>4, <1>5, <1>6 DEF IndInv

\* A search that begins knows nothing yet.
LEMMA StartKeeps ==
  ASSUME NEW R \in SUBSET Repo, NEW G \in Graph,
         \A r \in Repo : G[r] \subseteq R, \A r \in Repo \ R : G[r] = {},
         StartCheck(R, G)
  PROVE  CheckInv'
<1>1. /\ D' = G /\ repos' = R /\ left' = G /\ stack' = <<>> /\ cycle' = <<>>
      /\ mark' = [r \in Repo |-> "white"]
  BY DEF StartCheck
<1>2. WalkTypes'
  BY <1>1 DEF WalkTypes
<1>3. StackInv'
  BY <1>1 DEF StackInv
<1>4. LookedInv'
  BY <1>1 DEF LookedInv
<1>5. BlackInv'
  BY <1>1 DEF BlackInv
<1>6. CycleInv'
  BY <1>1 DEF CycleInv, Rejects
<1> QED
  BY <1>2, <1>3, <1>4, <1>5, <1>6 DEF CheckInv

\* What leaves the search alone.
LEMMA CheckUnchanged == CheckInv /\ UNCHANGED walk => CheckInv'
<1> SUFFICES ASSUME CheckInv, UNCHANGED walk PROVE CheckInv'
  OBVIOUS
<1> USE DEF CheckInv, walk
<1>1. WalkTypes'
  BY DEF WalkTypes
<1>2. StackInv'
  BY DEF StackInv
<1>3. LookedInv'
  BY DEF LookedInv
<1>4. BlackInv'
  BY DEF BlackInv
<1>5. CycleInv'
  BY DEF CycleInv, Rejects, IsCycle
<1> QED
  BY <1>1, <1>2, <1>3, <1>4, <1>5

\* Every step keeps the invariant.
LEMMA NextInd == IndInv /\ [Next]_vars => IndInv'
<1> SUFFICES ASSUME IndInv, [Next]_vars PROVE IndInv'
  OBVIOUS
<1> USE DEF IndInv
<1>1. CASE Merge
  <2>1. /\ phase = "merging" /\ at < Len(config) /\ phase' = phase
        /\ at' = at + 1 /\ config' = config /\ present' = present
        /\ picked' = picked /\ UNCHANGED walk /\ EntryName(config[at + 1]) # NotSet
    BY <1>1 DEF Merge
  <2>2. MergeInv' /\ pending' \in [Repo -> Pending] /\ groups' \in [Group -> SUBSET Repo]
    <3>1. CASE pending[EntryName(config[at + 1])] = Absent
      BY <1>1, <2>1, <3>1, MergeFirst DEF Merge
    <3>2. CASE pending[EntryName(config[at + 1])] # Absent
      BY <1>1, <2>1, <3>2, MergeMore DEF Merge
    <3> QED
      BY <3>1, <3>2
  <2>3. at' \in 0 .. Len(config')
    BY <2>1 DEF TypeOK
  <2>4. TypeOK'
    BY <2>1, <2>2, <2>3 DEF TypeOK
  <2>5. PhaseInv'
    BY <2>1 DEF PhaseInv, walk
  <2>6. CheckInv'
    BY <2>1, CheckUnchanged
  <2> QED
    BY <2>2, <2>4, <2>5, <2>6
<1>2. CASE Clash
  <2>1. /\ UNCHANGED <<config, present, at, pending, groups, picked, walk>>
        /\ phase = "merging" /\ phase' = "config_invalid"
    BY <1>2 DEF Clash
  <2>2. ~Consistent
    BY <1>2, ClashReal
  <2>3. TypeOK' /\ MergeInv'
    BY <2>1 DEF TypeOK, MergeInv, Known, Ended
  <2>4. PhaseInv'
    BY <2>1, <2>2 DEF PhaseInv, walk, Consistent, EntriesOf
  <2>5. CheckInv'
    BY <2>1, CheckUnchanged
  <2> QED
    BY <2>3, <2>4, <2>5
<1>3. CASE Resolve
  <2>1. UNCHANGED <<config, present, at, pending, groups, picked>> /\ at = Len(config) /\ phase = "merging"
    BY <1>3 DEF Resolve
  <2>2. phase' \in {"checking", "config_invalid"}
    BY <1>3 DEF Resolve
  <2>3. TypeOK' /\ MergeInv'
    BY <2>1, <2>2 DEF TypeOK, MergeInv, Known, Ended
  <2>4. CASE Resolved /\ phase' = "checking" /\ StartCheck(Known, [r \in Repo |-> DependsOn(r)])
    <3>1. [r \in Repo |-> DependsOn(r)] \in Graph
      BY DependsOnType DEF Graph
    <3>2. /\ Known \in SUBSET Repo /\ \A r \in Repo : DependsOn(r) \subseteq Known
          /\ \A r \in Repo \ Known : DependsOn(r) = {}
      BY <2>4 DEF Resolved, Known, DependsOn
    <3>3. CheckInv'
      BY <2>4, <3>1, <3>2, StartKeeps
    <3>4. repos' = Known /\ D' = [r \in Repo |-> DependsOn(r)]
      BY <2>4 DEF StartCheck
    <3>5. Known' = Known /\ Resolved' = Resolved /\ \A r \in Repo : DependsOn(r)' = DependsOn(r)
      BY <2>1 DEF Known, Resolved, DependsOn
    <3>6. picked' \subseteq repos'
      BY <2>1, <3>4 DEF PhaseInv
    <3>7. PhaseInv'
      BY <2>1, <2>4, <3>4, <3>5, <3>6 DEF PhaseInv
    <3> QED
      BY <2>3, <3>3, <3>7
  <2>5. CASE ~Resolved /\ phase' = "config_invalid" /\ UNCHANGED walk
    <3>1. ~AllKnown
      BY <2>1, <2>5, UnresolvedReal
    <3>2. PhaseInv'
      BY <2>1, <2>5, <3>1 DEF PhaseInv, walk, AllKnown, Given, EntriesOf
    <3>3. CheckInv'
      BY <2>5, CheckUnchanged
    <3> QED
      BY <2>3, <3>2, <3>3
  <2> QED
    BY <1>3, <2>4, <2>5 DEF Resolve
<1>4. CASE Check
  <2>1. UNCHANGED <<config, present, at, pending, groups, phase, picked>> /\ phase = "checking"
    BY <1>4 DEF Check
  <2>2. CheckInv' /\ D' = D /\ repos' = repos
    <3>1. CASE Retreat
      BY <3>1, RetreatKeeps DEF Retreat
    <3>2. ASSUME NEW r \in Repo, Root(r) PROVE CheckInv' /\ D' = D /\ repos' = repos
      BY <3>2, RootKeeps DEF Root
    <3>3. ASSUME NEW r \in Repo, Look(r) PROVE CheckInv' /\ D' = D /\ repos' = repos
      BY <3>3, LookWhiteKeeps, LookDarkKeeps DEF Look
    <3> QED
      BY <1>4, <3>1, <3>2, <3>3 DEF Check, CheckStep
  <2>3. TypeOK' /\ MergeInv'
    BY <2>1 DEF TypeOK, MergeInv, Known
  <2>4. PhaseInv'
    BY <2>1, <2>2 DEF PhaseInv, Resolved, Known, DependsOn
  <2> QED
    BY <2>2, <2>3, <2>4
<1>5. CASE Verdict
  <2>1. UNCHANGED <<config, present, at, pending, groups, picked, walk>> /\ phase = "checking"
    BY <1>5 DEF Verdict
  <2>2. /\ phase' \in {"loaded", "dependency_cycle"}
        /\ phase' = "loaded" => Acyclic(D)
        /\ phase' = "dependency_cycle" => ~Acyclic(D)
    BY <1>5, CheckInvRight DEF Verdict, VerdictRight
  <2>3. TypeOK' /\ MergeInv'
    BY <2>1, <2>2 DEF TypeOK, MergeInv, Known, Ended
  <2>4. PhaseInv'
    BY <2>1, <2>2 DEF PhaseInv, walk, Resolved, Known, DependsOn
  <2>5. CheckInv'
    BY <2>1, CheckUnchanged
  <2> QED
    BY <2>3, <2>4, <2>5
<1>6. CASE Select
  <2>1. UNCHANGED <<config, present, at, pending, groups, walk>> /\ phase = "loaded"
    BY <1>6 DEF Select
  <2>2. /\ phase' \in {"unknown_target", "done"} /\ picked' \subseteq repos
        /\ phase' = "unknown_target" => picked' = {}
    <3>1. PICK t \in Targetings : \/ phase' = "unknown_target" /\ picked' = picked
                                  \/ /\ ~Unknown(t) /\ phase' = "done"
                                     /\ picked' = Selection(t)
      BY <1>6 DEF Select
    <3>2. t.groups \subseteq Group
      BY LoadAssumption
    <3>3. ASSUME ~Unknown(t) PROVE Selection(t) \subseteq repos
      <4>1. t.repos \subseteq repos /\ \A g \in t.groups : groups[g] \subseteq repos
        BY <2>1, <3>2, <3>3 DEF Unknown, MergeInv, PhaseInv
      <4>2. CurrentRepo(t.cwd) \subseteq repos
        BY DEF CurrentRepo, Enclosing
      <4> QED
        BY <4>1, <4>2 DEF Selection
    <3> QED
      BY <2>1, <3>1, <3>3 DEF PhaseInv
  <2>3. TypeOK' /\ MergeInv'
    <3>1. repos \subseteq Repo
      BY DEF CheckInv, WalkTypes
    <3> QED
      BY <2>1, <2>2, <3>1 DEF TypeOK, MergeInv, Known, Ended
  <2>4. PhaseInv'
    BY <2>1, <2>2 DEF PhaseInv, walk, Resolved, Known, DependsOn
  <2>5. CheckInv'
    BY <2>1, CheckUnchanged
  <2> QED
    BY <2>3, <2>4, <2>5
<1>8. CASE Nameless
  <2>1. /\ UNCHANGED <<config, present, at, pending, groups, picked, walk>>
        /\ at < Len(config) /\ EntryName(config[at + 1]) = NotSet
        /\ phase' = "config_invalid" /\ phase = "merging"
    BY <1>8 DEF Nameless
  <2>2. ~Named
    BY <2>1, NextEntry DEF Named
  <2>3. TypeOK' /\ MergeInv'
    BY <2>1 DEF TypeOK, MergeInv, Known, Ended
  <2>4. PhaseInv'
    BY <2>1, <2>2 DEF PhaseInv, walk, Named
  <2>5. CheckInv'
    BY <2>1, CheckUnchanged
  <2> QED
    BY <2>3, <2>4, <2>5
<1>7. CASE UNCHANGED vars
  <2>1. TypeOK' /\ MergeInv'
    BY <1>7 DEF vars, TypeOK, MergeInv, Known
  <2>2. PhaseInv'
    BY <1>7 DEF vars, PhaseInv, Resolved, Known, DependsOn, Named, Consistent,
                   AllKnown, Given, EntriesOf
  <2>3. CheckInv'
    BY <1>7, CheckUnchanged DEF vars, walk
  <2> QED
    BY <2>1, <2>2, <2>3
<1> QED
  BY <1>1, <1>2, <1>3, <1>4, <1>5, <1>6, <1>7, <1>8 DEF Next

\* Types, what has been merged, and the colours of the search.
THEOREM Inductive == Spec => []IndInv
<1> QED
  BY InitInd, NextInd, PTL DEF Spec

\* Whatever the entries are, and in whatever order they come: what is loaded is
\* what all of them say, and it is refused only if they disagree.
THEOREM MergeIsExact == Spec => []MergeExact
<1>1. IndInv => MergeExact
  BY MergedExact DEF IndInv, PhaseInv, MergeExact
<1> QED
  BY <1>1, Inductive, PTL

\* Whatever the graph is: it is loaded if and only if it has no cycle, and
\* every name that is looked up later is there.
THEOREM LoadIsSound == Spec => []LoadedSound
<1>1. IndInv => LoadedSound
  BY DEF IndInv, CheckInv, WalkTypes, MergeInv, PhaseInv, LoadedSound
<1> QED
  BY <1>1, Inductive, PTL

\* Wherever the search starts, and in whatever order it looks at dependencies:
\* it accepts acyclic graphs only, and the cycle it names is one.
THEOREM VerdictIsRight == Spec => []VerdictRight
<1>1. IndInv => VerdictRight
  BY CheckInvRight DEF IndInv
<1> QED
  BY <1>1, Inductive, PTL
=============================================================================
