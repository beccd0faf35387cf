----------------------------- MODULE CycleCheck -----------------------------
(***************************************************************************)
(* check_cycles (src/src/graph.rs): a depth-first search with three        *)
(* colours over the depends_on lists of a workspace, with its own stack.   *)
(* A list is a set here: whichever order it is written in, and whichever   *)
(* repo the search starts at, the outcome must be the same.                *)
(***************************************************************************)
EXTENDS Integers, Sequences, DepGraph

VARIABLES
  D,      \* depends_on of every repo
  repos,  \* the repos of the workspace
  mark,   \* the colour of each
  left,   \* its dependencies that have not been looked at
  stack,  \* the gray chain, the repo being looked at last
  cycle   \* the path that the error names, or <<>>

walk == <<D, repos, mark, left, stack, cycle>>

\* The search over the graph G of the repos R begins.
StartCheck(R, G) ==
  /\ D' = G /\ repos' = R
  /\ mark' = [r \in Repo |-> "white"] /\ left' = G
  /\ stack' = <<>> /\ cycle' = <<>>

Top == stack[Len(stack)]

\* dep turns gray and goes on the stack.
Push(dep) == mark' = [mark EXCEPT ![dep] = "gray"] /\ stack' = Append(stack, dep)

\* A repo that no search has come upon yet is the next to start from.
Root(r) ==
  /\ stack = <<>> /\ r \in repos /\ mark[r] = "white"
  /\ Push(r)
  /\ UNCHANGED <<D, repos, left, cycle>>

\* Mutant: the path starts at the bottom of the stack.
WholeStack(dep) == Append(stack, dep)

\* The part of the gray chain that begins at dep, and dep again.
CycleAt(dep) ==
  LET from == CHOOSE i \in 1 .. Len(stack) : stack[i] = dep
  IN  Append(SubSeq(stack, from, Len(stack)), dep)

\* Mutant: the index into the list is not moved on.
LookAgain(dep) ==
  /\ cycle = <<>> /\ stack # <<>> /\ dep \in left[Top]
  /\ \/ mark[dep] = "white" /\ Push(dep) /\ UNCHANGED cycle
     \/ mark[dep] = "gray" /\ cycle' = CycleAt(dep) /\ UNCHANGED <<mark, stack>>
     \/ mark[dep] = "black" /\ UNCHANGED <<mark, stack, cycle>>
  /\ UNCHANGED <<D, repos, left>>

\* The next dependency of the repo on top: walked into, the end of a cycle, or
\* done already.
Look(dep) ==
  /\ cycle = <<>> /\ stack # <<>> /\ dep \in left[Top]
  /\ left' = [left EXCEPT ![Top] = @ \ {dep}]
  /\ \/ mark[dep] = "white" /\ Push(dep) /\ UNCHANGED cycle
     \/ mark[dep] = "gray" /\ cycle' = CycleAt(dep) /\ UNCHANGED <<mark, stack>>
     \/ mark[dep] = "black" /\ UNCHANGED <<mark, stack, cycle>>
  /\ UNCHANGED <<D, repos>>

\* Mutant: a repo that is done stays gray.
RetreatGray ==
  /\ cycle = <<>> /\ stack # <<>> /\ left[Top] = {}
  /\ stack' = SubSeq(stack, 1, Len(stack) - 1)
  /\ UNCHANGED <<D, repos, mark, left, cycle>>

\* All dependencies of the repo on top are done, and so is it.
Retreat ==
  /\ cycle = <<>> /\ stack # <<>> /\ left[Top] = {}
  /\ mark' = [mark EXCEPT ![Top] = "black"]
  /\ stack' = SubSeq(stack, 1, Len(stack) - 1)
  /\ UNCHANGED <<D, repos, left, cycle>>

CheckStep == Retreat \/ \E r \in Repo : Root(r) \/ Look(r)

\* No repo is left to start from.
Accepts == stack = <<>> /\ \A r \in repos : mark[r] # "white"
Rejects == cycle # <<>>

-----------------------------------------------------------------------------
(* Properties.                                                             *)

IsCycle(c) ==
  /\ Len(c) > 1 /\ c[1] = c[Len(c)]
  /\ \A i \in 1 .. Len(c) - 1 : c[i + 1] \in D[c[i]]

\* A graph is accepted only if no repo depends on itself through others, so
\* that topo_waves (graph.rs:153) always finds a wave; and it is rejected only
\* if one does, with a path that follows depends_on and closes.
VerdictRight ==
  /\ Accepts => Acyclic(D)
  /\ Rejects => ~Acyclic(D) /\ IsCycle(cycle)

-----------------------------------------------------------------------------
(* The invariant behind it, part by part.                                  *)

WalkTypes ==
  /\ repos \subseteq Repo
  /\ D \in Graph /\ \A r \in Repo : D[r] \subseteq repos
  /\ \A r \in Repo \ repos : D[r] = {}
  /\ mark \in [Repo -> {"white", "gray", "black"}]
  /\ left \in Graph /\ \A r \in Repo : left[r] \subseteq D[r]
  /\ stack \in Seq(Repo) /\ cycle \in Seq(Repo)

\* The stack holds the gray repos, each once, and each depends on all above it.
StackInv ==
  /\ \A r \in Repo : mark[r] = "gray" <=> \E i \in 1 .. Len(stack) : stack[i] = r
  /\ \A i, j \in 1 .. Len(stack) : i < j => /\ stack[i] # stack[j]
                                            /\ stack[j] \in Reach(D, stack[i])
  /\ \A i \in 1 .. Len(stack) - 1 : stack[i + 1] \in D[stack[i]]

\* What has been looked at is done, up to the repo that is one up the stack
\* and the one that closes the cycle.
LookedInv ==
  /\ \A r \in Repo : mark[r] = "white" => left[r] = D[r]
  /\ \A r \in Repo : mark[r] = "black" => \A d \in D[r] : mark[d] = "black"
  /\ \A i \in 1 .. Len(stack) : \A d \in D[stack[i]] \ left[stack[i]] :
       \/ mark[d] = "black"
       \/ i < Len(stack) /\ d = stack[i + 1]
       \/ cycle # <<>> /\ i = Len(stack) /\ d = cycle[Len(cycle)]

\* There is no way back among the repos that are done.
BlackInv ==
  \A S \in SUBSET {r \in Repo : mark[r] = "black"} :
    (\A s \in S : D[s] \cap S # {}) => S = {}

CycleInv == Rejects => stack # <<>> /\ IsCycle(cycle) /\ cycle[1] \in Reach(D, cycle[1])

CheckInv == WalkTypes /\ StackInv /\ LookedInv /\ BlackInv /\ CycleInv
=============================================================================
