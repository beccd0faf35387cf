----------------------------- MODULE BuildOrder -----------------------------
(***************************************************************************)
(* What a run over a set of repos promises, without waves, job slots or    *)
(* result channels: every repo of the set is run, refused or skipped once; *)
(* under dependency order a command starts only when all the upstreams in  *)
(* the set have passed, and a repo is skipped only below one that did not. *)
(***************************************************************************)
EXTENDS DepGraph

VARIABLES
  deps,     \* the dependency graph
  set,      \* the repos to run
  ordered,  \* dependency order, or all at once?
  stage     \* how far each repo has come

vars == <<deps, set, ordered, stage>>

Init ==
  /\ deps \in Graph /\ set \subseteq Repo /\ ordered \in BOOLEAN
  /\ stage = [r \in Repo |-> "pending"]

\* The members of the set that r depends on, through repos of the set or not.
Needs(r) == Upstreams(deps, r) \cap set

Ready(r) ==
  /\ r \in set /\ stage[r] = "pending"
  /\ ordered => \A u \in Needs(r) : stage[u] = "passed"

Become(r, what) ==
  stage' = [stage EXCEPT ![r] = what] /\ UNCHANGED <<deps, set, ordered>>

Start(r)  == Ready(r) /\ Become(r, "running")
\* No command, or not a git repository.
Refuse(r) == Ready(r) /\ Become(r, "failed")
Finish(r) == /\ r \in set /\ stage[r] = "running"
             /\ Become(r, "passed") \/ Become(r, "failed")
Skip(r)   == /\ r \in set /\ stage[r] = "pending"
             /\ \E u \in Needs(r) : stage[u] \in {"failed", "skipped"}
             /\ Become(r, "skipped")

Next == \E r \in Repo : Start(r) \/ Refuse(r) \/ Finish(r) \/ Skip(r)

Spec == Init /\ [][Next]_vars
=============================================================================
