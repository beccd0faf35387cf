-------------------------------- MODULE Waves --------------------------------
(***************************************************************************)
(* One execution of a set of repos: topo_waves (src/src/graph.rs) and      *)
(* execute_waves with run_parallel (src/src/exec.rs), the engine of `run`, *)
(* `check-impact --check` and `verify`.                                    *)
(*                                                                         *)
(* The executor goes through the waves one after the other.  It prepares   *)
(* the repos of a wave in name order (skip it, refuse it or line it up),   *)
(* then lets the tasks run, at most jobs at a time, and takes their        *)
(* results as they complete; the next wave begins when all are taken.      *)
(* topo_waves computes its list before the first wave runs, from the set   *)
(* and the graph alone; here each wave is computed when its turn comes,    *)
(* which is the same wave.                                                 *)
(***************************************************************************)
EXTENDS Integers, FiniteSets, DepGraph

CONSTANTS
  Graphs,  \* the dependency graphs a workspace may have
  Rank,    \* the order of repo names, in which a BTreeSet is visited
  Jobs,    \* the values of --jobs
  Modes    \* is the set run in dependency order (TRUE), as one wave (FALSE)?

ASSUME WavesAssumption ==
  /\ IsFiniteSet(Repo) /\ Graphs \subseteq Graph
  /\ Rank \in [Repo -> Nat] /\ \A r, s \in Repo : Rank[r] = Rank[s] => r = s
  /\ Jobs \subseteq Nat
  /\ Modes \subseteq BOOLEAN

VARIABLES
  deps,     \* depends_on of every repo, fixed for the run
  set,      \* the repos to execute, fixed for the run
  ordered,  \* dependency flags (or check-impact, verify) against a plain run
  jobs,     \* --jobs, fixed for the run
  status,   \* how far each repo has come
  passed,   \* the counters of WaveTally
  failed

vars == <<deps, set, ordered, jobs, status, passed, failed>>

Settled == {"passed", "failed", "skipped"}

\* waiting for its wave; in the wave, to be prepared; a task without a permit;
\* its command running; ended, the result not yet taken; settled.
Status == {"waiting", "picked", "queued", "running", "ok", "bad"} \cup Settled

TypeOK ==
  /\ deps \in Graphs /\ set \subseteq Repo /\ ordered \in Modes /\ jobs \in Jobs
  /\ status \in [Repo -> Status]
  /\ passed \in Nat /\ failed \in Nat

\* check_cycles has let the graph pass.
Init ==
  /\ deps \in Graphs /\ Acyclic(deps)
  /\ set \in SUBSET Repo /\ ordered \in Modes /\ jobs \in Jobs
  /\ status = [r \in Repo |-> "waiting"]
  /\ passed = 0 /\ failed = 0

With(what) == {r \in set : status[r] \in what}

Become(r, what) == status' = [status EXCEPT ![r] = what]

\* failed_repos
FailedRepos == With({"failed", "skipped"})

\* Mutant: only the edges declared between members of the set.
DirectDepsInSet(r) == deps[r] \cap set

\* deps_in_set: a repo may depend on another through repos outside the set.
DepsInSet(r) == Upstreams(deps, r) \cap set

\* The next wave of topo_waves; a plain run has a single wave.
Wave ==
  {r \in With({"waiting"}) : ordered => DepsInSet(r) \cap With({"waiting"}) = {}}

NextWave ==
  /\ set = With({"waiting"} \cup Settled)
  /\ Wave # {}
  /\ status' = [r \in Repo |-> IF r \in Wave THEN "picked" ELSE status[r]]
  /\ UNCHANGED <<deps, set, ordered, jobs, passed, failed>>

\* The preparation loop reaches r.
Reached(r) ==
  r \in With({"picked"}) /\ \A s \in With({"picked"}) : Rank[r] <= Rank[s]

\* Mutant: only direct upstreams count.
DirectBlockers(r) == deps[r] \cap FailedRepos

Blockers(r) == Upstreams(deps, r) \cap FailedRepos

\* Mutant: a skipped repo is reported but not counted.
SkipUncounted(r) ==
  /\ Reached(r) /\ Blockers(r) # {}
  /\ Become(r, "skipped")
  /\ UNCHANGED <<deps, set, ordered, jobs, passed, failed>>

Skip(r) ==
  /\ Reached(r) /\ Blockers(r) # {}
  /\ Become(r, "skipped") /\ failed' = failed + 1
  /\ UNCHANGED <<deps, set, ordered, jobs, passed>>

\* Not a repository, or no command for it: failed while the wave is prepared.
Refuse(r) ==
  /\ Reached(r) /\ Blockers(r) = {}
  /\ Become(r, "failed") /\ failed' = failed + 1
  /\ UNCHANGED <<deps, set, ordered, jobs, passed>>

LineUp(r) ==
  /\ Reached(r) /\ Blockers(r) = {}
  /\ Become(r, "queued")
  /\ UNCHANGED <<deps, set, ordered, jobs, passed, failed>>

\* Mutant: --jobs 0 is taken literally.
LiteralPermits == jobs

\* Semaphore::new(jobs.max(1))
Permits == IF jobs = 0 THEN 1 ELSE jobs

\* The wave is prepared, and the task of r gets a permit.
Start(r) ==
  /\ With({"picked"}) = {} /\ r \in With({"queued"})
  /\ Cardinality(With({"running"})) < Permits
  /\ Become(r, "running")
  /\ UNCHANGED <<deps, set, ordered, jobs, passed, failed>>

\* The command exits, or cannot be spawned; the permit is free again.
Exit(r) ==
  /\ r \in With({"running"})
  /\ Become(r, "ok") \/ Become(r, "bad")
  /\ UNCHANGED <<deps, set, ordered, jobs, passed, failed>>

\* join_next delivers a result, in the order of completion.
Deliver(r) ==
  \/ /\ r \in With({"ok"})
     /\ Become(r, "passed") /\ passed' = passed + 1
     /\ UNCHANGED <<deps, set, ordered, jobs, failed>>
  \/ /\ r \in With({"bad"})
     /\ Become(r, "failed") /\ failed' = failed + 1
     /\ UNCHANGED <<deps, set, ordered, jobs, passed>>

Step(r) ==
  Skip(r) \/ Refuse(r) \/ LineUp(r) \/ Start(r) \/ Exit(r) \/ Deliver(r)

Next == NextWave \/ \E r \in Repo : Step(r)

Spec == Init /\ [][Next]_vars

\* The executor and its tasks are scheduled, and every command ends.
FairSpec == Spec /\ WF_vars(Next)

-----------------------------------------------------------------------------
(* Properties.                                                             *)

\* The members of the set r depends on, through repos of the set or not.
Needs(r) == Upstreams(deps, r) \cap set

\* Under dependency order no command is lined up, let alone run, before every
\* upstream of the set has passed, however the dependency runs through repos
\* outside the set and however many siblings are still running.
UpstreamsPassed ==
  ordered => \A r \in With({"queued", "running", "ok", "bad", "passed"}) :
               \A u \in Needs(r) : status[u] = "passed"

\* A skipped repo has a failure of its own kind upstream: a repo whose command
\* failed or could not be prepared, not merely another skipped one.
SkipHasCause ==
  \A r \in With({"skipped"}) : \E u \in Needs(r) : status[u] = "failed"

\* The counters of the summary agree with the lines emitted and with the names
\* of failed_repos, at any moment.
TallyAgrees ==
  /\ passed = Cardinality(With({"passed"}))
  /\ failed = Cardinality(FailedRepos)

\* The run ends with every repo of the set settled: no wave comes up empty, no
\* task waits for a permit for ever.
Ends == <>(set = With(Settled))

\* The inductive invariant: types, the two properties above and, under
\* dependency order, that a repo is picked only when all it needs is settled.
PickedInOrder ==
  ordered => \A r \in With(Status \ {"waiting"}) : Needs(r) \subseteq With(Settled)

IndInv == TypeOK /\ PickedInOrder /\ UpstreamsPassed /\ SkipHasCause

\* Every execution is one that BuildOrder allows.
Promise ==
  INSTANCE BuildOrder WITH
    stage <- [r \in Repo |->
                IF status[r] \in {"waiting", "picked", "queued"} THEN "pending"
                ELSE IF status[r] \in {"running", "ok", "bad"} THEN "running"
                ELSE status[r]]
ImplementsPromise == Promise!Spec

\* "a plain run is a single unordered wave (staleness never changes what
\* executes)", and upstream_failed is for "every downstream repo in later
\* waves" (run.rs:66, exec.rs:137): a plain run skips nobody.
PlainRunSkipsNone == ~ordered => With({"skipped"}) = {}
=============================================================================
