-------------------------------- MODULE Gate --------------------------------
(***************************************************************************)
(* The commands that ask what a change can break: verify and check-impact  *)
(* (src/src/commands/verify.rs, check_impact.rs), and the --dirty filter   *)
(* of the targeting flags (select_filtered in src/src/main.rs), which      *)
(* looks at working trees the way verify does.                             *)
(*                                                                         *)
(* They look at the repos in parallel, while people work in them; then     *)
(* they compute closures (Closure) and have the set executed in waves, for *)
(* which BuildOrder stands, which Waves implements.                        *)
(***************************************************************************)
EXTENDS FiniteSets, Closure

CONSTANTS
  Graphs,   \* the dependency graphs a workspace may have
  Trees,    \* the working trees it may start with
  Tree,     \* what git says of one working tree: a set of the words below
  Targets,  \* what the targeting flags may have picked
  MaxEdits  \* bound: edits while a command looks

Words == {"changed", "conflicted", "detached", "unreadable"}

ASSUME GateAssumption ==
  /\ IsFiniteSet(Repo)
  /\ Graphs \subseteq {G \in Graph : Acyclic(G)}
  /\ Tree \subseteq SUBSET Words /\ Trees \subseteq [Repo -> Tree] /\ Trees # {}
  /\ Targets \subseteq SUBSET Repo /\ MaxEdits \in Nat

VARIABLES
  command,    \* verify, check-impact, check-impact --check, or a --dirty filter
  phase,
  tree,       \* the working tree of each repo
  target,     \* the repos to look at
  unseen,     \* those of them that have not been looked at
  dirty,      \* those that were kept
  toClose,    \* those whose closure has not been computed
  set,        \* the repos to check
  stage,      \* how far the check of each has come
  checked,    \* what the verdict says: how many repos it is about,
  failed,     \* which of them failed,
  exit,       \* and the exit code, or -1
  worked,     \* repos that have shown work ever since the command began
  everWorked, \* and at any moment since then
  edits       \* counts up to MaxEdits

people == <<tree, worked, everWorked, edits>>
looked == <<command, target, unseen, dirty>>
running == <<set, stage>>
verdict == <<checked, failed, exit>>
gate == <<people, looked, phase, toClose, running, verdict>>
vars == <<gate, closure>>

Commands == {"verify", "impact", "impact_check", "filter"}
Stages == {"pending", "running", "passed", "failed", "skipped"}

TypeOK ==
  /\ command \in Commands
  /\ phase \in {"looking", "picking", "closing", "running", "done"}
  /\ tree \in [Repo -> Tree]
  /\ target \subseteq Repo /\ unseen \subseteq target
  /\ dirty \subseteq Repo /\ toClose \subseteq Repo
  /\ set \subseteq Repo /\ stage \in [Repo -> Stages]
  /\ checked \in Nat /\ failed \subseteq Repo /\ exit \in {-1, 0, 1, 2}
  /\ worked \subseteq Repo /\ everWorked \subseteq Repo /\ edits \in 0 .. MaxEdits

\* Uncommitted changes on a branch, a conflict, or git cannot say.
Shows(t) ==
  {"conflicted", "unreadable"} \cap t # {} \/ ("changed" \in t /\ "detached" \notin t)

Init ==
  /\ command \in Commands
  /\ graph \in Graphs
  /\ \/ command = "verify" /\ target = Repo /\ phase = "looking"
     \/ command = "filter" /\ target \in Targets /\ phase = "looking"
     \/ command \in {"impact", "impact_check"} /\ target = {} /\ phase = "picking"
  \* check-impact does not look at working trees.
  /\ IF phase = "looking" THEN tree \in Trees ELSE tree = CHOOSE t \in Trees : TRUE
  /\ unseen = target /\ dirty = {} /\ toClose = {} /\ set = {}
  /\ stage = [r \in Repo |-> "pending"]
  /\ checked = 0 /\ failed = {} /\ exit = -1
  /\ worked = {r \in Repo : Shows(tree[r])} /\ everWorked = worked
  /\ edits = 0
  /\ changed = CHOOSE r \in Repo : TRUE  \* nothing yet
  /\ seen = {} /\ frontier = {} /\ next = {} /\ depth = 1
  /\ found = [r \in Repo |-> NotFound]

-----------------------------------------------------------------------------
(* Looking.                                                                *)

\* parse_porcelain_v2: what outranks what.
TreeState(t) ==
  IF "conflicted" \in t THEN "conflicted"
  ELSE IF "detached" \in t THEN "detached"
  ELSE IF "changed" \in t THEN "dirty"
  ELSE "clean"

\* Mutant: a repo that git cannot read is left out.
DirtyReadable(t) == "unreadable" \notin t /\ TreeState(t) \in {"dirty", "conflicted"}

DirtyOrUnreadable(t) ==
  "unreadable" \in t \/ TreeState(t) \in {"dirty", "conflicted"}

\* A task of run_parallel reports on r.  Any order: they run side by side.
LookAt(r) ==
  /\ phase = "looking" /\ r \in unseen
  /\ unseen' = unseen \ {r}
  /\ dirty' = IF DirtyOrUnreadable(tree[r]) THEN dirty \cup {r} ELSE dirty
  /\ UNCHANGED <<command, phase, people, target, toClose, running, verdict, closure>>

\* The filter is through: the command it is for goes on with dirty.
Filtered ==
  /\ phase = "looking" /\ unseen = {} /\ command = "filter"
  /\ phase' = "done"
  /\ UNCHANGED <<looked, people, toClose, running, verdict, closure>>

\* Mutant: downstream_closure leaves the changed repo out, and so does verify.
OnlyDownstream == {}

\* The set to check begins with the dirty repos themselves.
ToVerify == dirty

Looked ==
  /\ phase = "looking" /\ unseen = {} /\ command = "verify"
  /\ phase' = "closing" /\ toClose' = dirty /\ set' = ToVerify
  /\ UNCHANGED <<looked, people, stage, verdict, closure>>

\* check-impact: no such repo, or none around the working directory.
NoSuchRepo ==
  /\ phase = "picking" /\ exit' = 2 /\ phase' = "done"
  /\ UNCHANGED <<looked, people, toClose, running, checked, failed, closure>>

\* check-impact: the repo that is asked about.
PickRepo(r) ==
  /\ phase = "picking" /\ phase' = "closing"
  /\ StartClosure(r)
  /\ UNCHANGED <<looked, people, toClose, running, verdict>>

-----------------------------------------------------------------------------
(* Closing.                                                                *)

\* Mutant: the loop does not move on.
Unmoved(r) == toClose

Remaining(r) == toClose \ {r}

\* The closure of the next dirty repo, when that of the one before it is in.
CloseNext(r) ==
  /\ phase = "closing" /\ command = "verify" /\ Exhausted
  /\ r \in toClose /\ \A d \in toClose : Rank[r] <= Rank[d]
  /\ toClose' = Remaining(r)
  /\ set' = set \cup Affected
  /\ StartClosure(r)
  /\ UNCHANGED <<looked, phase, people, stage, verdict>>

Close ==
  /\ phase = "closing" /\ ClosureStep /\ UNCHANGED gate

\* All closures are in the set.
AllClosed ==
  /\ phase = "closing" /\ command # "impact" /\ Exhausted /\ toClose = {}
  /\ set' = set \cup Affected
  /\ phase' = "running"
  /\ UNCHANGED <<looked, people, toClose, stage, verdict, closure>>

\* check-impact lists what is affected.
Listed ==
  /\ phase = "closing" /\ command = "impact" /\ Exhausted
  /\ phase' = "done" /\ exit' = 0
  /\ UNCHANGED <<looked, people, toClose, running, checked, failed, closure>>

-----------------------------------------------------------------------------
(* Running.                                                                *)

\* topo_waves and execute_waves, in dependency order.
Ordered == command \in {"verify", "impact_check"}

Execution == INSTANCE BuildOrder WITH deps <- graph, ordered <- Ordered

Execute ==
  /\ phase = "running"
  /\ UNCHANGED <<looked, phase, people, toClose, verdict, changed, seen,
                 frontier, next, depth, found>>
  /\ Execution!Next

With(what) == {r \in set : stage[r] \in what}

FailedRepos == With({"failed", "skipped"})

\* aggregate_exit, with no lock in the way.
Verdict ==
  /\ phase = "running" /\ set = With({"passed", "failed", "skipped"})
  /\ checked' = Cardinality(With({"passed"})) + Cardinality(FailedRepos)
  /\ failed' = FailedRepos
  /\ exit' = IF FailedRepos = {} THEN 0 ELSE 1
  /\ phase' = "done"
  /\ UNCHANGED <<looked, people, toClose, running, closure>>

-----------------------------------------------------------------------------
(* People.                                                                 *)

\* Somebody works in a repo while the command looks around.
Edit(r, t) ==
  /\ phase = "looking" /\ t # tree[r] /\ edits < MaxEdits /\ edits' = edits + 1
  /\ tree' = [tree EXCEPT ![r] = t]
  /\ worked' = IF Shows(t) THEN worked ELSE worked \ {r}
  /\ everWorked' = IF Shows(t) THEN everWorked \cup {r} ELSE everWorked
  /\ UNCHANGED <<looked, phase, toClose, running, verdict, closure>>

Look == \E r \in Repo : LookAt(r)
Pick == \E r \in Repo : PickRepo(r)
CloseSome == \E r \in Repo : CloseNext(r)
People == \E r \in Repo, t \in Tree : Edit(r, t)

Program ==
  \/ Look \/ Filtered \/ Looked \/ NoSuchRepo \/ Pick \/ CloseSome \/ Close
  \/ AllClosed \/ Listed \/ Execute \/ Verdict

Next == Program \/ People

Spec == Init /\ [][Next]_vars

\* The command runs, tasks and checks with it; nobody has to work.
FairSpec == Spec /\ WF_vars(Program)

-----------------------------------------------------------------------------
(* Properties.                                                             *)

\* The repos, and all that is downstream of them.
WithDownstream(R) == R \cup UNION {Downstream(r) : r \in R}

\* "the cross-repo done-gate" (verify.rs:23): a pass means that the checks of
\* all repos that showed work all the time, and of everything downstream of
\* them, have passed, however people worked meanwhile and whichever repo was
\* looked at first; and nothing was checked that no work could have touched.
VerdictSound ==
  phase = "done" /\ command = "verify" =>
    /\ exit = 0 => \A r \in WithDownstream(worked) : stage[r] = "passed"
    /\ exit = 1 => failed # {}
    /\ failed = {r \in set : stage[r] # "passed"}
    /\ checked = Cardinality(set)
    /\ WithDownstream(worked) \subseteq set /\ set \subseteq WithDownstream(everWorked)

\* check-impact --check: all that is downstream of the repo has been checked,
\* the repo itself has not, and a success means that all of it passed.
ImpactSound ==
  phase = "done" /\ command = "impact_check" /\ exit # 2 =>
    /\ set = Downstream(changed) /\ changed \notin set
    /\ exit = 0 <=> \A r \in set : stage[r] = "passed"

\* --dirty keeps every repo of the selection that showed work all the time, and
\* none that never did.
FilterSound ==
  phase = "done" /\ command = "filter" =>
    worked \cap target \subseteq dirty /\ dirty \subseteq everWorked \cap target

\* Whatever people do, a command comes to its end.
GateEnds == <>(phase = "done")

\* "it has uncommitted changes or conflicts, or its status can't be read"
\* (git.rs:350): what is uncommitted and has passed the gate has been checked.
\* Only for working trees that nobody changes meanwhile.
AllUncommittedChecked ==
  phase = "done" /\ command = "verify" /\ exit = 0 =>
    \A r \in Repo : "changed" \in tree[r] => stage[r] = "passed"

-----------------------------------------------------------------------------
(* The inductive invariant, part by part.                                  *)

\* What has been looked at is kept if it showed work all the time.
LookInv ==
  /\ \A r \in worked : Shows(tree[r])
  /\ \A r \in Repo : Shows(tree[r]) => r \in everWorked
  /\ dirty \subseteq everWorked \cap target
  /\ worked \cap (target \ unseen) \subseteq dirty
  /\ command = "verify" => target = Repo
  /\ phase = "picking" => command \in {"impact", "impact_check"}
  /\ phase # "looking" => unseen = {}

\* The set grows to the dirty repos and all that is downstream of them, or to
\* what is downstream of the repo that check-impact is asked about.
SetInv ==
  /\ toClose \subseteq dirty
  /\ phase \in {"looking", "picking"} => seen = {} /\ set = {} /\ toClose = {}
  /\ phase = "closing" /\ command = "verify" =>
       /\ dirty \subseteq set /\ set \subseteq WithDownstream(dirty)
       /\ seen # {} => changed \in dirty
       /\ \A d \in dirty \ toClose :
            Downstream(d) \subseteq set \/ (seen # {} /\ d = changed)
  /\ phase \in {"running", "done"} /\ command = "verify" => set = WithDownstream(dirty)
  /\ phase = "closing" /\ command # "verify" => seen # {} /\ set = {} /\ toClose = {}
  /\ phase \in {"running", "done"} /\ command = "impact_check" /\ exit # 2 =>
       set = Downstream(changed)
  /\ command = "filter" => phase \in {"looking", "done"}

\* The verdict says what has happened to the set.
VerdictInv ==
  /\ phase # "done" => exit = -1
  /\ exit = 2 => command \in {"impact", "impact_check"}
  /\ phase = "done" /\ command \in {"verify", "impact_check"} /\ exit # 2 =>
       /\ checked = Cardinality(set)
       /\ failed = {r \in set : stage[r] # "passed"}
       /\ exit = IF failed = {} THEN 0 ELSE 1

IndInv == TypeOK /\ LookInv /\ SetInv /\ VerdictInv /\ ClosureInv
=============================================================================
