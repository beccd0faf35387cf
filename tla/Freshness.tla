------------------------------ MODULE Freshness ------------------------------
(***************************************************************************)
(* Is what `ezgitx` calls fresh really up to date?  Sessions of            *)
(* `ezgitx run` (src/src/commands/run.rs) build repos and leave freshness  *)
(* records (src/src/state.rs) behind; `status`                             *)
(* (src/src/commands/status.rs) and later runs judge by them; the HEADs of *)
(* the repos move all the while, for `run` takes no locks.  The model      *)
(* keeps, beside the records, what the program cannot see: which versions  *)
(* every artifact was really made from.                                    *)
(*                                                                         *)
(* Of the executor there is what Waves is shown to promise (BuildOrder),   *)
(* one copy per session, with the task of a repo opened up: the command    *)
(* takes its inputs, leaves its artifact, the HEAD is read again, the      *)
(* record is written.                                                      *)
(***************************************************************************)
EXTENDS Integers, DepGraph

CONSTANTS
  D,         \* depends_on of every repo
  Session,   \* processes running `ezgitx run` or `ezgitx status`
  MaxHead,   \* bound: the commits of a repo are 0 .. MaxHead
  Absent,    \* no value: an unreadable HEAD, no such entry, nothing built
  Consumes,  \* a build takes its upstreams' "sources" or their "artifacts"
  Flags,     \* the combinations of --with-deps and --with-dependents used
  MoveWhile, \* when HEADs move: while nobody runs ("idle"), while no command
             \* of the same repo runs ("others"), or at any time ("any")
  Returns,   \* may a HEAD go back to an earlier commit?
  DryRuns,   \* may a run be given a command that builds nothing?
  Blind,     \* may reading a HEAD or writing a record fail?
  Kills,     \* may a run be killed?
  Views      \* do sessions ask for status?

ASSUME FreshnessAssumption ==
  /\ D \in Graph /\ Acyclic(D)
  /\ MaxHead \in Nat /\ Absent \notin Nat
  /\ Consumes \in {"sources", "artifacts"}
  /\ Flags \subseteq [deps : BOOLEAN, dependents : BOOLEAN]
  /\ MoveWhile \in {"idle", "others", "any"}
  /\ {Returns, DryRuns, Blind, Kills, Views} \subseteq BOOLEAN

Commit == 0 .. MaxHead
\* HEADs, or versions, of some of the repos.
Heads == [Repo -> Commit \cup {Absent}]
None  == [r \in Repo |-> Absent]

\* No value is no record either.
ASSUME AbsentAssumption == Absent \notin [head : Commit, deps : Heads]

NoFlags == [deps |-> FALSE, dependents |-> FALSE]

Ups == [r \in Repo |-> Upstreams(D, r)]
\* downstream_closure
Downs == [r \in Repo |-> {c \in Repo : r \in Ups[c]}]

VARIABLES
  head,      \* the commit every repo is at
  artifact,  \* the version of each input every artifact was made from
  record,    \* .ezgitx/state/<repo>.json
  phase,     \* of each session: idle, probing HEADs, running its set, or viewing
  targets,   \* the repos a session was asked to run, or has still to show
  flags,     \* its --with-deps and --with-dependents
  dry,       \* is it given a command that builds nothing?
  heads,     \* the HEADs it has probed
  job,       \* how far each repo of its set has come
  taken,     \* the inputs of a running command, then the HEAD read after it
  shown,     \* the repos that a status has called fresh
  wasCurrent \* history: those that were current at some moment since it began

eyes == <<shown, wasCurrent>>
vars == <<head, artifact, record, phase, targets, flags, dry, heads, job, taken, eyes>>

Settled == {"passed", "failed", "skipped"}
\* How far a repo of a session can be: to be probed, asked whether it is stale,
\* and then at work.
Jobs == {"out", "probe", "asked", "pending", "running", "built", "marked"} \cup Settled

TypeOK ==
  /\ head \in [Repo -> Commit]
  /\ artifact \in [Repo -> Heads]
  /\ record \in [Repo -> [head : Commit, deps : Heads] \cup {Absent}]
  /\ phase \in [Session -> {"idle", "probing", "running", "viewing"}]
  /\ targets \in [Session -> SUBSET Repo]
  /\ flags \in [Session -> [deps : BOOLEAN, dependents : BOOLEAN]]
  /\ dry \in [Session -> BOOLEAN]
  /\ heads \in [Session -> Heads]
  /\ job \in [Session -> [Repo -> Jobs]]
  /\ taken \in [Session -> [Repo -> Heads]]
  /\ shown \in [Session -> SUBSET Repo] /\ wasCurrent \in [Session -> SUBSET Repo]

Init ==
  /\ head = [r \in Repo |-> 0]
  /\ artifact = [r \in Repo |-> None]
  /\ record = [r \in Repo |-> Absent]
  /\ phase = [s \in Session |-> "idle"]
  /\ targets = [s \in Session |-> {}]
  /\ flags = [s \in Session |-> NoFlags]
  /\ dry = [s \in Session |-> FALSE]
  /\ heads = [s \in Session |-> None]
  /\ job = [s \in Session |-> [r \in Repo |-> "out"]]
  /\ taken = [s \in Session |-> [r \in Repo |-> None]]
  /\ shown = [s \in Session |-> {}] /\ wasCurrent = shown

Only(H, S) == [r \in Repo |-> IF r \in S THEN H[r] ELSE Absent]

----------------------------------------------------------------------------
(* Judging: state::is_stale, for `run`, `status` and `brief`.              *)

\* Mutants: an upstream missing from the record does not matter; only direct
\* ones do.
DriftIfRecorded(r, H) ==
  \E u \in Ups[r] : record[r].deps[u] # Absent /\ H[u] # record[r].deps[u]
DirectDrift(r, H) == \E u \in D[r] : H[u] # record[r].deps[u]

\* deps_drift: an upstream is not where the record saw it.
Drift(r, H) == \E u \in Ups[r] : H[u] # record[r].deps[u]

IsStale(r, H) ==
  \/ record[r] = Absent
  \/ H[r] # record[r].head
  \/ Drift(r, H)

Current(r) == artifact[r] = Only(head, {r} \cup Ups[r])

\* What whoever views would have found current, at this moment or before.
Watch ==
  wasCurrent' = [s \in Session |->
    IF phase'[s] = "viewing" THEN wasCurrent[s] \cup {r \in Repo : Current(r)'} ELSE {}]

----------------------------------------------------------------------------
(* Planning a run.                                                         *)

\* The repos that dependency flags may add to the targets.
Candidates(s) ==
  {c \in Repo \ targets[s] :
     \/ flags[s].deps /\ \E t \in targets[s] : c \in Ups[t]
     \/ flags[s].dependents /\ \E t \in targets[s] : c \in Downs[t]}

Universe(T) == T \cup UNION {Ups[r] : r \in T}

SetJob(s, r, what) == job' = [job EXCEPT ![s][r] = what]

Begin(s) ==
  /\ phase[s] = "idle"
  /\ \E T \in SUBSET Repo \ {{}}, f \in Flags, d \in {FALSE, DryRuns} :
       /\ targets' = [targets EXCEPT ![s] = T]
       /\ flags' = [flags EXCEPT ![s] = f]
       /\ dry' = [dry EXCEPT ![s] = d]
  /\ phase' = [phase EXCEPT ![s] = "probing"]
  /\ job' = [job EXCEPT ![s] = [r \in Repo |->
               IF r \in Universe(targets'[s] \cup Candidates(s)') THEN "probe" ELSE "out"]]
  /\ UNCHANGED <<head, artifact, record, heads, taken, eyes>>

\* current_heads probes the repos concurrently and omits unreadable ones.
Probe(s, r) ==
  /\ phase[s] \in {"probing", "viewing"} /\ job[s][r] = "probe"
  /\ \E h \in {head[r]} \cup (IF Blind THEN {Absent} ELSE {}) :
       heads' = [heads EXCEPT ![s][r] = h]
  /\ SetJob(s, r, "out")
  /\ UNCHANGED <<head, artifact, record, phase, targets, flags, dry, taken, eyes>>

\* Targets always run, candidates only if they are stale.
Decide(s) ==
  /\ phase[s] = "probing" /\ \A r \in Repo : job[s][r] # "probe"
  /\ phase' = [phase EXCEPT ![s] = "running"]
  /\ job' = [job EXCEPT ![s] =
               [r \in Repo |-> IF r \in targets[s] THEN "pending"
                              ELSE IF r \in Candidates(s) THEN "asked" ELSE "out"]]
  /\ UNCHANGED <<head, artifact, record, targets, flags, dry, heads, taken, eyes>>

\* Mutant: an upstream that is fresh by its own record ends the search.
JoinsDirectly(s, c) ==
  IsStale(c, heads[s]) /\ \E t \in targets[s] : c \in D[t] \/ t \in D[c]

Joins(s, c) == IsStale(c, heads[s])

\* The candidates' records are read one after the other.
Judge(s, c) ==
  /\ phase[s] = "running" /\ job[s][c] = "asked"
  /\ SetJob(s, c, IF Joins(s, c) THEN "pending" ELSE "out")
  /\ UNCHANGED <<head, artifact, record, phase, targets, flags, dry, heads, taken, eyes>>

----------------------------------------------------------------------------
(* Executing it: BuildOrder, with the task of a repo opened up.            *)

\* Mutant: only dependents make a run ordered.
OrderedDown(s) == flags[s].dependents

Ordered(s) == flags[s].deps \/ flags[s].dependents

\* The set is complete when every candidate has been judged.
Decided(s) == \A c \in Repo : job[s][c] # "asked"

Ready(s, r) ==
  /\ phase[s] = "running" /\ Decided(s) /\ job[s][r] = "pending"
  /\ Ordered(s) => \A u \in Ups[r] : job[s][u] \in {"out", "passed"}

\* The version of u that the artifacts of r's direct dependencies carry;
\* Absent if they disagree.
Carried(r, u) ==
  LET V == {artifact[d][u] : d \in {d \in D[r] : u = d \/ u \in Ups[d]}}
  IN  IF \E v \in V : V = {v} THEN CHOOSE v \in V : TRUE ELSE Absent

\* What the command of r works on.
Inputs(s, r) ==
  IF dry[s] /\ r \in targets[s] THEN artifact[r]
  ELSE IF Consumes = "sources" THEN Only(head, {r} \cup Ups[r])
  ELSE [u \in Repo |-> IF u = r THEN head[r]
                       ELSE IF u \in Ups[r] THEN Carried(r, u) ELSE Absent]

Run(s, r) ==
  /\ Ready(s, r)
  /\ taken' = [taken EXCEPT ![s][r] = Inputs(s, r)]
  /\ SetJob(s, r, "running")
  /\ UNCHANGED <<head, artifact, record, phase, targets, flags, dry, heads, eyes>>

Refuse(s, r) ==
  /\ Ready(s, r)
  /\ SetJob(s, r, "failed")
  /\ UNCHANGED <<head, artifact, record, phase, targets, flags, dry, heads, taken, eyes>>

Skip(s, r) ==
  /\ phase[s] = "running" /\ Decided(s) /\ job[s][r] = "pending"
  /\ \E u \in Ups[r] : job[s][u] \in {"failed", "skipped"}
  /\ SetJob(s, r, "skipped")
  /\ UNCHANGED <<head, artifact, record, phase, targets, flags, dry, heads, taken, eyes>>

\* The command ends well and has left its artifact.
Build(s, r) ==
  /\ job[s][r] = "running"
  /\ artifact' = [artifact EXCEPT ![r] = taken[s][r]]
  /\ SetJob(s, r, "built")
  /\ taken' = [taken EXCEPT ![s][r] = None]
  /\ UNCHANGED <<head, record, phase, targets, flags, dry, heads, shown>>
  /\ Watch

\* It fails; an artifact may have been left all the same.
Fail(s, r) ==
  /\ job[s][r] = "running"
  /\ \E a \in {artifact[r], taken[s][r]} : artifact' = [artifact EXCEPT ![r] = a]
  /\ SetJob(s, r, "failed")
  /\ taken' = [taken EXCEPT ![s][r] = None]
  /\ UNCHANGED <<head, record, phase, targets, flags, dry, heads, shown>>
  /\ Watch

\* Mutant: a HEAD that cannot be read is recorded as an empty string.
ReadHeadUnchecked(s, r) ==
  /\ job[s][r] = "built"
  /\ SetJob(s, r, "marked")
  /\ \E h \in {head[r]} \cup (IF Blind THEN {Absent} ELSE {}) :
       taken' = [taken EXCEPT ![s][r][r] = h]
  /\ UNCHANGED <<head, artifact, record, phase, targets, flags, dry, heads, eyes>>

\* head_sha after the command; without a HEAD nothing is recorded, and a record
\* that cannot be written is given up just the same.
ReadHead(s, r) ==
  /\ job[s][r] = "built"
  /\ \/ /\ SetJob(s, r, "marked")
        /\ taken' = [taken EXCEPT ![s][r][r] = head[r]]
     \/ Blind /\ SetJob(s, r, "passed") /\ UNCHANGED taken
  /\ UNCHANGED <<head, artifact, record, phase, targets, flags, dry, heads, eyes>>

\* Mutant: the direct dependencies are recorded, not all upstreams.
ManifestDirect(s, r) == Only(heads[s], D[r])

\* The HEADs of the upstreams as this run probed them before it began.
Manifest(s, r) == Only(heads[s], Ups[r])

\* record_success
Record(s, r) ==
  /\ job[s][r] = "marked"
  /\ record' = [record EXCEPT ![r] =
                  [head |-> taken[s][r][r], deps |-> Manifest(s, r)]]
  /\ SetJob(s, r, "passed")
  /\ taken' = [taken EXCEPT ![s][r] = None]
  /\ UNCHANGED <<head, artifact, phase, targets, flags, dry, heads, eyes>>

\* The session is over and forgets everything.
Forget(s) ==
  /\ phase' = [phase EXCEPT ![s] = "idle"]
  /\ targets' = [targets EXCEPT ![s] = {}]
  /\ flags' = [flags EXCEPT ![s] = NoFlags]
  /\ dry' = [dry EXCEPT ![s] = FALSE]
  /\ heads' = [heads EXCEPT ![s] = None]
  /\ job' = [job EXCEPT ![s] = [r \in Repo |-> "out"]]
  /\ taken' = [taken EXCEPT ![s] = [r \in Repo |-> None]]
  /\ shown' = [shown EXCEPT ![s] = {}]
  /\ Watch

Over(s) == phase[s] = "running" /\ \A r \in Repo : job[s][r] \in Settled \cup {"out"}

Finish(s) == Over(s) /\ UNCHANGED <<head, artifact, record>> /\ Forget(s)

\* Killed, and its commands with it: their artifacts may be left, or not.
Kill(s) ==
  /\ Kills /\ phase[s] # "idle"
  /\ \E S \in SUBSET {r \in Repo : job[s][r] = "running"} :
       artifact' = [r \in Repo |-> IF r \in S THEN taken[s][r] ELSE artifact[r]]
  /\ UNCHANGED <<head, record>>
  /\ Forget(s)

----------------------------------------------------------------------------
(* Viewing: status.                                                        *)

\* status is asked for some repos, and probes them and their upstreams.
View(s) ==
  /\ Views /\ phase[s] = "idle"
  /\ phase' = [phase EXCEPT ![s] = "viewing"]
  /\ \E T \in SUBSET Repo \ {{}} :
       /\ targets' = [targets EXCEPT ![s] = T]
       /\ job' = [job EXCEPT ![s] = [r \in Repo |->
                    IF r \in Universe(T) THEN "probe" ELSE "out"]]
  /\ UNCHANGED <<head, artifact, record, flags, dry, heads, taken, shown>>
  /\ Watch

Probed(s) == \A r \in Repo : job[s][r] # "probe"

\* The record of r is read, and judged by the HEADs of before.
Show(s, r) ==
  /\ phase[s] = "viewing" /\ Probed(s) /\ r \in targets[s]
  /\ targets' = [targets EXCEPT ![s] = @ \ {r}]
  /\ shown' = IF IsStale(r, heads[s]) THEN shown ELSE [shown EXCEPT ![s] = @ \cup {r}]
  /\ UNCHANGED <<head, artifact, record, phase, flags, dry, heads, job, taken, wasCurrent>>

\* All lines are out.
Shown(s) ==
  /\ phase[s] = "viewing" /\ Probed(s) /\ targets[s] = {}
  /\ UNCHANGED <<head, artifact, record>> /\ Forget(s)

----------------------------------------------------------------------------
\* A commit, a checkout or a pull of some session.
Move(r) ==
  /\ MoveWhile = "idle" => \A s \in Session : phase[s] \in {"idle", "viewing"}
  /\ MoveWhile = "others" => \A s \in Session : job[s][r] \notin {"running", "built"}
  /\ \E c \in Commit \ {head[r]} :
       (c > head[r] \/ Returns) /\ head' = [head EXCEPT ![r] = c]
  /\ UNCHANGED <<artifact, record, phase, targets, flags, dry, heads, job, taken, shown>>
  /\ Watch

Work(s) ==
  \/ Decide(s) \/ Finish(s) \/ View(s) \/ Shown(s)
  \/ \E r \in Repo : \/ Probe(s, r) \/ Judge(s, r) \/ Run(s, r) \/ Refuse(s, r) \/ Skip(s, r)
                     \/ Build(s, r) \/ Fail(s, r) \/ ReadHead(s, r) \/ Record(s, r) \/ Show(s, r)

Next ==
  \/ \E s \in Session : Begin(s) \/ Work(s) \/ Kill(s)
  \/ \E r \in Repo : Move(r)

Spec == Init /\ [][Next]_vars

----------------------------------------------------------------------------
(* Properties.                                                             *)

\* "Staleness only ever errs toward redundant rebuilds, never toward stale
\* artifacts being treated as fresh" (SKILL.md:121): what status calls fresh
\* when it can read the HEADs was made from the commits that the repo and all
\* its upstreams are at, whatever earlier probes failed to read.
FreshIsCurrent == \A r \in Repo : ~IsStale(r, head) => Current(r)

\* The same for a judge who reads only some of the HEADs, where an upstream that
\* is missing from the record and unreadable now counts as unmoved
\* (state.rs:197): what is called fresh then was at least made from the commits
\* of all that could be read.
FreshWhereRead ==
  \A r \in Repo : \A S \in SUBSET Repo :
    ~IsStale(r, Only(head, S)) =>
      r \in S /\ \A u \in S \cap ({r} \cup Ups[r]) : artifact[r][u] = head[u]

\* "Compute freshness before spawning" (status.rs:91): status probes HEADs one
\* after the other and reads the records later, while others build, move HEADs
\* and die.  What it calls fresh, having read the HEADs, was fresh indeed, all
\* of it at one moment between its beginning and its line.
StatusTruthful ==
  \A s \in Session : \A r \in shown[s] :
    (\A u \in {r} \cup Ups[r] : heads[s][u] # Absent) => r \in wasCurrent[s]

\* FreshIsCurrent while no run is in progress: what is wrong then stays wrong.
FreshIsCurrentAtRest == (\A s \in Session : phase[s] = "idle") => FreshIsCurrent

\* "... callers treat 'absent' as 'moved', which only ever errs toward a
\* rebuild" (state.rs:141): nor is a repo called fresh for want of HEADs.
BlindIsNotFresh ==
  (\A s \in Session : phase[s] = "idle") =>
    \A r \in Repo : \A S \in SUBSET Repo : ~IsStale(r, Only(head, S)) => Current(r)

\* ... nor does a run leave out a stale artifact that a target is about to
\* consume: when a target of --with-deps starts, everything below it is either
\* current or has moved since the run probed it.
ConsumesCurrent ==
  \A s \in Session : \A r \in Repo :
    flags[s].deps /\ r \in targets[s] /\ job[s][r] = "running" =>
      \A u \in Ups[r] : Current(u) \/ \E v \in {u} \cup Ups[u] : head[v] # heads[s][v]

\* A run with --with-deps does its work: if everything it ran passed and no
\* HEAD has moved since it looked, then its targets and all their upstreams
\* are fresh, and the next run will rebuild nothing but the targets.
DepsRunFreshens ==
  \A s \in Session :
    LET U == Universe(targets[s]) IN
    /\ Over(s) /\ flags[s].deps
    /\ \A r \in Repo : job[s][r] \in {"out", "passed"}
    /\ \A r \in U : heads[s][r] = head[r]
    => \A r \in U : ~IsStale(r, head)

----------------------------------------------------------------------------
(* The invariant behind them, part by part.                                *)

Alone == \A s, t \in Session : s = t
\* No upstream has upstreams.
Flat == \A r \in Repo : \A u \in Ups[r] : Ups[u] = {}
\* Whatever is upstream of a dependent of t is related to t.
Related == \A t \in Repo : \A r \in Downs[t] : Ups[r] \subseteq {t} \cup Ups[t] \cup Downs[t]

\* Nothing moves while anybody runs, and what a run takes is up to date even
\* if it could not read every HEAD.
Calm == MoveWhile = "idle" /\ (Consumes = "sources" \/ ~Blind \/ Flat)

\* When records can be trusted.  Each conjunct excludes one of the ways in
\* which they lie (see the README).
Orderly ==
  /\ ~Returns /\ ~DryRuns
  /\ Calm \/ (Alone /\ MoveWhile # "any")
  /\ Consumes = "artifacts" => \A f \in Flags : f.deps /\ (f.dependents => Related)

\* When a run brings about freshness.
Effective == ~Returns /\ ~Blind /\ (Alone \/ MoveWhile = "idle")

Sources(r) == {r} \cup Ups[r]
Considered(s) == targets[s] \cup Candidates(s)

\* What is recorded of u in the record of r.
Recorded(r, u) == IF u = r THEN record[r].head ELSE record[r].deps[u]

\* A record of v itself, or of a repo built from v's artifact, has u where it is.
Vouched(v, u) ==
  \E x \in Repo :
    /\ record[x] # Absent /\ Recorded(x, u) = head[u]
    /\ x = v \/ (Consumes = "artifacts" /\ v \in Ups[x])

\* The variables of a session fit its phase.
Fits(s) ==
  /\ phase[s] = "idle" => heads[s] = None /\ \A r \in Repo : job[s][r] = "out"
  /\ phase[s] # "viewing" => shown[s] = {} /\ wasCurrent[s] = {}
  /\ phase[s] \in {"probing", "viewing"} => \A r \in Repo : job[s][r] \in {"out", "probe"}
  /\ phase[s] \in {"probing", "running"} => flags[s] \in Flags /\ (dry[s] => DryRuns)
  /\ phase[s] = "running" =>
       \A r \in Repo : job[s][r] # "probe" /\ (job[s][r] # "out" => r \in Considered(s))
  /\ shown[s] # {} => Probed(s)
  /\ \A r \in Repo : job[s][r] = "probe" => heads[s][r] = Absent
  /\ \A r \in Repo : job[s][r] = "marked" => taken[s][r][r] \in Commit
SessionInv == \A s \in Session : Fits(s)

\* What a run has read of the HEADs stays so if nothing moves while it runs.
ProbeInv ==
  MoveWhile = "idle" =>
    \A s \in Session :
      /\ phase[s] \in {"probing", "running"} =>
           \A u \in Universe(Considered(s)) :
             \/ job[s][u] = "probe"
             \/ heads[s][u] = head[u]
             \/ Blind /\ heads[s][u] = Absent
      /\ \A r \in Repo : job[s][r] = "marked" => taken[s][r][r] = head[r]

\* What was read of a HEAD is not ahead of it.
PastInv ==
  ~Returns =>
    /\ \A s \in Session, u \in Repo : heads[s][u] # Absent => heads[s][u] <= head[u]
    /\ \A r, u \in Repo : record[r] # Absent /\ Recorded(r, u) # Absent => Recorded(r, u) <= head[u]
    /\ \A s \in Session, r \in Repo : job[s][r] = "marked" => taken[s][r][r] <= head[r]

\* In dependency order a repo is at work when all below it is out of the way.
OrderInv ==
  \A s \in Session : phase[s] = "running" /\ Ordered(s) =>
    \A r \in Repo : job[s][r] \in {"running", "built", "marked"} =>
      \A u \in Ups[r] : job[s][u] \in {"out", "passed"}

\* Artifacts are made from a repo and its upstreams, of nothing else.
ShapeInv ==
  \A r \in Repo : \A x \in Repo \ Sources(r) :
    /\ artifact[r][x] = Absent
    /\ \A s \in Session : job[s][r] = "running" => taken[s][r][x] = Absent

\* An artifact carries the present version of all that is vouched for.
RecordInv ==
  Orderly => \A v \in Repo : \A u \in Sources(v) : Vouched(v, u) => artifact[v][u] = head[u]

\* So does one that this run has made, or has left as it was, as far as the
\* run has seen the present versions.
WorkInv ==
  Orderly => \A s \in Session : phase[s] = "running" =>
    \A v \in Considered(s) : \A u \in Sources(v) :
      /\ job[s][v] \in {"out", "built", "marked", "passed"} =>
           (heads[s][u] = head[u] \/ (u = v /\ MoveWhile = "idle") => artifact[v][u] = head[u])
      /\ job[s][v] = "running" =>
           (heads[s][u] = head[u] \/ Vouched(v, u) \/ Calm => taken[s][v][u] = head[u])

\* The HEAD read after a command is the one that it has built.
OwnInv ==
  Orderly => \A s \in Session, r \in Repo :
    /\ job[s][r] = "running" => taken[s][r][r] = head[r]
    /\ job[s][r] = "built" => artifact[r][r] = head[r]
    /\ job[s][r] = "marked" /\ taken[s][r][r] = head[r] => artifact[r][r] = head[r]

\* A viewer has seen current whatever the HEADs it has probed, and those it has
\* yet to probe, would make it call fresh.
ViewInv ==
  Orderly => \A s \in Session : phase[s] = "viewing" =>
    \A r \in Repo :
      /\ Current(r) => r \in wasCurrent[s]
      /\ (/\ record[r] # Absent
          /\ \A u \in Sources(r) :
               Recorded(r, u) = IF heads[s][u] = Absent THEN head[u] ELSE heads[s][u])
         => r \in wasCurrent[s]

\* What an effective run has passed or left out is fresh, unless it moved.
EffectInv ==
  Effective => \A s \in Session : phase[s] = "running" =>
    \A v \in Considered(s) :
      /\ job[s][v] \in {"out", "passed"} /\ (\A u \in Sources(v) : heads[s][u] = head[u])
           => ~IsStale(v, head)
      /\ job[s][v] = "marked" /\ heads[s][v] = head[v] => taken[s][v][v] = head[v]

\* Inductive for any values of the constants (FreshnessProofs).  The properties
\* above follow, those about records where they are Orderly.
IndInv ==
  /\ TypeOK /\ SessionInv /\ ProbeInv /\ PastInv /\ OrderInv /\ ShapeInv
  /\ RecordInv /\ WorkInv /\ OwnInv /\ ViewInv /\ EffectInv
  /\ Orderly => StatusTruthful
==============================================================================
