# TLA+ models of ezgitx

`ezgitx` is a command-line tool that lets several agents (sessions) work in one
workspace of git repositories: it pulls them, runs commands in them in
dependency order, remembers what has been built, and tells each session what
changed.  There is no daemon.  Every command is a process of its own, and the
processes meet only in files: advisory locks in `.ezgitx/locks/`, records in
`.ezgitx/state/`, and the repositories themselves.  That is where the hard
behaviour of the program is, and what these models are about.

Paths below are those of the repository; line numbers of every definition are in
`PROJECT.json`.

## Inventory

| Part | State | Operations | Hard about it | Correct means |
|---|---|---|---|---|
| lock files (`lock.rs`) | one file per repo and one for the workspace, naming pid, host, start time | `acquire` (with or without `--wait`), drop, `check_workspace_lock`, `active_sessions` | publishing by hard link, breaking stale locks after reading them, locks that cannot be read, pid reuse, clocks of several hosts, crashes | at most one holder unless a lock has gone stale or could not be read; a lost lock has a cause; everybody gets an answer; a dead holder's lock is reclaimed |
| graph (`graph.rs`) | `depends_on` of each repo | `check_cycles`, `transitive_upstreams`, `downstream_closure`, `topo_waves` | dependencies through repos that are not part of a run | closures exact, waves respect them |
| executor (`exec.rs`) | failed names, counters, tasks and permits | `execute_waves`, `run_parallel` | results in completion order, failures across waves, `--jobs 0` | order, skips only below failures, honest counters, it ends |
| freshness (`state.rs`, `run.rs`) | a record per repo: its HEAD and its upstreams' HEADs | `current_heads`, `is_stale`, `deps_drift`, `record_success` | HEADs move while commands run, several sessions build the same repos, runs die | a repo judged fresh was built from what its sources are now |
| `pull` | the repo's lock, its HEAD | check the workspace lock, lock, fetch, status, merge, count | a user commits in the middle; waiting while holding a job permit | never a merge commit, never two pulls in one repo, true counts |
| `brief`, `changed` | a baseline per repo | snapshot, delta, advance the baseline | advance before print, several sessions, rewritten history | no commit is skipped without being shown |
| `status`, `sessions` | none | read-only views | HEADs, then records, read while others build, move and die | what they call fresh or active is, or was since they began |
| `check-impact`, `verify`, `--dirty` | none | look at all working trees, closure of the changed or dirty repos, executed | people work while the repos are looked at; what counts as dirty; diamonds in the graph | whatever showed work all the time, and everything below it, is checked |
| workspace and config (`workspace.rs`, `config.rs`) | the merged config | `load`, `select` | a repo may be an entry of several groups; cycles; lookups by name | order of groups is irrelevant, conflicts are errors, no lookup misses |
| git wrapper and parsers (`git.rs`) | counters of one parse | `parse_commit_log`, `parse_name_status`, `parse_porcelain_v2` | framing by position, two caps, early exits | a cap cuts a sample short, never what is said about the whole |
| output, errors, command line | none | formatting, parsing of arguments | | |
| packaging (`scripts/`, `dist-workspace.toml`) | none | release tooling | | |

How they interact: every command begins with `load` (and its `check_cycles`) and `select`.
`pull` calls the lock module and `run_parallel`; `run`,
`check-impact --check` and `verify` call the graph for a set and its waves and hand
both to `execute_waves`, which calls `record_success` for `run` only; `status`,
`brief` and `run` judge by the records that `run` wrote.  Nothing but `pull` takes
a lock.

## Modules

### LockFile: one lock path and everybody who touches it

Locks at different paths never interact, so one path is enough.  `file` is what the
path names: nothing, junk, or the lock of the process that linked it (a process
links at most once).  `pc` follows each process through the code between two
accesses to shared state:

| `pc` | in `lock.rs` |
|---|---|
| `stage` | about to build the `LockInfo` and write the staging file (91-111) |
| `link` | at `hard_link` (114) |
| `read` | at `read_to_string` (121, 182, 225) |
| `judge` | holding what it read, at `is_stale` (129, 189, 231) |
| `break` | found stale, at `remove_file` (131, 191) |
| `linked`, `denied` | leaving the loop (115, 135, 137), staging file still there |
| `sleep` | polling (170) |
| `holding` | the guard is alive |

`Acquirers` are pulls in `acquire`, `Checkers` are pulls in `check_workspace_lock`,
`Listers` are `ezgitx sessions`; they share `Read` and `Judge` and differ in
`IfAbsent`, `IfStale`, `IfHeld` and `IfBroken`.  `age` is the true age of a stamp; what a
process computes from it adds the difference of the two hosts' clocks (`SeenAge`),
and a stamp from the future is simply young, as in the code.  `life` tells a running
process from one that has ended and from a pid that another program has been given.
`lost` is a history variable: how a file left the path by another's hand.

`Read` has three outcomes, as in the code: what is at the path, nothing, or, where
`ReadFaults` allows it, an error of another kind (permissions, too many open files), which the code
turns into an empty text.  That is `Unread`, which like junk is stale to whoever breaks locks, so
that a fresh lock of a running process is removed (`lost` is `"misread"`), and no lock to `sessions`.
A failed write of the staging file leaves nothing or a part of it, which is removed (`Fault`).

Crashes keep the lock file and the staging file.  A `Tick` moves every clock.

### DepGraph, BuildOrder, Waves: the executor

`DepGraph` defines what the traversals of `graph.rs` return, as least closed sets
and without recursion.  `Waves` is `execute_waves` with `run_parallel`: waves in turn,
a wave prepared in name order (skip, refuse, line up), tasks that wait for a permit,
run and deliver their result in completion order.  `topo_waves` computes its whole
list in advance from the set and the graph; `Wave` computes each when its turn
comes, and the two agree because a wave is done exactly when it is settled.
`BuildOrder` is what a caller is promised, without waves, permits and channels:
each repo of the set is run, refused or skipped once, in dependency order a command
starts only after everything it needs in the set has passed, and a repo is skipped only
below one that did not pass.  `Waves` is shown to implement it (`ImplementsPromise`).

### Freshness: is what counts as fresh up to date?

The records name commits; what an artifact was really made of is recorded nowhere
in the program.  The model keeps it: `artifact[r]` is the version of `r` and of each of
its upstreams that went into `r`'s artifact.  A build consumes either the sources of
its upstreams (path dependencies) or their artifacts; the program cannot know
which, so both are modelled (`Consumes`).  `heads`, `job` and `taken` are one session's
snapshot, progress and what its running commands work on.  A repo's task is opened up at each
point where something else may happen: `Run`, `Build` or `Fail`, `ReadHead`, `Record`.  The
executor is reduced to what `Waves` promises: a task runs when what it needs in the set has passed.
`--with-deps` chooses its upstreams by reading and judging their records one after the other
(`Judge`), so that another session's may appear in between.  A session may also ask for `status`
(`View`): it probes HEADs as a run does, then reads and judges one record after the other (`Show`);
`wasCurrent` is a history variable, the repos that were current at some moment since it began.

What the environment may do is a constant, because what holds depends on it: HEADs
move while nobody runs, while no command of that very repo runs, or at any time
(`MoveWhile`); they may go back (`Returns`); a command may build nothing (`DryRuns`);
reads and writes may fail (`Blind`); runs may be killed (`Kills`).

### Brief: what has been shown, and what has been consumed

Repositories do not interact, so one of them is enough, with the sessions that run
`brief`, `changed` since the last brief or `changed --since <ref>` on it (`mode`) and a user who commits, checks out, rewrites history and
collects garbage.  Commits are numbers in the order they are made; `anc` gives each
what it reaches, so that ranges are differences of two sets.

| `pc` | in `brief.rs` (b) and `changed.rs` (c) |
|---|---|
| `status` | at `git::status` (b 138) |
| `head` | at `git::head_sha` (b 164), `git::resolve_commit` of HEAD (c 98) |
| `base` | at `state::read_brief` (b 170, c 109) |
| `delta` | holding HEAD and baseline, at `rev_exists` and `commit_range` (b 180-188) |
| `result` | in the callback, before the filter and `write_brief` (b 212-219) |
| `print` | baseline written, line not yet printed (b 236, or with `--human` 266) |
| `resolve`, `range`, `show` | at the `from` side (c 119), at the range (c 137), at the line (c 181) |

`told` is a history variable: the commits that some `brief` has listed, or passed over
with a line that says it has no delta.  HEAD is read twice by `brief`, once for the
baseline and once by git for `baseline..HEAD`; `Sidesteps` says whether it may leave
the line of the first in between.

### Pull: fast-forward, one repo at a time

Processes that pull the same repos.  `at` counts each task through the stages of
`run_parallel` and `pull_one`:

| stage | in `exec.rs` (e) and `pull.rs` (p) |
|---|---|
| `permit` | waiting for the semaphore (e 37) |
| `repo` | at `git::check_is_repo` (p 36) |
| `lock` | at `lock::acquire` (p 41), with the permit |
| `pre` | at the first `git::head_sha` (p 46) |
| `fetch`, `status`, `merge` | at `git fetch` (p 52), `git::status` (p 56), `git merge --ff-only` (p 84) |
| `post` | at the second `git::head_sha` (p 108) and `rev-list --count` (p 121-129) |

A stage past the last one means that the line is out; guard and permit went back with it.
The lock takes the steps of `LockFile`, at the stage `lock`: link (`Lock`), or read what is there
(`Read`, into `seen`), judge it and, if stale, remove whatever is at the path by then (`Break`), or
poll, or give up; and a guard removes by path, too.  So a lock is not assumed to exclude: the lock
that a killed pull has left, at the beginning already where `Left` says so, can be broken by two others at once,
and the slower of them removes the lock of the faster one.  `stolen` is a history variable, the repos
where that has happened to a pull at work.  How a lock is judged is reduced to whether its holder
runs; a lock that outlives its TTL, or cannot be read, may be judged either way, and `Misjudged`
has the repos where that happens.  Staging files and clocks are left to `LockFile`.  What a branch
reaches is counted, `up` of its upstream's commits and `own` of the user's, because fast-forward,
divergence and the printed number depend on no more; upstreams are not rewritten.  Others push
to, and the user edits, commits and detaches HEAD in, the repos of `Busy`, at any moment.  A HEAD
detached while a pull runs stays where the branch is: checkouts of another commit between the two
looks are left out, and so is a child `git` that survives its killed `ezgitx`.  `fetched`, `brought`
and `mine` are history variables: what the task's fetch saw, what its merge moved, and what the user
committed between its looks.

### Load and CycleCheck: what every command begins with

`Load` is `load` and `select` of `workspace.rs`, one entry at a time: `pending` and `groups` are the
maps of the code, `Merge` and `Clash` the two ways an entry can go, `Resolve` looks up the
dependencies and hands them to `CycleCheck`, `Select` applies the targeting flags.  A configuration
is a sequence of entries in the order of their groups; `present` has the groups, those without entries
included, which `select` knows and which select nothing.  Paths are what `normalize` returns; one that
ends in no directory name is refused (`Nameless`).  A `depends_on` is a list as it is written: two
entries that give the same names in another order, or one of them twice, are in conflict
(`Conflict`).  An unknown group or repo on the command line has the error code of an invalid
configuration; the model keeps the two apart (`unknown_target`).
`CycleCheck` is `check_cycles`: `mark` has the colours, `stack` is the gray chain, `left` what the
index of each stack entry has not come to.  Merged lists are sets by
then, so that the search looks at dependencies, and starts at repos, in any order.

### Closure and Gate: verify, check-impact, --dirty

`Closure` is `downstream_closure`, one node of a level at a time, with the depth and the path of
each repo found.  What the loop does per dependent of a node is one step:
nothing else can happen in between, and the order of dependents does not matter.
`Gate` runs it for the commands that need it, or look at trees the same way
(`command`): `verify`, `check-impact` with and without `--check`, and `select_filtered`.  `tree[r]`
is what `git status` would say of `r`: changed, conflicted, detached, not readable, in the
combinations that `Tree` lists; `DirtyOrUnreadable` is what the code makes of it.  `LookAt` is the
report of one task of `run_parallel`; between two of them anybody may `Edit`.  `worked` and
`everWorked` are history variables: the repos that have shown work all along, or at any moment.  The
execution is `BuildOrder`, which `Waves` implements.  `verify` collects all closures, one dirty
repo after the other in name order, before it runs anything; so does the model.

### Listing: what git printed, and what is said of it

The three parsers of `git.rs` share one shape: tokens are taken from the front, counted, and kept
while there is room.  `git` is the output as a sequence of tokens that are words and
sizes, and beside it `at`, which the parsers do not see: where each entry that git meant
ends.  A path may be a word that is also a status code.  `Room` has both caps and the flag
that closes a list; `TakeCommit`, `TakeChange` and `TakeLine` are one turn of each loop; the
two caps are one test, for in the code both lead to the same `continue`.
The sample of a porcelain parse has no byte cap and no flag, as in the code.

`MCLockFile`, `MCWaves`, `MCFreshness`, `MCBrief`, `MCPull`, `MCLoad`, `MCGate` and `MCListing` give the constants their values.

## Properties and runs

Passing runs:

| Run | Instance | Shows |
|---|---|---|
| `LockFileSafe` | 2 acquirers on hosts one tick apart, a checker, a lister, crashes, pid reuse, I/O faults, failing reads; 5.3M states | `Exclusion`, `ExclusiveUntilCondemned`, `LossCause`, `StagingCleaned`, `IndInv` |
| `LockFileLive` | 2 acquirers on skewed hosts, TTL 1, crashes, removable junk, failing reads, fairness; 36k states | `AcquireEnds`, `OrphanReclaimed` |
| `Waves3` | every acyclic graph on 3 repos, every set, plain and ordered, `--jobs` 0 and 2 | `IndInv`, `TallyAgrees`, `Ends`, `ImplementsPromise` |
| `FreshArtifacts` | a chain of 3, artifacts consumed, `--with-deps` alone or with `--with-dependents`, HEADs move outside a repo's own command, kills; 2.9M states | `IndInv`, `FreshIsCurrent`, `ConsumesCurrent`, `DepsRunFreshens` |
| `FreshSessions` | 2 repos, 2 sessions, `--with-deps`, unreadable HEADs, failing record writes, kills, `status` beside builds and moves; 4.6M states | `IndInv`, `FreshWhereRead`, `StatusTruthful` |
| `BriefSessions` | 2 sessions, 3 commits, every kind of command, rewritten history, garbage collection, failing git and baseline files, kills up to the callback; 8.1M states | `NoneSkipped`, `ChangedHidesNone`, `IndInv` |
| `PullTwo` | 2 pulls over 2 repos with one permit each, a third that was killed before and has left its lock at one repo, misjudged locks at the other; pushes, edits and commits at any time, failing git, kills, fairness; 389k states | `IndInv`, `LineIsTrue`, `BrokenOnlyInRace`, `PullEnds` |
| `Load` | every configuration of up to 3 entries in 2 groups over 3 directory names (one at two paths, one repo inside another) and one path without a name, lists in any order and with duplicates, groups without entries, cycles and unknown names; every targeting; 1.6M states | `MergeExact`, `LoadedSound`, `VerdictRight`, `LoadEnds`, `IndInv` |
| `Gate` | 4 graphs of 4 repos (diamond, shortcut with names against the order, chain, star), up to 2 trees not clean, one edit while the command looks, every outcome of the checks; 539k states | `ClosureExact`, `VerdictSound`, `ImpactSound`, `FilterSound`, `GateEnds`, `IndInv` |
| `Listing` | every output of up to 3 entries, files named like status codes, malformed tails, sizes, small caps; 184k states | `CountsAll`, `FillsCaps`, `JudgesAll`, `IndInv` |

* `Exclusion`: two processes hold the lock together only if one of them has outlived
  the TTL or has lost its file to a raced break, a failed read or a drop.  `LossCause`: such a loss
  never comes out of the blue.  `ExclusiveUntilCondemned`: as long as `is_stale` could
  condemn nothing, there was no junk and no lock was removed unread, the lock is exclusive without
  exception.
* `StagingCleaned`: every return of `try_acquire` has removed the staging file.
* `AcquireEnds`, `OrphanReclaimed`: an acquirer past its deadline gets an answer; the
  lock of a process that died on another host, whose pid says nothing, is reclaimed.
* `UpstreamsPassed`, `SkipHasCause` (both within `IndInv`), `TallyAgrees`, `Ends`: order, causes of
  skips, counters, termination.
* `FreshIsCurrent`: what `is_stale` calls fresh was made from the commits the repo and
  all its upstreams are at.  `FreshWhereRead`: the same for a judge who cannot read
  every HEAD, as far as it can read, although two absent values compare equal.  `StatusTruthful`: what `status` calls fresh, having read
  all it needs, was so, all of it at one moment since `status` began.  `ConsumesCurrent`: `--with-deps` never leaves out a stale
  upstream that a target is about to consume.  `DepsRunFreshens`: a run that passed
  leaves its targets and their upstreams fresh, so the next one has nothing to add.
* `NoneSkipped`: whatever is behind the baseline was told, or is in a line about to be
  printed, however two sessions take turns in writing the baseline.  `ChangedHidesNone`:
  whatever a `changed` since the last brief leaves out of what its HEAD reaches has been told by some
  brief, or is in a line about to be printed, so that together with the briefs it hides nothing,
  although HEAD and the baseline move while it looks at one after the other.
* `LineIsTrue`: `commits_pulled` counts what this very pull merged and, since no lock keeps the user
  out, what the user committed between its two looks at HEAD, each once and nothing of another pull, unless a lock of the repo was
  broken while its holder was at work; `up_to_date` means neither; and the branch has all that was
  fetched.
  `BrokenOnlyInRace`: that happens only where a lock was misjudged, or to a pull that came between two
  others: one that has died and one that had read the dead one's lock.
  `PullEnds`: pulls that wait for each other's locks while they hold permits do not block each
  other, even if no deadline passes.
* `MergeExact`: what is loaded, and whether anything is, is a matter of what the entries say and not
  of the order of groups.  `LoadedSound`: what is loaded is acyclic, nothing sound is refused, and the
  lookups that would panic succeed.  `VerdictRight`: `check_cycles` accepts the acyclic graphs only,
  and the path it names is a cycle.  `LoadEnds`: every command gets past loading.
* `ClosureExact`: `downstream_closure` returns everything downstream and nothing else; that depths
  are smallest and paths lead there (`PathsShortest`) is part of `IndInv`.
* `VerdictSound`: a pass of `verify` means that the checks of all repos that showed work all the time,
  and of all below them, passed, whichever repo was looked at first and whatever people did
  meanwhile; a repo that never showed work brings nothing into the set.  `ImpactSound`, `FilterSound`:
  the same for `check-impact --check` and `--dirty`.  `GateEnds`: the command comes to its end.
* `CountsAll`: totals count every entry git meant, and samples are the first of them, whatever the
  files are called.  `FillsCaps`: a sample is as long as both caps allow, and never empty for want of
  room.  `JudgesAll`: a conflict counts also behind the last line of the sample.

Runs that end in a counterexample, each against a sentence of the documentation
(the findings of `PROJECT.json` quote it):

| Run | What TLC finds |
|---|---|
| `FreshMovedDuring` | HEAD is read after the command: a commit that arrives while it runs counts as built |
| `VerifyDetached` | a repo with uncommitted changes on a detached HEAD counts as detached and not as dirty: `verify` passes and has not checked it |

More statements of the documentation fail on small instances.  No run is spent
on them; the constants that show them are:

* "if we raced another breaker, hard_link decides": `remove_file` acts on what was read before; of
  two breakers of one expired lock the slower one removes the fresh lock of the faster one, and a
  third process joins it (`FreshExclusion`; 3 acquirers, `OneHost`, `NoSkew`, TTL 1, MaxAge 1);
* "Stale locks (dead process or TTL)": a read that fails for another reason than that there is no file makes a
  fresh lock of a running process stale, and it is removed (`FreshExclusion`; 2 acquirers, `ReadFaults`);
* of two pulls in one repo after such a break, one counts the commits that the other has brought
  (`LineIsTrue` without its last alternative for the count; the constants of `PullTwo`);
* `--with-deps` adds the upstreams of the targets only; a dependent that `--with-dependents` adds is
  built on another upstream that is stale (`FreshIsCurrentAtRest`; `Join`, 1 session, artifacts,
  `WithBoth`, `MoveWhile = "idle"`);
* a `brief` that is killed between writing the baseline and printing consumes commits nobody was
  shown (`NoneSkipped`; 1 session, `JustBrief`, `Anywhere`);
* in a workspace where one repo lies in another, a command without flags picks the first by name that
  encloses the working directory, not the inner one (`InnermostPicked`; the constants of `Load`);
* a holder that outlived the TTL removes its successor's lock when it drops its guard
  (`OwnDropOnly`; 2 acquirers, one host, TTL 0, MaxAge 1);
* a failed write of the staging file is reported as `lock_held` (`RefusedMeansHeld`;
  1 acquirer, `IOFaults`);
* a stale file that cannot be removed keeps `try_acquire` in its loop, past every deadline
  (`AcquireEnds`; 1 acquirer, junk, `StuckGarbage`);
* in a plain run, a single wave, a repo is skipped because an upstream that sorts before it was
  refused (`PlainRunSkipsNone` in `Waves`; 3 repos);
* a command that builds nothing, like the dry run that `SKILL.md` recommends, is
  recorded as a build (`FreshIsCurrentAtRest`; `Pair`, 1 session, sources, `Plain`, `DryRuns`);
* `brief` resolves HEAD, a checkout follows, and the range ends elsewhere: the commits up
  to the first HEAD are consumed without being listed (`NoneSkipped`; 1 session, 2 commits,
  `Sidesteps`), where `changed` takes care to use the ends it resolved;
* of two sessions building one repo around a move of its upstream, one leaves the artifact and
  the other the record (`FreshIsCurrentAtRest`; `Pair`, 2 sessions, sources, `Plain`, `MoveWhile = "others"`);
* a failed build replaces the artifact and keeps the old record, and HEAD goes back
  (`FreshIsCurrentAtRest`; `Pair`, 1 session, sources, `Plain`, `MoveWhile = "idle"`, `Returns`);
* an upstream that is unreadable when it is recorded and when it is judged counts as
  unmoved (`BlindIsNotFresh`; `Pair`, 1 session, sources, `Plain`, `MoveWhile = "idle"`, `Blind`): why `FreshWhereRead`
  speaks only of what could be read;
* a plain run that consumes artifacts is built on whatever its upstreams have left, and recorded as
  built on their HEADs (`FreshIsCurrentAtRest`; `Pair`, 1 session, artifacts, `Plain`, `MoveWhile = "idle"`);
* a run that cannot read a HEAD finds the repo in the middle of a chain fresh, since two absent values
  compare equal, leaves it out, and builds the top on its old artifact after another session has
  recorded the top; the other's record then vouches for it (`FreshWhereRead`; `Chain`, 2 sessions,
  artifacts, `WithDeps`, `MoveWhile = "idle"`, `Blind`; 46 steps deep: let only the bottom move, ask for the
  top only, and let nothing fail);
* a run that could not write a record, or read a HEAD, passes and leaves its repos stale; so
  does one whose HEADs went away and came back, and one of two sessions around a move
  (`DepsRunFreshens`; `Pair`, artifacts, `WithDeps`, with `Blind`; with `Returns` and
  `MoveWhile = "any"`; with 2 sessions and `MoveWhile = "others"`).

What is left of the environment is `Orderly`, the hypothesis of the theorems about records, and
each of its conjuncts excludes one of these: HEADs do not go back; commands build; no HEAD moves while
its repo's own command runs, and none at all while several sessions run; several sessions read
every HEAD, or consume sources, or the graph is flat; and who consumes artifacts uses `--with-deps`,
adding `--with-dependents` only where that brings no foreign upstream.  `Effective` does the same for
`DepsRunFreshens`.  The passing runs are within both, except that `FreshSessions` is `Blind`
and checks nothing that `Effective` is needed for.

### Bounds

* With two acquirers and a checker that breaks stale locks too, a lock can be broken by one process,
  replaced by a second and removed by a third.  Any read may fail, at any time.  Ages are counted to
  `MaxAge`, the largest that a comparison with `TTL` over a skew of one tick can tell
  apart.  The real TTL of 600 s only scales the tick.
* Three repos are the smallest workspace in which a set has a dependency through
  a repo outside it; all graphs, sets and modes are tried.  Permits matter as one or
  several: `--jobs` 0 and 2.
* A chain of three has an upstream that is only transitive.  Three commits let a HEAD move
  twice between snapshot and record; the top of the chain, which no other repo consumes, has two
  (`TopMovesOnce`), and so have the repos where there are two sessions.
* Three commits make a baseline, a HEAD and a branch beside them, and two sessions an
  overtaken baseline.  `Refs` has one commit: a ref that git resolves or does not.
* Two pulls and two repos with one permit each are what it takes for a circle of waiting, each holding
  its only permit at the other's lock.  Two commits upstream and one of the user's give every
  relation of branch and upstream; one repo moves, the other only has to be queued for.  A lock that
  has been left by a third pull is what two can race for; in the other repo any lock may be broken.
* Three entries let two groups say different things of one repo and a third entry close or break a
  cycle with it; three repos have a loop, a cycle of two and one of three.  Lists of two names are in one
  order, in the other, or a name twice.
* Four repos are the smallest diamond; two trees that are not clean have overlapping closures.  One
  edit makes a repo dirty, or clean, before or after it was looked at.
* Three entries are one that is kept, one that meets a cap, and one behind it that would fit
  again.

`CHECK_DEADLOCK FALSE` stands where the system comes to rest: a command that has ended in `Load`,
`Gate` and `Listing`, every repo settled in `Waves`.

### Fairness

`LockFile!FairSpec`: a running process is scheduled (weak fairness of its own step) and
clocks do not stop.  Nothing makes a process start, fail, crash or run out of
patience.  `Waves!FairSpec`: the executor and its tasks are scheduled by the tokio runtime
and every command ends; the program sets no timeout on commands, so a command
that hangs hangs the run, and that is excluded.  `Pull!FairSpec`: each task is scheduled and its git
calls return (weak fairness of the work of each task of a pull that was not killed before), and a pull with all its results ends.  No
fairness on denial: a pull that waits is let in because the holder ends or dies.
`Load!FairSpec`: one process, which runs.  `Gate!FairSpec`: the command, its git calls and its checks
run (weak fairness of `Program`); people need not do anything.

## Proofs

`LockFileProofs` proves, for any number of processes, hosts, clocks and TTL, that `IndInv`
is inductive, and from it `TypeOK`, `LossCause`, `Exclusion`, `ExclusiveUntilCondemned` and, with one
more induction, `StagingCleaned`.
The safety properties are not inductive: that a held lock is at the path or lost
(`HeldInv`) needs that the path names only locks their owners have neither dropped nor
lost (`FileInv`); that a loss has a cause (`LostInv`) needs that whoever is about to unlink has
read a lock that was published and has been condemned, or has failed to read (`SeenInv`), and that a
condemned lock stays condemned (`CondemnedStays`: ages only grow and the dead stay dead).

`WavesProofs` proves for any finite workspace, any graph, set, mode and number of jobs that
`IndInv` is inductive, hence `UpstreamsPassed` and `SkipHasCause`; `TallyAgrees`; and that
`Waves` implements `BuildOrder`.  The strengthening is `PickedInOrder`: a repo leaves
the waiting state only when everything it needs is settled.  That a wave which is
ready by the upstreams within the set is also right about skips rests on
`UpstreamsTransitive`, the transitivity of the closure.

`BriefProofs` proves for any number of sessions and commits and any set of commands that `IndInv`
is inductive, hence `NoneSkipped` and `ChangedHidesNone`.  Both need `Sheltered`: HEAD does not
sidestep a brief, and nobody is killed between recording and printing; without either TLC has
a counterexample.  The ancestors of a commit that has been made never change (`MadeStays`).  `NoneSkipped` is not inductive: `CoverInv` adds that a baseline which has been
read was covered, and that a line makes up for what its session will record, which in turn
rests on HEAD still being on the line of what was resolved (`LookInv`) and on ancestry being
transitive (`AncInv`).

`FreshnessProofs` proves for any acyclic graph, any number of sessions and commits, and everything that
the constants let the environment do, that `IndInv` is inductive; from it, where records are `Orderly`,
`FreshIsCurrent`, `FreshWhereRead`, `StatusTruthful` and `ConsumesCurrent`, and where runs are `Effective`,
`DepsRunFreshens`.  That a record tells the truth about its own artifact is far from inductive, for the
artifact is built of others.  `RecordInv` says it of all of them at once: a record that has the present
version of `u` vouches for every artifact on the way from `u` to its repo (`Vouched`), and those carry
that version.  It survives a rebuild because of `WorkInv`, which says the same of what a run has
built, left out or taken in so far, as far as its snapshot agrees with the HEADs or somebody vouches;
a new record because the run got to it in order (`OrderInv`) and considered all that is below
(`BelowConsidered`); and a HEAD that moves because nobody has seen it where it goes (`PastInv`: this is
where HEADs must not go back).  `OwnInv` is the same for the HEAD that is read after a command.
`ViewInv` follows a `status` in progress: whatever the HEADs it has read, and those it has yet to read,
would make it call fresh it has already seen current.  `EffectInv` is the converse of
`RecordInv`: a repo that a run has passed or left out has a record that agrees with its snapshot.
Two parts were missing until the prover asked for them: that a HEAD still to be probed counts as
unread (in `Fits`), and that in an idle world the HEAD read after a command is the present one
(in `ProbeInv`).  And one statement was false before the graph had to be `Flat`: the run of two blind
sessions on a chain, above.

`PullProofs` proves for any number of repos, pulls, jobs and commits, whenever others push and the user
commits, whatever locks have been left and may be misjudged, that `IndInv` is inductive, that every
line is true (`LinesAreTrue`) and that locks at work are broken only as `BrokenOnlyInRace` says
(`LocksBreakInRaces`).  The count rests on
`PreInv`, HEAD moving between the two looks by what the task brings, what the user commits and, where no
lock was broken, nothing else, and that on `LockInv`: whoever works on a repo is whom its lock names,
or the lock was broken, so no other task is between its looks.  That the breaker is neither the pull
that loses its lock nor the one whose lock it has read follows because a lock that names a running
pull is that of a task at work (`HolderInv`).

`LoadProofs` proves for configurations of any length, with any names, groups and targetings, that
`IndInv` is inductive, and from it `MergeExact`, `LoadedSound` and `VerdictRight`.  Merging rests on
`MergeInv` (what is pending is exactly what the entries so far say).  That an accepted graph is acyclic
rests on `BlackInv`, no nonempty set of black repos in which everybody has a dependency, kept because
a repo turns black when its dependencies are black (`LookedInv`); that a refused one is not
rests on the stack being a path (`StackInv`).  That a refusal has a reason is part of `PhaseInv`:
a nameless path, two entries that differ, or an unknown dependency.

`GateProofs` proves for any graph, any working trees and any people that `IndInv` is inductive, and
from it `ClosureExact`, `VerdictSound`, `ImpactSound` and `FilterSound`.  The search is exact because
what is behind the frontier has all its dependents in `seen` (`LevelInv`); the set of `verify` is exact
because every dirty repo is still to be closed, being closed, or has its closure in the set
(`SetInv`); the verdict follows people because a repo that still shows work was kept when it was
looked at (`LookInv`).

`ListingProofs` proves for any output of git, of any length, and any caps that `IndInv` is inductive,
and from it `CountsAll`, `FillsCaps` and `JudgesAll`: the position is always the end of an entry that
git meant (`ListInv`), so no path is ever taken for a code.

Assumptions are those of the modules (`LockAssumption`, `WavesAssumption`, `BriefAssumption`,
`PullAssumption`, `LoadAssumption`, `GateAssumption`, `ClosureAssumption`, `ListingAssumption`,
`FreshnessAssumption`, `AbsentAssumption`): disjoint
roles, one clock per host, finite sets of repos and pulls, repos with distinct ranks, refs that are commits, acyclic
graphs for `Gate` and `Freshness` (which `Load` proves), outputs in the format that git documents, bounds
that are numbers, an absent value that is none; and `Sheltered`, `Orderly` or `Effective` where a theorem says so.

Only model-checked: liveness (`AcquireEnds`, `OrphanReclaimed`, `Ends`, `PullEnds`, `LoadEnds`,
`GateEnds`), which needs fairness and ENABLED and is beyond the prover.  Every invariant and
every action property of the passing runs, and the refinement of `BuildOrder`, is proved.

## Plan

1. `LockFile` shown to implement the lock of `Pull`, with `Misjudged` everything where locks outlive
   the TTL or cannot be read (`Unread` and `Condemned` become its `Stale`).
2. A weaker hypothesis than `Orderly` for graphs deeper than `Flat`, when blind sessions share repos.

## Not modelled

* Reading YAML, finding the workspace root, normalizing paths, parsing arguments: functions of a
  text without state of their own.
* Spawning `git` and shells, the tails and byte caps of what they print, output in either
  format, `init-skill`, which writes a template.
* Packaging and scripts.
* A taker of the workspace lock: nothing in the program takes it.
