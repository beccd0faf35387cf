--------------------------------- MODULE Pull ---------------------------------
(***************************************************************************)
(* `ezgitx pull` (src/src/commands/pull.rs): processes that fast-forward   *)
(* the same repositories, each with one task per repo under the permits of *)
(* run_parallel (src/src/exec.rs) and each task under the lock of its      *)
(* repo, while others push and the user edits and commits.                 *)
(*                                                                         *)
(* A lock is the file that the module LockFile tells of in detail: linked  *)
(* if there is none, read and judged if there is one, and removed by path  *)
(* if judged stale, whatever is there by then, or when its holder is done. *)
(*                                                                         *)
(* A history is the number of commits it has of its upstream and the       *)
(* number of its own; upstreams are not rewritten.                         *)
(***************************************************************************)
EXTENDS Integers, FiniteSets, Sequences

CONSTANTS
  Repo,        \* repositories, all selected by every pull
  Puller,      \* processes running pull
  Left,        \* for each repo the one that was killed and left its lock, or None
  Jobs,        \* what --jobs says, per puller
  None,        \* nobody, nothing
  Busy,        \* those that others push to, edit and commit in
  Misjudged,   \* those whose lock may outlive its TTL or not be readable
  MaxUp,       \* bound: commits that are pushed upstream
  MaxOwn,      \* bound: commits that the user makes
  Faults       \* may git fail, or a repo be none?

Task == Puller \X Repo
History == [up : 0 .. MaxUp, own : 0 .. MaxOwn]
Tree == {"clean", "dirty", "detached"}    \* conflicted is treated as dirty

ASSUME PullAssumption ==
  /\ IsFiniteSet(Repo) /\ Busy \subseteq Repo /\ Misjudged \subseteq Repo
  /\ IsFiniteSet(Puller) /\ None \notin Puller
  /\ Left \in [Repo -> Puller \cup {None}]
  /\ Jobs \in [Puller -> Nat] /\ {MaxUp, MaxOwn} \subseteq Nat
  /\ Faults \in BOOLEAN

\* Mutant: the first look at HEAD comes before the lock.
EarlyStages == <<"permit", "repo", "pre", "lock", "fetch", "status", "merge", "post">>

\* What a task does, in order: the permit is run_parallel's, the rest pull_one.
Stages == <<"permit", "repo", "lock", "pre", "fetch", "status", "merge", "post">>

Answered == Len(Stages) + 1

Statuses == {"updated", "up_to_date", "skipped_dirty", "detached", "diverged",
             "lock_held", "error"}
Good == {"updated", "up_to_date"}

VARIABLES
  life,      \* of each puller
  at,        \* the number of the stage each task is at
  holder,    \* whom the lock of each repo names
  seen,      \* whom the lock named that a task has read and not acted on, or None
  stolen,    \* history: repos whose lock has been broken while its holder was at work
  remote,    \* how many commits the upstream of each repo has
  tracking,  \* how many of them have been fetched
  head,      \* the history of the branch of each repo
  tree,      \* the state of its working tree
  pre,       \* HEAD at the first look of each task
  fetched,   \* history: what the upstream had at the task's fetch
  brought,   \* history: commits the task's merge has brought
  mine,      \* history: commits the user has made since its first look
  line       \* what a pull has just printed, or None

vars == <<life, at, holder, seen, stolen, remote, tracking, head, tree,
          pre, fetched, brought, mine, line>>
locks == <<holder, seen, stolen>>
repos == <<remote, tracking, head, tree>>
notes == <<pre, fetched, brought, mine>>

TypeOK ==
  /\ life \in [Puller -> {"new", "running", "refused", "over", "killed"}]
  /\ at \in [Task -> 1 .. Answered]
  /\ holder \in [Repo -> Puller \cup {None}] /\ seen \in [Task -> Puller \cup {None}]
  /\ stolen \subseteq Repo
  /\ remote \in [Repo -> 0 .. MaxUp] /\ tracking \in [Repo -> 0 .. MaxUp]
  /\ head \in [Repo -> History] /\ tree \in [Repo -> Tree]
  /\ pre \in [Task -> History] /\ fetched \in [Task -> 0 .. MaxUp]
  /\ brought \in [Task -> 0 .. MaxUp] /\ mine \in [Task -> 0 .. MaxOwn]
  /\ line \in [task : Task, status : Statuses, commits : 0 .. MaxUp + MaxOwn] \cup {None}

\* Those that were killed before.
Dead == {Left[r] : r \in Repo} \ {None}

Root == [up |-> 0, own |-> 0]

Init ==
  /\ life = [p \in Puller |-> IF p \in Dead THEN "killed" ELSE "new"]
  /\ at = [t \in Task |-> 1]
  /\ holder = Left /\ seen = [t \in Task |-> None] /\ stolen = {}
  /\ remote = [r \in Repo |-> 0] /\ tracking = [r \in Repo |-> 0]
  /\ head = [r \in Repo |-> Root] /\ tree = [r \in Repo |-> "clean"]
  /\ pre = [t \in Task |-> Root] /\ fetched = [t \in Task |-> 0]
  /\ brought = [t \in Task |-> 0] /\ mine = [t \in Task |-> 0] /\ line = None

At(t, stage) ==
  life[t[1]] = "running" /\ at[t] \in DOMAIN Stages /\ Stages[at[t]] = stage

Proceed(t) == at' = [at EXCEPT ![t] = @ + 1] /\ line' = None

\* The task is in the middle of its work on the repo, and has a guard.
Working(t) == \E s \in {"pre", "fetch", "status", "merge", "post"} : At(t, s)

\* Mutant: the guards of a pull are kept until all its tasks are done.
Kept(t) == holder

\* The lock after the guard of the task, if it has one, is dropped: the file at
\* the path is removed, whose ever it is.
Dropped(t) == [holder EXCEPT ![t[2]] = IF Working(t) THEN None ELSE @]

\* The line is out; the guard has dropped and the permit is back.  Nobody asks
\* for the notes of the task any more.
Answer(t, status, commits) ==
  /\ line' = [task |-> t, status |-> status, commits |-> commits]
  /\ at' = [at EXCEPT ![t] = Answered]
  /\ holder' = Dropped(t) /\ seen' = [seen EXCEPT ![t] = None] /\ UNCHANGED stolen
  /\ pre' = [pre EXCEPT ![t] = Root] /\ fetched' = [fetched EXCEPT ![t] = 0]
  /\ brought' = [brought EXCEPT ![t] = 0] /\ mine' = [mine EXCEPT ![t] = 0]

----------------------------------------------------------------------------
(* A pull.                                                                 *)

\* check_workspace_lock: nothing in the program takes that lock, so it is held
\* or not; the tasks are spawned only if not.
Begin(p) ==
  /\ life[p] = "new"
  /\ \E answer \in {"running", "refused"} : life' = [life EXCEPT ![p] = answer]
  /\ line' = None
  /\ UNCHANGED <<at, locks, repos, notes>>

\* Tasks of a puller that have passed the semaphore and not returned.
Permitted(p) ==
  {r \in Repo : at[<<p, r>>] # Answered
                /\ \E i \in 1 .. at[<<p, r>>] - 1 : Stages[i] = "permit"}

Permits(p) == IF Jobs[p] = 0 THEN 1 ELSE Jobs[p]

Start(t) ==
  /\ At(t, "permit") /\ Cardinality(Permitted(t[1])) < Permits(t[1])
  /\ Proceed(t)
  /\ UNCHANGED <<life, locks, repos, notes>>

\* git::check_is_repo
CheckRepo(t) ==
  /\ At(t, "repo") /\ Proceed(t)
  /\ UNCHANGED <<life, locks, repos, notes>>

\* Mutant: a lock that somebody holds is taken all the same.
AlwaysFree(r) == TRUE

Free(r) == holder[r] = None

\* The link succeeds.
Lock(t) ==
  /\ At(t, "lock") /\ seen[t] = None /\ Free(t[2])
  /\ holder' = [holder EXCEPT ![t[2]] = t[1]]
  /\ Proceed(t)
  /\ UNCHANGED <<life, seen, stolen, repos, notes>>

\* The link fails, and the lock is read.
Read(t) ==
  /\ At(t, "lock") /\ seen[t] = None /\ holder[t[2]] # None
  /\ seen' = [seen EXCEPT ![t] = holder[t[2]]]
  /\ line' = None
  /\ UNCHANGED <<life, at, holder, stolen, repos, notes>>

\* Mutant: a lock that names another process is as good as a dead one's.
StaleIfOthers(t) == seen[t] # t[1]

\* is_stale: whom the lock named has ended, or it is misjudged.
Stale(t) == life[seen[t]] # "running" \/ t[2] \in Misjudged

InUse(r) == holder[r] # None /\ life[holder[r]] = "running"

\* What has been read is stale: what is there now is removed.  Then the link is
\* tried again.
Break(t) ==
  /\ At(t, "lock") /\ seen[t] # None /\ Stale(t)
  /\ holder' = [holder EXCEPT ![t[2]] = None]
  /\ stolen' = stolen \cup {r \in {t[2]} : InUse(r)}
  /\ seen' = [seen EXCEPT ![t] = None]
  /\ line' = None
  /\ UNCHANGED <<life, at, repos, notes>>

\* Before the deadline, the next attempt.
Poll(t) ==
  /\ At(t, "lock") /\ seen[t] # None /\ life[seen[t]] = "running"
  /\ seen' = [seen EXCEPT ![t] = None]
  /\ line' = None
  /\ UNCHANGED <<life, at, holder, stolen, repos, notes>>

\* Without --wait at once, with it at the deadline.
Denied(t) ==
  /\ At(t, "lock") /\ seen[t] # None /\ life[seen[t]] = "running"
  /\ Answer(t, "lock_held", 0)
  /\ UNCHANGED <<life, repos>>

Pre(t) ==
  /\ At(t, "pre") /\ Proceed(t)
  /\ pre' = [pre EXCEPT ![t] = head[t[2]]]
  /\ UNCHANGED <<life, locks, repos, fetched, brought, mine>>

\* git fetch: always, also if the tree turns out to be dirty.
Fetch(t) ==
  /\ At(t, "fetch") /\ Proceed(t)
  /\ tracking' = [tracking EXCEPT ![t[2]] = remote[t[2]]]
  /\ fetched' = [fetched EXCEPT ![t] = remote[t[2]]]
  /\ UNCHANGED <<life, locks, remote, head, tree, pre, brought, mine>>

Status(t) ==
  /\ At(t, "status")
  /\ \/ /\ tree[t[2]] = "clean" /\ Proceed(t)
        /\ UNCHANGED <<locks, notes>>
     \/ tree[t[2]] = "dirty" /\ Answer(t, "skipped_dirty", 0)
     \/ tree[t[2]] = "detached" /\ Answer(t, "detached", 0)
  /\ UNCHANGED <<life, repos>>

\* git merge --ff-only @{upstream}: HEAD has the upstream already, or moves to
\* it, or has commits of its own besides.  A tree that has become dirty since
\* may stop it; a detached HEAD has no upstream.
Merge(t) ==
  LET r == t[2] IN
  /\ At(t, "merge")
  /\ \/ /\ tree[r] # "detached" /\ tracking[r] <= head[r].up
        /\ Proceed(t)
        /\ UNCHANGED <<head, locks, notes>>
     \/ /\ tree[r] # "detached" /\ tracking[r] > head[r].up /\ head[r].own = 0
        /\ head' = [head EXCEPT ![r].up = tracking[r]]
        /\ brought' = [brought EXCEPT ![t] = tracking[r] - head[r].up]
        /\ Proceed(t)
        /\ UNCHANGED <<locks, pre, fetched, mine>>
     \/ /\ tree[r] # "detached" /\ tracking[r] > head[r].up /\ head[r].own > 0
        /\ Answer(t, "diverged", 0)
        /\ UNCHANGED head
     \/ /\ tree[r] # "clean"
        /\ Answer(t, "error", 0)
        /\ UNCHANGED head
  /\ UNCHANGED <<life, remote, tracking, tree>>

\* The second look at HEAD, and git rev-list --count, whose failure counts 0.
Post(t) ==
  LET post == head[t[2]]
      count == (post.up - pre[t].up) + (post.own - pre[t].own)
  IN
  /\ At(t, "post")
  /\ IF post = pre[t] THEN Answer(t, "up_to_date", 0)
     ELSE \E n \in {count} \cup {m \in {0} : Faults} : Answer(t, "updated", n)
  /\ UNCHANGED <<life, repos>>

\* Any of its git calls fails, or the lock cannot be taken for another reason.
Fail(t) ==
  /\ Faults /\ \E s \in {"repo", "lock", "pre", "fetch", "status", "merge", "post"} : At(t, s)
  /\ Answer(t, "error", 0)
  /\ UNCHANGED <<life, repos>>

\* All results are in.
Finish(p) ==
  /\ life[p] = "running" /\ \A r \in Repo : at[<<p, r>>] = Answered
  /\ life' = [life EXCEPT ![p] = "over"]
  /\ line' = None
  /\ UNCHANGED <<at, locks, repos, notes>>

\* What the tasks of a pull had, f, after it has died.
Gone(f, p, nothing) == [t \in Task |-> IF t[1] = p THEN nothing ELSE f[t]]

\* Killed: its locks stay where they are, what it knew is gone.
Kill(p) ==
  /\ life[p] = "running" /\ life' = [life EXCEPT ![p] = "killed"]
  /\ at' = Gone(at, p, 1) /\ seen' = Gone(seen, p, None)
  /\ pre' = Gone(pre, p, Root) /\ fetched' = Gone(fetched, p, 0)
  /\ brought' = Gone(brought, p, 0) /\ mine' = Gone(mine, p, 0)
  /\ line' = None
  /\ UNCHANGED <<holder, stolen, repos>>

----------------------------------------------------------------------------
(* Others.                                                                 *)

Push(r) ==
  /\ remote[r] < MaxUp /\ remote' = [remote EXCEPT ![r] = @ + 1]
  /\ line' = None
  /\ UNCHANGED <<life, at, locks, tracking, head, tree, notes>>

\* The task has looked at HEAD once, and has not looked again.
Between(t) == \E s \in {"fetch", "status", "merge", "post"} : At(t, s)

\* The user commits to the branch, at any time.
Commit(r) ==
  /\ tree[r] # "detached" /\ head[r].own < MaxOwn
  /\ head' = [head EXCEPT ![r].own = @ + 1]
  /\ mine' = [t \in Task |-> IF t[2] = r /\ Between(t) THEN mine[t] + 1 ELSE mine[t]]
  /\ line' = None
  /\ UNCHANGED <<life, at, locks, remote, tracking, tree, pre, fetched, brought>>

\* The user edits, or undoes it, or detaches HEAD where it is, or attaches it
\* again.  Checkouts of another commit while a pull runs are left out.
Edit(r) ==
  /\ \E s \in Tree \ {tree[r]} : tree' = [tree EXCEPT ![r] = s]
  /\ line' = None
  /\ UNCHANGED <<life, at, locks, remote, tracking, head, notes>>

Work(t) ==
  \/ Start(t) \/ CheckRepo(t) \/ Lock(t) \/ Read(t) \/ Break(t) \/ Poll(t)
  \/ Pre(t) \/ Fetch(t) \/ Status(t) \/ Merge(t) \/ Post(t)

Next ==
  \/ \E t \in Task : Work(t) \/ Denied(t) \/ Fail(t)
  \/ \E p \in Puller : Begin(p) \/ Finish(p) \/ Kill(p)
  \/ \E r \in Busy : Push(r) \/ Commit(r) \/ Edit(r)

Spec == Init /\ [][Next]_vars

\* Tasks are scheduled and their git calls return.  Nothing makes a pull begin,
\* a deadline pass, a call fail or a process die.
FairSpec ==
  /\ Spec
  /\ \A t \in {u \in Task : u[1] \notin Dead} : WF_vars(Work(t))
  /\ \A p \in Puller \ Dead : WF_vars(Finish(p))

----------------------------------------------------------------------------
(* Properties.                                                             *)

\* What the line says of the task: what it has brought and what the user has
\* committed since (0 also if git could not count, more if its lock was broken),
\* and that the branch has all that the upstream had at its fetch.
TrueLine(t) ==
  /\ \/ line'.commits = brought[t] + mine[t]
     \/ Faults /\ line'.commits = 0
     \/ t[2] \in stolen /\ line'.commits > brought[t] + mine[t]
  /\ line'.status = "up_to_date" => brought[t] = 0 /\ mine[t] = 0
  /\ head[t[2]].up >= fetched[t]

\* "commits_pulled" (src/README.md:157) counts the commits that this very pull
\* has brought, and, since no lock keeps the user out, those the user makes
\* between the two looks at HEAD, once each; those that another pull of the repo
\* has brought only if a lock was broken while its holder was at work.
\* "up_to_date" says that there were neither; and either line says that the
\* branch has what was fetched, with or without the lock.
LineIsTrue == [][line' # None /\ line'.status \in Good => TrueLine(line'.task)]_vars

\* The lock of a pull at work is removed only by a pull that has read the lock
\* of a third one, which has ended since (src/src/lock.rs:121-131): never while
\* just two pulls meet, unless a lock outlives its TTL or cannot be read.
BrokenOnlyInRace ==
  [][\A r \in (stolen' \ stolen) \ Misjudged :
       \E p, dead \in Puller :
         /\ {p, dead, holder[r]} \subseteq Puller /\ dead # p /\ holder[r] \notin {p, dead}
         /\ seen[<<p, r>>] = dead /\ life[dead] # "running"]_vars

\* Two pulls over the same repos, each waiting for locks with a bounded number
\* of jobs, never wait for each other: a pull that is not killed ends even if
\* no deadline ever passes (pull.rs:41, exec.rs:37).
PullEnds == \A p \in Puller \ Dead : life[p] = "running" ~> life[p] # "running"

----------------------------------------------------------------------------
(* The invariant behind LineIsTrue, part by part.                          *)

\* No task of a pull has started before the pull has, and whoever works has
\* the lock, if it was not broken.
LockInv ==
  \A t \in Task : /\ life[t[1]] = "new" => at[t] = 1
                  /\ Working(t) => holder[t[2]] = t[1] \/ t[2] \in stolen

\* A lock that names a process which runs is that of a task at work.
HolderInv ==
  \A r \in Repo : holder[r] # None =>
    /\ life[holder[r]] # "new"
    /\ life[holder[r]] = "running" => Working(<<holder[r], r>>)

\* Between its two looks HEAD moves by what the user commits and by what the
\* task itself brings, at the end, and under a broken lock by what others bring.
PreInv ==
  \A t \in Task :
    /\ at[t] # Answered - 1 => brought[t] = 0
    /\ at[t] \notin Answered - 4 .. Answered - 1 => mine[t] = 0
    /\ Between(t) =>
         /\ head[t[2]].own = pre[t].own + mine[t]
         /\ head[t[2]].up >= pre[t].up + brought[t]
         /\ t[2] \notin stolen => head[t[2]].up = pre[t].up + brought[t]

\* What has been fetched stays, and the merge takes all of it.
FetchInv ==
  /\ \A r \in Repo : tracking[r] <= remote[r]
  /\ \A t \in Task : /\ At(t, "status") \/ At(t, "merge") => fetched[t] <= tracking[t[2]]
                     /\ At(t, "post") => fetched[t] <= head[t[2]].up

IndInv == TypeOK /\ LockInv /\ HolderInv /\ PreInv /\ FetchInv
==============================================================================
