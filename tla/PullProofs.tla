------------------------------ MODULE PullProofs ------------------------------
(***************************************************************************)
(* Proofs about Pull for any number of repos, pulls and jobs: IndInv is    *)
(* inductive, and every line that gets out is true.                        *)
(***************************************************************************)
EXTENDS Pull, TLAPS

\* The stages by their numbers.
LEMMA StageNumbers ==
  /\ Answered = 9 /\ DOMAIN Stages = 1 .. 8
  /\ Stages[1] = "permit" /\ Stages[2] = "repo" /\ Stages[3] = "lock"
  /\ Stages[4] = "pre" /\ Stages[5] = "fetch" /\ Stages[6] = "status"
  /\ Stages[7] = "merge" /\ Stages[8] = "post"
BY DEF Answered, Stages

\* Where a task is, by number.
LEMMA AtNumbers ==
  ASSUME TypeOK, NEW t \in Task
  PROVE  /\ At(t, "permit") <=> life[t[1]] = "running" /\ at[t] = 1
         /\ At(t, "repo") <=> life[t[1]] = "running" /\ at[t] = 2
         /\ At(t, "lock") <=> life[t[1]] = "running" /\ at[t] = 3
         /\ At(t, "pre") <=> life[t[1]] = "running" /\ at[t] = 4
         /\ At(t, "fetch") <=> life[t[1]] = "running" /\ at[t] = 5
         /\ At(t, "status") <=> life[t[1]] = "running" /\ at[t] = 6
         /\ At(t, "merge") <=> life[t[1]] = "running" /\ at[t] = 7
         /\ At(t, "post") <=> life[t[1]] = "running" /\ at[t] = 8
BY StageNumbers DEF At, TypeOK

\* A task is the pair of its puller and its repo.
LEMMA TaskParts ==
  /\ \A t \in Task : t[1] \in Puller /\ t[2] \in Repo
  /\ \A t, u \in Task : t[1] = u[1] /\ t[2] = u[2] => t = u
  /\ \A p \in Puller, r \in Repo : <<p, r>> \in Task /\ <<p, r>>[1] = p /\ <<p, r>>[2] = r
BY DEF Task

\* The invariant of one task, and of one lock, by number.
Live(t) == life[t[1]] = "running"
Sane(t) ==
  /\ life[t[1]] = "new" => at[t] = 1
  /\ Live(t) /\ at[t] \in 4 .. 8 => holder[t[2]] = t[1] \/ t[2] \in stolen
  /\ at[t] # 8 => brought[t] = 0
  /\ at[t] \notin 5 .. 8 => mine[t] = 0
  /\ Live(t) /\ at[t] \in 5 .. 8 =>
       /\ head[t[2]].own = pre[t].own + mine[t]
       /\ head[t[2]].up >= pre[t].up + brought[t]
       /\ t[2] \notin stolen => head[t[2]].up = pre[t].up + brought[t]
  /\ Live(t) /\ at[t] \in 6 .. 7 => fetched[t] <= tracking[t[2]]
  /\ Live(t) /\ at[t] = 8 => fetched[t] <= head[t[2]].up

Held(r) ==
  holder[r] # None =>
    /\ life[holder[r]] # "new"
    /\ life[holder[r]] = "running" => at[<<holder[r], r>>] \in 4 .. 8

FetchedBehind == \A r \in Repo : tracking[r] <= remote[r]

LEMMA WorkingNumbers ==
  ASSUME TypeOK, NEW t \in Task
  PROVE  /\ Working(t) <=> Live(t) /\ at[t] \in 4 .. 8
         /\ Between(t) <=> Live(t) /\ at[t] \in 5 .. 8
<1>1. at[t] \in 1 .. 9
  BY StageNumbers DEF TypeOK
<1> QED
  BY <1>1, AtNumbers DEF Working, Between, Live

LEMMA ByNumbers ==
  ASSUME TypeOK
  PROVE  IndInv <=> FetchedBehind /\ (\A t \in Task : Sane(t)) /\ \A r \in Repo : Held(r)
<1>1. ASSUME NEW t \in Task
      PROVE  Sane(t) <=>
               /\ life[t[1]] = "new" => at[t] = 1
               /\ Working(t) => holder[t[2]] = t[1] \/ t[2] \in stolen
               /\ at[t] # Answered - 1 => brought[t] = 0
               /\ at[t] \notin Answered - 4 .. Answered - 1 => mine[t] = 0
               /\ Between(t) =>
                    /\ head[t[2]].own = pre[t].own + mine[t]
                    /\ head[t[2]].up >= pre[t].up + brought[t]
                    /\ t[2] \notin stolen => head[t[2]].up = pre[t].up + brought[t]
               /\ At(t, "status") \/ At(t, "merge") => fetched[t] <= tracking[t[2]]
               /\ At(t, "post") => fetched[t] <= head[t[2]].up
  <2>1. at[t] \in 1 .. 9
    BY StageNumbers DEF TypeOK
  <2> QED
    BY <2>1, WorkingNumbers, AtNumbers, StageNumbers DEF Sane, Live
<1>2. ASSUME NEW r \in Repo
      PROVE  Held(r) <=> (holder[r] # None =>
                            /\ life[holder[r]] # "new"
                            /\ life[holder[r]] = "running" => Working(<<holder[r], r>>))
  <2>1. ASSUME holder[r] # None PROVE <<holder[r], r>> \in Task /\ <<holder[r], r>>[1] = holder[r]
    BY <2>1, TaskParts DEF TypeOK
  <2> QED
    BY <2>1, WorkingNumbers DEF Held, Live
<1>3. IndInv <=> LockInv /\ HolderInv /\ PreInv /\ FetchInv
  BY DEF IndInv
<1>4. HolderInv <=> \A r \in Repo : Held(r)
  BY <1>2 DEF HolderInv
<1>5. LockInv /\ PreInv /\ FetchInv <=> FetchedBehind /\ \A t \in Task : Sane(t)
  BY <1>1 DEF LockInv, PreInv, FetchInv, FetchedBehind
<1> QED
  BY <1>3, <1>4, <1>5

----------------------------------------------------------------------------
(* Types.                                                                  *)

LEMMA AnswerTypes ==
  ASSUME TypeOK, NEW t \in Task, NEW status \in Statuses,
         NEW n \in 0 .. MaxUp + MaxOwn, Answer(t, status, n), UNCHANGED <<life, repos>>
  PROVE  TypeOK'
<1>1. Answered \in 1 .. Answered /\ Root \in History
  BY StageNumbers, PullAssumption DEF Root, History
<1>2. line' \in [task : Task, status : Statuses, commits : 0 .. MaxUp + MaxOwn]
  BY DEF Answer
<1>3. holder' \in [Repo -> Puller \cup {None}]
  BY TaskParts DEF Answer, Dropped, TypeOK
<1>4. pre' \in [Task -> History] /\ fetched' \in [Task -> 0 .. MaxUp]
      /\ brought' \in [Task -> 0 .. MaxUp] /\ mine' \in [Task -> 0 .. MaxOwn]
  BY <1>1, PullAssumption DEF Answer, TypeOK
<1>5. at' \in [Task -> 1 .. Answered] /\ seen' \in [Task -> Puller \cup {None}]
  BY <1>1 DEF Answer, TypeOK
<1> QED
  BY <1>2, <1>3, <1>4, <1>5 DEF TypeOK, Answer, repos

LEMMA ProceedTypes ==
  ASSUME TypeOK, NEW t \in Task, at[t] \in 1 .. 8, Proceed(t)
  PROVE  at' \in [Task -> 1 .. Answered] /\ line' = None
BY StageNumbers DEF Proceed, TypeOK

\* A task that proceeds moves on by one stage, alone.
LEMMA Proceeds ==
  ASSUME TypeOK, NEW t \in Task, Proceed(t)
  PROVE  at'[t] = at[t] + 1 /\ \A u \in Task : u # t => at'[u] = at[u]
BY DEF Proceed, TypeOK

LEMMA TypeStep == IndInv /\ [Next]_vars => TypeOK'
<1> SUFFICES ASSUME IndInv, [Next]_vars PROVE TypeOK'
  OBVIOUS
<1>0. TypeOK /\ \A t \in Task : Sane(t)
  BY ByNumbers DEF IndInv
<1>1. ASSUME NEW t \in Task, Work(t) \/ Denied(t) \/ Fail(t) PROVE TypeOK'
  <2> USE TaskParts
  <2>1. CASE Start(t) \/ CheckRepo(t)
    <3>1. at[t] \in 1 .. 8 /\ Proceed(t)
      BY <1>0, <2>1, AtNumbers DEF Start, CheckRepo
    <3> QED
      BY <1>0, <2>1, <3>1, ProceedTypes DEF Start, CheckRepo, TypeOK, locks, repos, notes
  <2>2. CASE Lock(t)
    <3>1. at[t] \in 1 .. 8 /\ Proceed(t)
      BY <1>0, <2>2, AtNumbers DEF Lock
    <3> QED
      BY <1>0, <2>2, <3>1, ProceedTypes DEF Lock, TypeOK, repos, notes
  <2>10. CASE Read(t) \/ Break(t) \/ Poll(t)
    BY <1>0, <2>10 DEF Read, Break, Poll, TypeOK, repos, notes
  <2>3. CASE Denied(t)
    BY <1>0, <2>3, AnswerTypes, PullAssumption DEF Denied, Statuses
  <2>4. CASE Pre(t)
    <3>1. at[t] \in 1 .. 8 /\ Proceed(t)
      BY <1>0, <2>4, AtNumbers DEF Pre
    <3> QED
      BY <1>0, <2>4, <3>1, ProceedTypes DEF Pre, TypeOK, locks, repos
  <2>5. CASE Fetch(t)
    <3>1. at[t] \in 1 .. 8 /\ Proceed(t)
      BY <1>0, <2>5, AtNumbers DEF Fetch
    <3> QED
      BY <1>0, <2>5, <3>1, ProceedTypes DEF Fetch, TypeOK, locks
  <2>6. CASE Status(t)
    <3>1. CASE Proceed(t) /\ UNCHANGED <<locks, notes>>
      <4>1. at[t] \in 1 .. 8
        BY <1>0, <2>6, AtNumbers DEF Status
      <4> QED
        BY <1>0, <2>6, <3>1, <4>1, ProceedTypes DEF Status, TypeOK, locks, repos, notes
    <3>2. CASE Answer(t, "skipped_dirty", 0) \/ Answer(t, "detached", 0)
      BY <1>0, <2>6, <3>2, AnswerTypes, PullAssumption DEF Status, Statuses
    <3> QED
      BY <2>6, <3>1, <3>2 DEF Status
  <2>7. CASE Merge(t)
    <3>1. CASE Answer(t, "diverged", 0) /\ UNCHANGED head
      BY <1>0, <2>7, <3>1, AnswerTypes, PullAssumption DEF Merge, Statuses, repos
    <3>2. CASE Answer(t, "error", 0) /\ UNCHANGED head
      BY <1>0, <2>7, <3>2, AnswerTypes, PullAssumption DEF Merge, Statuses, repos
    <3>3. CASE Proceed(t) /\ UNCHANGED <<head, locks, notes>>
      <4>1. at[t] \in 1 .. 8
        BY <1>0, <2>7, AtNumbers DEF Merge
      <4> QED
        BY <1>0, <2>7, <3>3, <4>1, ProceedTypes DEF Merge, TypeOK, locks, notes
    <3>4. CASE /\ tracking[t[2]] > head[t[2]].up
               /\ head' = [head EXCEPT ![t[2]].up = tracking[t[2]]]
               /\ brought' = [brought EXCEPT ![t] = tracking[t[2]] - head[t[2]].up]
               /\ Proceed(t)
               /\ UNCHANGED <<locks, pre, fetched, mine>>
      <4>1. at[t] \in 1 .. 8
        BY <1>0, <2>7, AtNumbers DEF Merge
      <4>2. head' \in [Repo -> History]
        <5>1. /\ t[2] \in Repo /\ head \in [Repo -> History]
              /\ head[t[2]] \in History /\ tracking[t[2]] \in 0 .. MaxUp
          BY <1>0 DEF TypeOK
        <5>2. [head[t[2]] EXCEPT !.up = tracking[t[2]]] \in History
          BY <5>1 DEF History
        <5>3. head' = [head EXCEPT ![t[2]] = [head[t[2]] EXCEPT !.up = tracking[t[2]]]]
          BY <3>4
        <5> QED
          BY <5>1, <5>2, <5>3
      <4>3. tracking[t[2]] - head[t[2]].up \in 0 .. MaxUp
        BY <1>0, <3>4, PullAssumption DEF TypeOK, History
      <4>4. brought' \in [Task -> 0 .. MaxUp]
        BY <1>0, <3>4, <4>3 DEF TypeOK
      <4> QED
        BY <1>0, <2>7, <3>4, <4>1, <4>2, <4>4, ProceedTypes DEF Merge, TypeOK, locks
    <3> QED
      BY <2>7, <3>1, <3>2, <3>3, <3>4 DEF Merge
  <2>8. CASE Post(t)
    <3>1. /\ head[t[2]].own = pre[t].own + mine[t]
          /\ head[t[2]].up >= pre[t].up + brought[t]
      BY <1>0, <2>8, AtNumbers DEF Post, Sane, Live
    <3>2. (head[t[2]].up - pre[t].up) + (head[t[2]].own - pre[t].own) \in 0 .. MaxUp + MaxOwn
      BY <1>0, <3>1, PullAssumption DEF TypeOK, History
    <3>3. \E s \in Statuses : \E n \in 0 .. MaxUp + MaxOwn : Answer(t, s, n)
      BY <2>8, <3>2, PullAssumption DEF Post, Statuses
    <3> QED
      BY <1>0, <2>8, <3>3, AnswerTypes DEF Post
  <2>9. CASE Fail(t)
    BY <1>0, <2>9, AnswerTypes, PullAssumption DEF Fail, Statuses
  <2> QED
    BY <1>1, <2>1, <2>2, <2>3, <2>4, <2>5, <2>6, <2>7, <2>8, <2>9, <2>10 DEF Work
<1>2. ASSUME NEW p \in Puller, Begin(p) \/ Finish(p) \/ Kill(p) PROVE TypeOK'
  <2>1. CASE Begin(p) \/ Finish(p)
    BY <1>0, <2>1 DEF Begin, Finish, TypeOK, locks, repos, notes
  <2>2. CASE Kill(p)
    <3>1. 1 \in 1 .. Answered /\ Root \in History /\ 0 \in 0 .. MaxUp /\ 0 \in 0 .. MaxOwn
      BY StageNumbers, PullAssumption DEF Root, History
    <3>2. at' \in [Task -> 1 .. Answered] /\ seen' \in [Task -> Puller \cup {None}]
      BY <1>0, <2>2, <3>1 DEF Kill, Gone, TypeOK
    <3>3. pre' \in [Task -> History] /\ fetched' \in [Task -> 0 .. MaxUp]
      BY <1>0, <2>2, <3>1 DEF Kill, Gone, TypeOK
    <3>4. brought' \in [Task -> 0 .. MaxUp] /\ mine' \in [Task -> 0 .. MaxOwn]
      BY <1>0, <2>2, <3>1 DEF Kill, Gone, TypeOK
    <3>5. life' \in [Puller -> {"new", "running", "refused", "over", "killed"}]
      BY <1>0, <2>2 DEF Kill, TypeOK
    <3> QED
      BY <1>0, <2>2, <3>2, <3>3, <3>4, <3>5 DEF Kill, TypeOK, repos
  <2> QED
    BY <1>2, <2>1, <2>2
<1>3. ASSUME NEW r \in Busy, Push(r) \/ Commit(r) \/ Edit(r) PROVE TypeOK'
  <2> USE PullAssumption DEF TypeOK, History, locks, notes
  <2>1. CASE Push(r)
    BY <1>0, <1>3, <2>1 DEF Push
  <2>2. CASE Commit(r)
    <3>1. head' \in [Repo -> History]
      <4>1. r \in Repo /\ head \in [Repo -> History] /\ head[r] \in History
        BY <1>0, <1>3
      <4>2. [head[r] EXCEPT !.own = head[r].own + 1] \in History
        BY <2>2, <4>1 DEF Commit
      <4>3. head' = [head EXCEPT ![r] = [head[r] EXCEPT !.own = head[r].own + 1]]
        BY <2>2 DEF Commit
      <4> HIDE DEF History
      <4> QED
        BY <4>1, <4>2, <4>3
    <3>2. ASSUME NEW t \in Task, t[2] = r, Between(t) PROVE mine[t] + 1 \in 0 .. MaxOwn
      <4>1. Sane(t) /\ Live(t) /\ at[t] \in 5 .. 8
        BY <1>0, <3>2, AtNumbers DEF Between, Live
      <4>2. head[r].own = pre[t].own + mine[t] /\ head[r].own < MaxOwn
        BY <2>2, <3>2, <4>1 DEF Sane, Commit
      <4>3. pre[t].own \in Nat /\ mine[t] \in Nat /\ head[r].own \in Nat /\ MaxOwn \in Nat
        BY <1>0, <1>3
      <4> QED
        BY <4>2, <4>3
    <3>3. mine' \in [Task -> 0 .. MaxOwn]
      BY <1>0, <2>2, <3>2 DEF Commit
    <3> QED
      BY <1>0, <2>2, <3>1, <3>3 DEF Commit
  <2>3. CASE Edit(r)
    BY <1>0, <1>3, <2>3 DEF Edit
  <2> QED
    BY <1>3, <2>1, <2>2, <2>3
<1>4. CASE UNCHANGED vars
  BY <1>0, <1>4 DEF vars, TypeOK
<1> QED
  BY <1>1, <1>2, <1>3, <1>4 DEF Next

----------------------------------------------------------------------------
(* Tasks stay sane.                                                        *)

\* Two live tasks that work on the same repo are the same, or its lock was broken.
LEMMA Alone ==
  ASSUME NEW t \in Task, NEW u \in Task, Sane(t), Sane(u), t[2] = u[2],
         Live(t), Live(u), at[t] \in 4 .. 8, at[u] \in 4 .. 8
  PROVE  t = u \/ t[2] \in stolen
BY TaskParts DEF Sane

\* An answer leaves a task with nothing to be sane about, and the others alone.
LEMMA AnswerSane ==
  ASSUME TypeOK, NEW t \in Task, Live(t), NEW status, NEW n, Answer(t, status, n),
         UNCHANGED <<life, repos>>, NEW u \in Task, \A v \in Task : Sane(v),
         at[t] \in 2 .. 8
  PROVE  Sane(u)'
<1>1. CASE u = t
  <2>1. /\ at'[u] = 9 /\ life' = life /\ life[u[1]] # "new"
        /\ brought'[u] = 0 /\ mine'[u] = 0
    BY <1>1, StageNumbers DEF Answer, TypeOK, Live
  <2> QED
    BY <2>1 DEF Sane, Live
<1>2. CASE u # t
  <2>1. /\ at'[u] = at[u] /\ pre'[u] = pre[u] /\ fetched'[u] = fetched[u]
        /\ brought'[u] = brought[u] /\ mine'[u] = mine[u]
    BY <1>2 DEF Answer, TypeOK
  <2>2. UNCHANGED <<life, remote, tracking, head, tree, stolen>>
    BY DEF repos, Answer
  <2>3. Live(u) /\ at[u] \in 4 .. 8 => holder'[u[2]] = u[1] \/ u[2] \in stolen
    <3> SUFFICES ASSUME Live(u), at[u] \in 4 .. 8, u[2] \notin stolen PROVE holder'[u[2]] = u[1]
      OBVIOUS
    <3>1. holder[u[2]] = u[1] /\ u[2] \in Repo
      BY TaskParts DEF Sane
    <3>2. CASE u[2] # t[2]
      BY <3>1, <3>2, TaskParts DEF Answer, Dropped, TypeOK
    <3>3. CASE u[2] = t[2]
      <4>1. ~Working(t)
        BY <1>2, <3>3, Alone, WorkingNumbers
      <4> QED
        BY <3>1, <3>3, <4>1, TaskParts DEF Answer, Dropped, TypeOK
    <3> QED
      BY <3>2, <3>3
  <2> QED
    BY <2>1, <2>2, <2>3 DEF Sane, Live
<1> QED
  BY <1>1, <1>2

\* What a merge that succeeds does.
LEMMA MergeProceeds ==
  ASSUME TypeOK, NEW t \in Task, Sane(t), Merge(t), Proceed(t)
  PROVE  /\ at[t] = 7 /\ Live(t) /\ Proceed(t)
         /\ UNCHANGED <<life, remote, tracking, locks, pre, fetched, mine>>
         /\ \A r \in Repo : r # t[2] => head'[r] = head[r]
         /\ head'[t[2]] = [up |-> head[t[2]].up + brought'[t], own |-> head[t[2]].own]
         /\ head'[t[2]].up \in Int /\ brought'[t] \in Nat /\ tracking[t[2]] <= head'[t[2]].up
         /\ \A u \in Task : u # t => brought'[u] = brought[u]
<1>1. at[t] = 7 /\ Live(t) /\ at'[t] = 8
  BY AtNumbers, Proceeds DEF Merge, Live
<1>2. brought[t] = 0 /\ t[2] \in Repo /\ head[t[2]] \in History
  BY <1>1, TaskParts DEF Sane, TypeOK
<1>3. ~\E s \in Statuses : Answer(t, s, 0)
  BY <1>1, StageNumbers DEF Answer, TypeOK
<1>4. CASE tracking[t[2]] <= head[t[2]].up /\ UNCHANGED <<head, locks, notes>>
  BY <1>1, <1>2, <1>4 DEF Merge, notes, History, TypeOK
<1>5. CASE /\ tracking[t[2]] > head[t[2]].up
           /\ head' = [head EXCEPT ![t[2]].up = tracking[t[2]]]
           /\ brought' = [brought EXCEPT ![t] = tracking[t[2]] - head[t[2]].up]
           /\ UNCHANGED <<locks, pre, fetched, mine>>
  <2>1. head'[t[2]] = [up |-> tracking[t[2]], own |-> head[t[2]].own]
    BY <1>2, <1>5 DEF TypeOK, History
  <2>2. brought'[t] = tracking[t[2]] - head[t[2]].up /\ tracking[t[2]] \in Int
    BY <1>2, <1>5 DEF TypeOK
  <2> QED
    BY <1>1, <1>2, <1>5, <2>1, <2>2 DEF Merge, History, TypeOK
<1> QED
  BY <1>3, <1>4, <1>5 DEF Merge, Statuses

\* A task answers when it has its permit, and is not at work any more then.
LEMMA AnswersLate ==
  ASSUME TypeOK, NEW t \in Task, Work(t) \/ Denied(t) \/ Fail(t), NEW s \in Statuses,
         NEW n \in Int, Answer(t, s, n)
  PROVE  Live(t) /\ at[t] \in 2 .. 8
<1>1. at'[t] = 9
  BY StageNumbers DEF Answer, TypeOK
<1>2. ~Start(t)
  BY <1>1, AtNumbers DEF Start, Proceed, TypeOK
<1> QED
  BY <1>2, AtNumbers DEF Work, CheckRepo, Lock, Read, Break, Poll, Pre, Fetch, Status, Merge, Post, Denied, Fail, Live

\* A step of a task is one of these.
LEMMA ProceedsOrAnswers ==
  ASSUME TypeOK, NEW t \in Task, Work(t) \/ Denied(t) \/ Fail(t)
  PROVE  \/ Start(t) \/ CheckRepo(t) \/ Lock(t) \/ Read(t) \/ Poll(t) \/ Break(t)
         \/ Pre(t) \/ Fetch(t)
         \/ Status(t) /\ Proceed(t) /\ UNCHANGED <<locks, notes>>
         \/ Merge(t) /\ Proceed(t)
         \/ \E s \in Statuses : \E n \in Int : Answer(t, s, n) /\ UNCHANGED <<life, repos>>
<1>1. CASE Status(t)
  BY <1>1 DEF Status, Statuses
<1>2. CASE Merge(t)
  BY <1>2 DEF Merge, Statuses, repos
<1>3. CASE Post(t)
  BY <1>3, TaskParts DEF Post, Statuses, TypeOK, History
<1>4. CASE Denied(t) \/ Fail(t)
  BY <1>4 DEF Denied, Fail, Statuses
<1> QED
  BY <1>1, <1>2, <1>3, <1>4 DEF Work

LEMMA SaneStep ==
  ASSUME IndInv, [Next]_vars
  PROVE  FetchedBehind' /\ \A u \in Task : Sane(u)'
<1>0. TypeOK /\ FetchedBehind /\ \A t \in Task : Sane(t)
  BY ByNumbers DEF IndInv
<1>1. ASSUME NEW t \in Task, Work(t) \/ Denied(t) \/ Fail(t)
      PROVE  FetchedBehind' /\ \A u \in Task : Sane(u)'
  <2>0. Sane(t)
    BY <1>0
  <2>1. CASE Start(t) \/ CheckRepo(t)
    <3>1. /\ at[t] \in 1 .. 2 /\ Live(t) /\ Proceed(t)
          /\ UNCHANGED <<life, locks, repos, notes>>
      BY <1>0, <2>1, AtNumbers DEF Start, CheckRepo, Live
    <3>2. ASSUME NEW u \in Task PROVE Sane(u)'
      <4>1. UNCHANGED <<life, holder, stolen, head, tracking, pre, fetched, brought, mine>>
        BY <3>1 DEF locks, repos, notes
      <4>2. CASE u = t
        <5>1. at'[u] \in 2 .. 3
          BY <1>0, <3>1, Proceeds, <4>2 DEF TypeOK
        <5>2. brought[u] = 0 /\ mine[u] = 0 /\ life[u[1]] = "running"
          BY <2>0, <3>1, <4>2 DEF Sane, Live
        <5> QED
          BY <4>1, <5>1, <5>2 DEF Sane, Live
      <4>3. CASE u # t
        <5>1. at'[u] = at[u]
          BY <1>0, <3>1, Proceeds, <4>3 DEF TypeOK
        <5> QED
          BY <1>0, <4>1, <5>1 DEF Sane, Live
      <4> QED
        BY <4>2, <4>3
    <3> QED
      BY <1>0, <3>1, <3>2 DEF FetchedBehind, repos
  <2>2. CASE Lock(t)
    <3>1. /\ at[t] = 3 /\ Live(t) /\ Proceed(t) /\ Free(t[2])
          /\ holder' = [holder EXCEPT ![t[2]] = t[1]]
          /\ UNCHANGED <<life, stolen, repos, notes>>
      BY <1>0, <2>2, AtNumbers DEF Lock, Live
    <3>2. ASSUME NEW u \in Task PROVE Sane(u)'
      <4>1. UNCHANGED <<life, stolen, head, tracking, pre, fetched, brought, mine>>
        BY <3>1 DEF repos, notes
      <4>2. CASE u = t
        <5>1. at'[u] = 4 /\ holder'[u[2]] = u[1]
          BY <1>0, <3>1, Proceeds, <4>2, TaskParts DEF TypeOK
        <5>2. brought[u] = 0 /\ mine[u] = 0 /\ life[u[1]] = "running"
          BY <2>0, <3>1, <4>2 DEF Sane, Live
        <5> QED
          BY <4>1, <5>1, <5>2 DEF Sane, Live
      <4>3. CASE u # t
        <5>1. at'[u] = at[u]
          BY <1>0, <3>1, Proceeds, <4>3 DEF TypeOK
        <5>2. Live(u) /\ at[u] \in 4 .. 8 => holder'[u[2]] = u[1] \/ u[2] \in stolen
          <6> SUFFICES ASSUME Live(u), at[u] \in 4 .. 8, u[2] \notin stolen
                       PROVE  holder'[u[2]] = u[1]
            OBVIOUS
          <6>1. holder[u[2]] = u[1] /\ u[1] \in Puller
            BY <1>0, TaskParts DEF Sane, Live
          <6>2. u[2] # t[2]
            BY <3>1, <6>1, PullAssumption DEF Free
          <6> QED
            BY <1>0, <3>1, <6>1, <6>2, TaskParts DEF TypeOK
        <5> QED
          BY <1>0, <4>1, <5>1, <5>2 DEF Sane, Live
      <4> QED
        BY <4>2, <4>3
    <3> QED
      BY <1>0, <3>1, <3>2 DEF FetchedBehind, repos
  <2>8. CASE Read(t) \/ Poll(t)
    <3>1. UNCHANGED <<life, at, holder, stolen, remote, head, tracking, pre, fetched, brought, mine>>
      BY <2>8 DEF Read, Poll, repos, notes
    <3> QED
      BY <1>0, <3>1 DEF FetchedBehind, Sane, Live
  <2>9. CASE Break(t)
    <3>1. /\ UNCHANGED <<life, at, remote, head, tracking, pre, fetched, brought, mine>>
          /\ holder' = [holder EXCEPT ![t[2]] = None]
          /\ stolen' = stolen \cup {r \in {t[2]} : InUse(r)}
      BY <2>9 DEF Break, repos, notes
    <3>2. ASSUME NEW u \in Task PROVE Sane(u)'
      <4>1. Live(u) /\ at[u] \in 4 .. 8 => holder'[u[2]] = u[1] \/ u[2] \in stolen'
        <5> SUFFICES ASSUME Live(u), at[u] \in 4 .. 8, u[2] \notin stolen'
                     PROVE  holder'[u[2]] = u[1]
          OBVIOUS
        <5>1. holder[u[2]] = u[1] /\ life[u[1]] = "running" /\ u[1] \in Puller
          BY <1>0, <3>1, TaskParts DEF Sane, Live
        <5>2. u[2] # t[2]
          BY <3>1, <5>1, PullAssumption DEF InUse
        <5> QED
          BY <1>0, <3>1, <5>1, <5>2, TaskParts DEF TypeOK
      <4>2. u[2] \notin stolen' => u[2] \notin stolen
        BY <3>1
      <4> QED
        BY <1>0, <3>1, <4>1, <4>2 DEF Sane, Live
    <3> QED
      BY <1>0, <3>1, <3>2 DEF FetchedBehind
  <2>3. CASE Pre(t)
    <3>1. /\ at[t] = 4 /\ Live(t) /\ Proceed(t)
          /\ pre' = [pre EXCEPT ![t] = head[t[2]]]
          /\ UNCHANGED <<life, locks, repos, fetched, brought, mine>>
      BY <1>0, <2>3, AtNumbers DEF Pre, Live
    <3>2. UNCHANGED <<head, remote, tracking, holder, stolen>>
      BY <3>1 DEF locks, repos
    <3>3. ASSUME NEW u \in Task PROVE Sane(u)'
      <4>1. CASE u = t
        <5>1. at'[u] = 5 /\ pre'[u] = head[u[2]]
          BY <1>0, <3>1, Proceeds, <4>1 DEF TypeOK
        <5>2. /\ brought[u] = 0 /\ mine[u] = 0 /\ life[u[1]] = "running"
              /\ holder[u[2]] = u[1] \/ u[2] \in stolen
          BY <2>0, <3>1, <4>1 DEF Sane, Live
        <5>3. /\ head[u[2]].up = head[u[2]].up + brought[u]
              /\ head[u[2]].up >= head[u[2]].up + brought[u]
              /\ head[u[2]].own = head[u[2]].own + mine[u]
          BY <1>0, <5>2, TaskParts DEF TypeOK, History
        <5> QED
          BY <3>1, <3>2, <5>1, <5>2, <5>3 DEF Sane, Live
      <4>2. CASE u # t
        <5>1. at'[u] = at[u] /\ pre'[u] = pre[u]
          BY <1>0, <3>1, Proceeds, <4>2 DEF TypeOK
        <5> QED
          BY <1>0, <3>1, <3>2, <5>1 DEF Sane, Live
      <4> QED
        BY <4>1, <4>2
    <3> QED
      BY <1>0, <3>2, <3>3 DEF FetchedBehind
  <2>4. CASE Fetch(t)
    <3>1. /\ at[t] = 5 /\ Live(t) /\ Proceed(t)
          /\ tracking' = [tracking EXCEPT ![t[2]] = remote[t[2]]]
          /\ fetched' = [fetched EXCEPT ![t] = remote[t[2]]]
          /\ UNCHANGED <<life, holder, stolen, remote, head, pre, brought, mine>>
      BY <1>0, <2>4, AtNumbers DEF Fetch, Live, locks
    <3>2. \A r \in Repo : tracking[r] <= tracking'[r] /\ tracking'[r] <= remote[r]
      BY <1>0, <3>1, TaskParts DEF TypeOK, FetchedBehind
    <3>3. ASSUME NEW u \in Task PROVE Sane(u)'
      <4>1. CASE u = t
        <5>1. at'[u] = 6 /\ fetched'[u] = tracking'[u[2]]
          BY <1>0, <3>1, Proceeds, <4>1, TaskParts DEF TypeOK
        <5>2. /\ brought[u] = 0 /\ life[u[1]] = "running"
              /\ holder[u[2]] = u[1] \/ u[2] \in stolen
              /\ head[u[2]].own = pre[u].own + mine[u]
              /\ head[u[2]].up >= pre[u].up + brought[u]
              /\ u[2] \notin stolen => head[u[2]].up = pre[u].up + brought[u]
          BY <2>0, <3>1, <4>1 DEF Sane, Live
        <5>3. fetched'[u] <= tracking'[u[2]]
          BY <1>0, <3>1, <4>1, <5>1, TaskParts DEF TypeOK
        <5> QED
          BY <3>1, <5>1, <5>2, <5>3 DEF Sane, Live
      <4>2. CASE u # t
        <5>1. at'[u] = at[u] /\ fetched'[u] = fetched[u]
          BY <1>0, <3>1, Proceeds, <4>2 DEF TypeOK
        <5>2. fetched[u] <= tracking[u[2]] => fetched'[u] <= tracking'[u[2]]
          <6>1. fetched[u] \in Int /\ tracking[u[2]] \in Int /\ tracking'[u[2]] \in Int
            BY <1>0, <3>1, TaskParts DEF TypeOK
          <6>2. tracking[u[2]] <= tracking'[u[2]]
            BY <3>2, TaskParts
          <6> QED
            BY <5>1, <6>1, <6>2
        <5> QED
          BY <1>0, <3>1, <5>1, <5>2 DEF Sane, Live
      <4> QED
        BY <4>1, <4>2
    <3> QED
      BY <3>1, <3>2, <3>3 DEF FetchedBehind
  <2>5. CASE Status(t) /\ Proceed(t) /\ UNCHANGED <<locks, notes>>
    <3>1. /\ at[t] = 6 /\ Live(t) /\ Proceed(t)
          /\ UNCHANGED <<life, remote, tracking, head, holder, stolen, pre, fetched, brought, mine>>
      BY <1>0, <2>5, AtNumbers DEF Status, Live, locks, repos, notes
    <3>2. ASSUME NEW u \in Task PROVE Sane(u)'
      <4>1. CASE u = t
        <5>1. at'[u] = 7
          BY <1>0, <3>1, Proceeds, <4>1 DEF TypeOK
        <5>2. /\ brought[u] = 0 /\ life[u[1]] = "running"
              /\ holder[u[2]] = u[1] \/ u[2] \in stolen
              /\ head[u[2]].own = pre[u].own + mine[u]
              /\ head[u[2]].up >= pre[u].up + brought[u]
              /\ u[2] \notin stolen => head[u[2]].up = pre[u].up + brought[u]
              /\ fetched[u] <= tracking[u[2]]
          BY <2>0, <3>1, <4>1 DEF Sane, Live
        <5> QED
          BY <3>1, <5>1, <5>2 DEF Sane, Live
      <4>2. CASE u # t
        <5>1. at'[u] = at[u]
          BY <1>0, <3>1, Proceeds, <4>2 DEF TypeOK
        <5> QED
          BY <1>0, <3>1, <5>1 DEF Sane, Live
      <4> QED
        BY <4>1, <4>2
    <3> QED
      BY <1>0, <3>1, <3>2 DEF FetchedBehind
  <2>6. CASE Merge(t) /\ Proceed(t)
    <3>1. /\ at[t] = 7 /\ Live(t) /\ Proceed(t)
          /\ UNCHANGED <<life, remote, tracking, holder, stolen, pre, fetched, mine>>
      BY <1>0, <2>6, MergeProceeds DEF locks
    <3>2. /\ \A r \in Repo : r # t[2] => head'[r] = head[r]
          /\ head'[t[2]] = [up |-> head[t[2]].up + brought'[t], own |-> head[t[2]].own]
          /\ tracking[t[2]] <= head'[t[2]].up /\ brought'[t] \in Nat
          /\ \A u \in Task : u # t => brought'[u] = brought[u]
      BY <1>0, <2>6, MergeProceeds
    <3>3. ASSUME NEW u \in Task PROVE Sane(u)'
      <4>1. CASE u = t
        <5>1. at'[u] = 8
          BY <1>0, <3>1, Proceeds, <4>1 DEF TypeOK
        <5>2. /\ brought[u] = 0 /\ life[u[1]] = "running"
              /\ holder[u[2]] = u[1] \/ u[2] \in stolen
              /\ head[u[2]].own = pre[u].own + mine[u]
              /\ head[u[2]].up >= pre[u].up + brought[u]
              /\ u[2] \notin stolen => head[u[2]].up = pre[u].up + brought[u]
              /\ fetched[u] <= tracking[u[2]]
          BY <2>0, <3>1, <4>1 DEF Sane, Live
        <5>3. fetched[u] <= head'[u[2]].up
          BY <1>0, <3>2, <4>1, <5>2, MergeProceeds, <2>6, TaskParts DEF TypeOK
        <5>4. /\ head'[u[2]].own = pre[u].own + mine[u]
              /\ head'[u[2]].up >= pre[u].up + brought'[u]
              /\ u[2] \notin stolen => head'[u[2]].up = pre[u].up + brought'[u]
          <6>1. pre[u].up \in Nat /\ head[u[2]].up \in Nat
            BY <1>0, TaskParts DEF TypeOK, History
          <6>2. /\ head'[u[2]].up = head[u[2]].up + brought'[u] /\ brought'[u] \in Nat
                /\ head'[u[2]].own = head[u[2]].own
            BY <3>2, <4>1
          <6> QED
            BY <5>2, <6>1, <6>2
        <5> QED
          BY <3>1, <3>2, <4>1, <5>1, <5>2, <5>3, <5>4 DEF Sane, Live
      <4>2. CASE u # t
        <5>1. at'[u] = at[u] /\ brought'[u] = brought[u]
          BY <1>0, <3>1, Proceeds, <3>2, <4>2 DEF TypeOK
        <5>2. Live(u) /\ at[u] \in 4 .. 8 => u[2] # t[2] \/ u[2] \in stolen
          BY <1>0, <3>1, <4>2, Alone
        <5>3. /\ u[2] # t[2] => head'[u[2]] = head[u[2]]
              /\ head'[u[2]].own = head[u[2]].own /\ head'[u[2]].up >= head[u[2]].up
          <6>1. head[u[2]].up \in Nat /\ u[2] \in Repo
            BY <1>0, TaskParts DEF TypeOK, History
          <6> QED
            BY <3>2, <6>1
        <5>6. head'[u[2]].up \in Int /\ head[u[2]].up \in Int
          <6>1. head[u[2]].up \in Int
            BY <1>0, TaskParts DEF TypeOK, History
          <6>2. head'[t[2]].up \in Int
            BY <1>0, <2>6, MergeProceeds
          <6> QED
            BY <5>3, <6>1, <6>2
        <5>4. head[u[2]].up >= pre[u].up + brought[u] => head'[u[2]].up >= pre[u].up + brought[u]
          <6>1. pre[u].up \in Int /\ brought[u] \in Int
            BY <1>0 DEF TypeOK, History
          <6> QED
            BY <5>3, <5>6, <6>1
        <5>5. fetched[u] <= head[u[2]].up => fetched[u] <= head'[u[2]].up
          <6>1. fetched[u] \in Int
            BY <1>0 DEF TypeOK
          <6> QED
            BY <5>3, <5>6, <6>1
        <5> QED
          BY <1>0, <3>1, <5>1, <5>2, <5>3, <5>4, <5>5 DEF Sane, Live
      <4> QED
        BY <4>1, <4>2
    <3> QED
      BY <1>0, <3>1, <3>3 DEF FetchedBehind
  <2>7. CASE \E s \in Statuses : \E n \in Int : Answer(t, s, n) /\ UNCHANGED <<life, repos>>
    <3>1. Live(t) /\ at[t] \in 2 .. 8
      BY <1>0, <1>1, <2>7, AnswersLate
    <3>2. \A u \in Task : Sane(u)'
      BY <1>0, <2>7, <3>1, AnswerSane
    <3> QED
      BY <1>0, <2>7, <3>2 DEF FetchedBehind, repos
  <2> QED
    BY <1>0, <1>1, <2>1, <2>2, <2>3, <2>4, <2>5, <2>6, <2>7, <2>8, <2>9, ProceedsOrAnswers
<1>2. ASSUME NEW p \in Puller, Begin(p) \/ Finish(p) \/ Kill(p)
      PROVE  FetchedBehind' /\ \A u \in Task : Sane(u)'
  <2>1. UNCHANGED <<holder, stolen, remote, tracking, head>>
    BY <1>2 DEF Begin, Finish, Kill, locks, repos
  <2>2. ASSUME NEW u \in Task PROVE Sane(u)'
    <3>1. life'[u[1]] = "new" => life[u[1]] = "new"
      BY <1>0, <1>2, TaskParts DEF Begin, Finish, Kill, TypeOK
    <3>2. Live(u)' => Live(u) \/ life[u[1]] = "new"
      BY <1>0, <1>2, TaskParts DEF Begin, Finish, Kill, TypeOK, Live
    <3>3. CASE Kill(u[1])
      <4>1. at'[u] = 1 /\ brought'[u] = 0 /\ mine'[u] = 0 /\ ~Live(u)'
        BY <1>0, <3>3, TaskParts DEF Kill, Gone, Live, TypeOK
      <4> QED
        BY <4>1 DEF Sane, Live
    <3>4. CASE ~Kill(u[1])
      <4>1. /\ at'[u] = at[u] /\ pre'[u] = pre[u] /\ fetched'[u] = fetched[u]
            /\ brought'[u] = brought[u] /\ mine'[u] = mine[u]
        BY <1>2, <3>4 DEF Begin, Finish, Kill, Gone, notes
      <4> QED
        BY <1>0, <2>1, <3>1, <3>2, <4>1 DEF Sane, Live
    <3> QED
      BY <3>3, <3>4
  <2> QED
    BY <1>0, <2>1, <2>2 DEF FetchedBehind
<1>3. ASSUME NEW r \in Busy, Push(r) \/ Commit(r) \/ Edit(r)
      PROVE  FetchedBehind' /\ \A u \in Task : Sane(u)'
  <2>1. UNCHANGED <<life, at, holder, stolen, tracking, pre, fetched, brought>>
    BY <1>3 DEF Push, Commit, Edit, locks, notes
  <2>2. \A s \in Repo : remote[s] <= remote'[s]
    BY <1>0, <1>3 DEF Push, Commit, Edit, TypeOK
  <2>3. ASSUME NEW u \in Task
        PROVE  /\ at[u] \notin 5 .. 8 => mine'[u] = 0
               /\ Live(u) /\ at[u] \in 5 .. 8 =>
                    /\ head'[u[2]].own = pre[u].own + mine'[u]
                    /\ head'[u[2]].up = head[u[2]].up
    <3>1. CASE Commit(r)
      <4>1. Between(u) <=> Live(u) /\ at[u] \in 5 .. 8
        BY <1>0, AtNumbers DEF Between, Live
      <4>2. mine'[u] = IF u[2] = r /\ Between(u) THEN mine[u] + 1 ELSE mine[u]
        BY <3>1 DEF Commit
      <4>3. at[u] \notin 5 .. 8 => mine[u] = 0
        BY <1>0 DEF Sane
      <4>4. ASSUME Live(u), at[u] \in 5 .. 8
            PROVE  /\ head'[u[2]].own = pre[u].own + mine'[u]
                   /\ head'[u[2]].up = head[u[2]].up
        <5>1. head[u[2]].own = pre[u].own + mine[u]
          BY <1>0, <4>4 DEF Sane
        <5>2. CASE u[2] = r
          <6>1. head'[u[2]] = [up |-> head[u[2]].up, own |-> head[u[2]].own + 1]
            BY <1>0, <3>1, <5>2, TaskParts DEF Commit, TypeOK, History
          <6>2. mine'[u] = mine[u] + 1 /\ mine[u] \in Nat /\ pre[u].own \in Nat
            BY <1>0, <4>1, <4>2, <4>4, <5>2, PullAssumption DEF TypeOK, History
          <6> QED
            BY <5>1, <6>1, <6>2
        <5>3. CASE u[2] # r
          BY <1>0, <3>1, <4>2, <5>1, <5>3, TaskParts DEF Commit, TypeOK
        <5> QED
          BY <5>2, <5>3
      <4> QED
        BY <4>1, <4>2, <4>3, <4>4
    <3>2. CASE Push(r) \/ Edit(r)
      BY <1>0, <3>2 DEF Push, Edit, Sane, notes
    <3> QED
      BY <1>3, <3>1, <3>2
  <2>4. FetchedBehind'
    <3>1. \A s \in Repo : remote[s] \in Int /\ remote'[s] \in Int /\ tracking[s] \in Int
      BY <1>0, <1>3 DEF TypeOK, Push, Commit, Edit
    <3> QED
      BY <1>0, <2>1, <2>2, <3>1 DEF FetchedBehind
  <2>5. ASSUME NEW u \in Task PROVE Sane(u)'
    <3>1. Live(u)' <=> Live(u)
      BY <2>1 DEF Live
    <3>2. ASSUME Live(u), at[u] = 8 PROVE fetched[u] <= head'[u[2]].up
      <4>1. fetched[u] <= head[u[2]].up
        BY <1>0, <3>2 DEF Sane
      <4>2. at[u] \in 5 .. 8
        BY <3>2
      <4>3. head'[u[2]].up = head[u[2]].up
        BY <2>3, <3>2, <4>2
      <4> QED
        BY <4>1, <4>3
    <3> QED
      BY <1>0, <2>1, <2>3, <3>1, <3>2 DEF Sane
  <2> QED
    BY <2>4, <2>5
<1>4. CASE UNCHANGED vars
  BY <1>0, <1>4 DEF vars, Sane, Live, FetchedBehind
<1> QED
  BY <1>1, <1>2, <1>3, <1>4 DEF Next

\* A lock that names a running process stays that of a task at work.
LEMMA HeldStep ==
  ASSUME IndInv, [Next]_vars
  PROVE  \A r \in Repo : Held(r)'
<1>0. TypeOK /\ (\A t \in Task : Sane(t)) /\ \A r \in Repo : Held(r)
  BY ByNumbers DEF IndInv
<1>1. ASSUME NEW t \in Task, Work(t) \/ Denied(t) \/ Fail(t), NEW r \in Repo
      PROVE  Held(r)'
  <2>0. t = <<t[1], t[2]>> /\ t[1] \in Puller /\ t[2] \in Repo
    BY DEF Task
  <2>1. CASE \/ Start(t) \/ CheckRepo(t) \/ Pre(t) \/ Fetch(t)
             \/ Status(t) /\ Proceed(t) /\ UNCHANGED <<locks, notes>>
             \/ Merge(t) /\ Proceed(t)
    <3>1. /\ Proceed(t) /\ UNCHANGED <<life, holder>>
          /\ at[t] \in 1 .. 7 /\ at[t] # 3
      <4>1. CASE Merge(t) /\ Proceed(t)
        <5>1. Sane(t)
          BY <1>0
        <5>2. at[t] = 7 /\ UNCHANGED <<life, locks>>
          BY <1>0, <4>1, <5>1, MergeProceeds
        <5> QED
          BY <4>1, <5>2 DEF locks
      <4>2. CASE ~(Merge(t) /\ Proceed(t))
        BY <1>0, <2>1, <4>2, AtNumbers DEF Start, CheckRepo, Pre, Fetch, Status, locks
      <4> QED
        BY <4>1, <4>2
    <3>2. at'[t] = at[t] + 1 /\ \A u \in Task : u # t => at'[u] = at[u]
      BY <1>0, <3>1, Proceeds
    <3> SUFFICES ASSUME holder[r] # None, life[holder[r]] = "running"
                 PROVE  at'[<<holder[r], r>>] \in 4 .. 8
      BY <1>0, <3>1 DEF Held
    <3>3. <<holder[r], r>> \in Task /\ at[<<holder[r], r>>] \in 4 .. 8
      BY <1>0, TaskParts DEF Held, TypeOK
    <3> QED
      BY <3>1, <3>2, <3>3
  <2>2. CASE Lock(t)
    <3>1. /\ Proceed(t) /\ UNCHANGED life /\ at[t] = 3 /\ life[t[1]] = "running"
          /\ holder' = [holder EXCEPT ![t[2]] = t[1]]
      BY <1>0, <2>2, AtNumbers DEF Lock
    <3>2. at'[t] = 4 /\ \A u \in Task : u # t => at'[u] = at[u]
      BY <1>0, <3>1, Proceeds
    <3>3. CASE r = t[2]
      BY <1>0, <2>0, <3>1, <3>2, <3>3 DEF Held, TypeOK
    <3>4. CASE r # t[2]
      <4>1. holder'[r] = holder[r]
        BY <1>0, <3>1, <3>4 DEF TypeOK
      <4>2. holder[r] # None => at'[<<holder[r], r>>] = at[<<holder[r], r>>]
        BY <1>0, <3>2, <3>4, TaskParts DEF TypeOK
      <4> QED
        BY <1>0, <3>1, <4>1, <4>2 DEF Held
    <3> QED
      BY <3>3, <3>4
  <2>3. CASE Read(t) \/ Poll(t)
    BY <1>0, <2>3 DEF Read, Poll, Held
  <2>4. CASE Break(t)
    <3>1. /\ UNCHANGED <<life, at>> /\ holder' = [holder EXCEPT ![t[2]] = None]
      BY <2>4 DEF Break
    <3>2. holder'[r] \in {None, holder[r]}
      BY <1>0, <3>1 DEF TypeOK
    <3> QED
      BY <1>0, <3>1, <3>2 DEF Held
  <2>5. CASE \E s \in Statuses : \E n \in Int : Answer(t, s, n) /\ UNCHANGED <<life, repos>>
    <3>1. /\ life' = life /\ at' = [at EXCEPT ![t] = Answered] /\ holder' = Dropped(t)
      BY <2>5 DEF Answer
    <3>2. Live(t) /\ \A u \in Task : u # t => at'[u] = at[u]
      BY <1>0, <1>1, <2>5, <3>1, AnswersLate DEF TypeOK
    <3>3. holder'[r] \in {None, holder[r]} /\ (r = t[2] /\ Working(t) => holder'[r] = None)
      BY <1>0, <3>1 DEF Dropped, TypeOK
    <3> SUFFICES ASSUME holder'[r] = holder[r], holder[r] # None
                 PROVE  life[holder[r]] = "running" => at'[<<holder[r], r>>] \in 4 .. 8
      BY <1>0, <3>1, <3>3 DEF Held
    <3>4. <<holder[r], r>> \in Task
      BY <1>0, TaskParts DEF TypeOK
    <3>5. life[holder[r]] = "running" => at[<<holder[r], r>>] \in 4 .. 8
      BY <1>0 DEF Held
    <3>6. CASE <<holder[r], r>> = t
      <4>1. r = t[2] /\ holder[r] = t[1]
        BY <3>6
      <4>2. Working(t)
        BY <1>0, <3>2, <3>5, <3>6, <4>1, WorkingNumbers DEF Live
      <4> QED
        BY <3>3, <4>1, <4>2
    <3>7. CASE <<holder[r], r>> # t
      BY <3>2, <3>4, <3>5, <3>7
    <3> QED
      BY <3>6, <3>7
  <2> QED
    BY <1>0, <1>1, <2>1, <2>2, <2>3, <2>4, <2>5, ProceedsOrAnswers
<1>2. ASSUME NEW p \in Puller, Begin(p) \/ Finish(p) \/ Kill(p), NEW r \in Repo
      PROVE  Held(r)'
  <2>1. holder' = holder
    BY <1>2 DEF Begin, Finish, Kill, locks
  <2> SUFFICES ASSUME holder[r] # None
               PROVE  /\ life'[holder[r]] # "new"
                      /\ life'[holder[r]] = "running" => at'[<<holder[r], r>>] \in 4 .. 8
    BY <2>1 DEF Held
  <2>2. /\ holder[r] \in Puller /\ life[holder[r]] # "new"
        /\ life[holder[r]] = "running" => at[<<holder[r], r>>] \in 4 .. 8
        /\ <<holder[r], r>> \in Task /\ <<holder[r], r>>[1] = holder[r]
    BY <1>0, TaskParts DEF Held, TypeOK
  <2>3. CASE holder[r] = p
    BY <1>0, <1>2, <2>2, <2>3 DEF Begin, Finish, Kill, TypeOK
  <2>4. CASE holder[r] # p
    <3>1. life'[holder[r]] = life[holder[r]]
      BY <1>0, <1>2, <2>2, <2>4 DEF Begin, Finish, Kill, TypeOK
    <3>2. at'[<<holder[r], r>>] = at[<<holder[r], r>>]
      BY <1>0, <1>2, <2>2, <2>4 DEF Begin, Finish, Kill, Gone, TypeOK
    <3> QED
      BY <2>2, <3>1, <3>2
  <2> QED
    BY <2>3, <2>4
<1>3. ASSUME NEW r \in Busy, Push(r) \/ Commit(r) \/ Edit(r), NEW s \in Repo
      PROVE  Held(s)'
  BY <1>0, <1>3 DEF Push, Commit, Edit, locks, Held
<1>4. ASSUME UNCHANGED vars, NEW r \in Repo PROVE Held(r)'
  BY <1>0, <1>4 DEF vars, Held
<1> QED
  BY <1>1, <1>2, <1>3, <1>4 DEF Next

----------------------------------------------------------------------------
LEMMA Initially ==
  Init => TypeOK /\ FetchedBehind /\ (\A t \in Task : Sane(t)) /\ \A r \in Repo : Held(r)
<1> SUFFICES ASSUME Init
             PROVE  /\ TypeOK /\ FetchedBehind
                    /\ \A t \in Task : Sane(t)
                    /\ \A r \in Repo : Held(r)
  OBVIOUS
<1>1. TypeOK
  BY StageNumbers, PullAssumption DEF Init, TypeOK, Root, History, Tree
<1>2. FetchedBehind /\ \A t \in Task : Sane(t)
  BY TaskParts, PullAssumption DEF Init, FetchedBehind, Sane, Live
<1>3. ASSUME NEW r \in Repo, holder[r] # None PROVE life[holder[r]] = "killed"
  BY <1>3, PullAssumption DEF Init, Dead
<1> QED
  BY <1>1, <1>2, <1>3 DEF Held

\* The invariant, whenever the user commits and whoever dies or misjudges.
THEOREM Inductive == Spec => []IndInv
<1> DEFINE Core == /\ TypeOK /\ FetchedBehind
                   /\ \A t \in Task : Sane(t)
                   /\ \A r \in Repo : Held(r)
<1>1. Core => IndInv
  BY ByNumbers
<1>2. Core /\ [Next]_vars => Core'
  <2> SUFFICES ASSUME Core, [Next]_vars PROVE Core'
    OBVIOUS
  <2>1. IndInv
    BY <1>1
  <2>2. TypeOK'
    BY <2>1, TypeStep
  <2>3. FetchedBehind' /\ \A t \in Task : Sane(t)'
    BY <2>1, SaneStep
  <2>4. \A r \in Repo : Held(r)'
    BY <2>1, HeldStep
  <2> QED
    BY <2>2, <2>3, <2>4
<1>3. Init => Core
  BY Initially
<1> QED
  BY <1>1, <1>2, <1>3, PTL DEF Spec

\* A line that a pull prints (src/src/commands/pull.rs:112-136) counts what this
\* pull brought and what the user committed meanwhile, and more only if a lock of
\* the repo was broken; the branch has all it fetched.
THEOREM LinesAreTrue == Spec => LineIsTrue
<1>1. ASSUME IndInv, Next, line' # None, line'.status \in Good
      PROVE  TrueLine(line'.task)
  <2>0. TypeOK /\ \A t \in Task : Sane(t)
    BY <1>1, ByNumbers DEF IndInv
  <2>1. PICK t \in Task : Post(t)
    <3>1. \A p \in Puller : ~(Begin(p) \/ Finish(p) \/ Kill(p))
      BY <1>1 DEF Begin, Finish, Kill
    <3>2. \A r \in Busy : ~(Push(r) \/ Commit(r) \/ Edit(r))
      BY <1>1 DEF Push, Commit, Edit
    <3>3. PICK t \in Task : Work(t) \/ Denied(t) \/ Fail(t)
      BY <1>1, <3>1, <3>2 DEF Next
    <3>4. ~(\/ Start(t) \/ CheckRepo(t) \/ Lock(t) \/ Read(t) \/ Break(t) \/ Poll(t)
            \/ Pre(t) \/ Fetch(t))
      BY <1>1 DEF Start, CheckRepo, Lock, Read, Break, Poll, Pre, Fetch, Proceed
    <3>5. ~(Denied(t) \/ Fail(t))
      BY <1>1 DEF Denied, Fail, Answer, Good
    <3>6. ~Status(t)
      BY <1>1 DEF Status, Proceed, Answer, Good
    <3>7. ~Merge(t)
      BY <1>1 DEF Merge, Proceed, Answer, Good
    <3> QED
      BY <3>3, <3>4, <3>5, <3>6, <3>7 DEF Work
  <2>2. /\ head[t[2]].own = pre[t].own + mine[t]
        /\ head[t[2]].up >= pre[t].up + brought[t]
        /\ t[2] \notin stolen => head[t[2]].up = pre[t].up + brought[t]
        /\ fetched[t] <= head[t[2]].up
    BY <2>0, <2>1, AtNumbers DEF Post, Sane, Live
  <2>3. /\ pre[t] \in History /\ brought[t] \in Nat /\ mine[t] \in Nat /\ fetched[t] \in Int
        /\ head[t[2]] \in History
    BY <2>0, TaskParts, PullAssumption DEF TypeOK
  <2>4. line'.task = t
    BY <2>1 DEF Post, Answer
  <2>5. CASE head[t[2]] = pre[t]
    <3>1. line'.commits = 0 /\ brought[t] = 0 /\ mine[t] = 0
      BY <2>1, <2>2, <2>3, <2>5 DEF Post, Answer, History
    <3> QED
      BY <2>2, <2>3, <2>4, <3>1 DEF History, TrueLine
  <2>6. CASE head[t[2]] # pre[t]
    <3> DEFINE count == (head[t[2]].up - pre[t].up) + (head[t[2]].own - pre[t].own)
    <3>1. /\ count >= brought[t] + mine[t]
          /\ t[2] \notin stolen => count = brought[t] + mine[t]
      BY <2>2, <2>3 DEF History
    <3>3. /\ line'.commits \in {count} \cup {m \in {0} : Faults}
          /\ line'.status = "updated"
      BY <2>1, <2>6 DEF Post, Answer
    <3>4. count \in Int
      BY <2>3 DEF History
    <3> HIDE DEF count
    <3>2. /\ \/ line'.commits = brought[t] + mine[t]
             \/ Faults /\ line'.commits = 0
             \/ t[2] \in stolen /\ line'.commits > brought[t] + mine[t]
          /\ line'.status = "updated"
      BY <2>3, <3>1, <3>3, <3>4
    <3> QED
      BY <2>2, <2>3, <2>4, <3>2 DEF History, TrueLine
  <2> QED
    BY <2>5, <2>6
<1>2. IndInv /\ [Next]_vars
        => [line' # None /\ line'.status \in Good => TrueLine(line'.task)]_vars
  BY <1>1
<1> QED
  BY <1>2, Inductive, PTL DEF LineIsTrue, Spec

\* The lock of a pull at work (src/src/lock.rs:121-131) is removed only by one
\* that has read the lock of a third, or by one that misjudges it.
THEOREM LocksBreakInRaces == Spec => BrokenOnlyInRace
<1> DEFINE Race(r) ==
      \E p, dead \in Puller :
        /\ {p, dead, holder[r]} \subseteq Puller /\ dead # p /\ holder[r] \notin {p, dead}
        /\ seen[<<p, r>>] = dead /\ life[dead] # "running"
<1>1. ASSUME IndInv, Next, NEW r \in (stolen' \ stolen) \ Misjudged
      PROVE  Race(r)
  <2>0. TypeOK /\ \A q \in Repo : Held(q)
    BY <1>1, ByNumbers DEF IndInv
  <2>1. PICK t \in Task : Break(t)
    <3>1. \A p \in Puller : ~(Begin(p) \/ Finish(p) \/ Kill(p))
      BY <1>1 DEF Begin, Finish, Kill, locks
    <3>2. \A q \in Busy : ~(Push(q) \/ Commit(q) \/ Edit(q))
      BY <1>1 DEF Push, Commit, Edit, locks
    <3>3. PICK t \in Task : Work(t) \/ Denied(t) \/ Fail(t)
      BY <1>1, <3>1, <3>2 DEF Next
    <3>4. ~(Start(t) \/ CheckRepo(t) \/ Lock(t) \/ Read(t) \/ Poll(t) \/ Pre(t) \/ Fetch(t))
      BY <1>1 DEF Start, CheckRepo, Lock, Read, Poll, Pre, Fetch, locks
    <3>5. ~(Denied(t) \/ Fail(t) \/ Post(t))
      BY <1>1 DEF Denied, Fail, Post, Answer
    <3>6. ~Status(t)
      BY <1>1 DEF Status, Answer, locks
    <3>7. ~Merge(t)
      BY <1>1 DEF Merge, Answer, locks
    <3> QED
      BY <3>3, <3>4, <3>5, <3>6, <3>7 DEF Work
  <2>2. /\ r = t[2] /\ holder[r] # None /\ life[holder[r]] = "running"
        /\ seen[t] # None /\ life[seen[t]] # "running"
        /\ life[t[1]] = "running" /\ at[t] = 3
    BY <1>1, <2>0, <2>1, AtNumbers DEF Break, InUse, Stale
  <2>3. t = <<t[1], r>> /\ t[1] \in Puller /\ seen[t] \in Puller /\ holder[r] \in Puller
    BY <2>0, <2>2, TaskParts DEF TypeOK, Task
  <2>4. at[<<holder[r], r>>] \in 4 .. 8
    BY <1>1, <2>0, <2>2, <2>3, TaskParts DEF Held
  <2>5. holder[r] # t[1]
    BY <2>2, <2>3, <2>4
  <2>6. seen[<<t[1], r>>] = seen[t]
    BY <2>3
  <2>7. seen[t] # t[1] /\ holder[r] # seen[t]
    BY <2>2
  <2> HIDE DEF Race
  <2> QED
    BY <2>2, <2>3, <2>5, <2>6, <2>7 DEF Race
<1>2. IndInv /\ [Next]_vars
        => [\A r \in (stolen' \ stolen) \ Misjudged : Race(r)]_vars
  BY <1>1
<1> QED
  BY <1>2, Inductive, PTL DEF BrokenOnlyInRace, Spec
===============================================================================
