--------------------------- MODULE FreshnessProofs ---------------------------
(***************************************************************************)
(* IndInv of Freshness is inductive for any acyclic graph, any number of   *)
(* sessions and commits.  From it: what is judged fresh is current, no run *)
(* consumes what is not, and status tells the truth, wherever records can  *)
(* be trusted (Orderly); and a run that passed leaves freshness behind     *)
(* (Effective).                                                            *)
(***************************************************************************)
EXTENDS Freshness, TLAPS

----------------------------------------------------------------------------
(* The graph.                                                              *)

\* A traversal follows every dependency of what it comes upon.
LEMMA ReachClosed ==
  ASSUME NEW r \in Repo
  PROVE  /\ Reach(D, r) \in SUBSET Repo
         /\ D[r] \subseteq Reach(D, r)
         /\ \A u \in Reach(D, r) : D[u] \subseteq Reach(D, r)
BY FreshnessAssumption DEF Reach, Closed, Graph

LEMMA ReachLeast ==
  ASSUME NEW r \in Repo, NEW U \in SUBSET Repo, D[r] \subseteq U, Closed(D, U)
  PROVE  Reach(D, r) \subseteq U
BY DEF Reach

LEMMA ReachTransitive ==
  ASSUME NEW r \in Repo, NEW u \in Reach(D, r)
  PROVE  Reach(D, u) \subseteq Reach(D, r)
BY ReachClosed, ReachLeast DEF Closed

\* What is reached is a dependency, or reached from one.
LEMMA ReachBack ==
  ASSUME NEW r \in Repo, NEW u \in Reach(D, r)
  PROVE  u \in D[r] \/ \E d \in D[r] : u \in Reach(D, d)
<1> DEFINE U == D[r] \cup {v \in Repo : \E d \in D[r] : v \in Reach(D, d)}
<1>1. D[r] \in SUBSET Repo
  BY FreshnessAssumption DEF Graph
<1>2. U \in SUBSET Repo /\ D[r] \subseteq U
  BY <1>1
<1>3. ASSUME NEW v \in U PROVE D[v] \subseteq U
  <2>1. CASE v \in D[r]
    BY <1>1, <2>1, ReachClosed
  <2>2. ASSUME NEW d \in D[r], v \in Reach(D, d) PROVE D[v] \subseteq U
    <3>1. D[v] \subseteq Reach(D, d) /\ Reach(D, d) \subseteq Repo
      BY <1>1, <2>2, ReachClosed
    <3> QED
      BY <3>1
  <2> QED
    BY <1>3, <2>1, <2>2
<1>4. Reach(D, r) \subseteq U
  BY <1>2, <1>3, ReachLeast DEF Closed
<1> QED
  BY <1>4

\* All that is used of the graph: upstreams are transitive, and a repo has
\* them through its direct dependencies.
LEMMA UpsFacts ==
  /\ Ups \in [Repo -> SUBSET Repo]
  /\ \A r \in Repo : r \notin Ups[r] /\ D[r] \subseteq Ups[r]
  /\ \A r \in Repo : \A u \in Ups[r] : Ups[u] \subseteq Ups[r]
  /\ \A r \in Repo : \A u \in Ups[r] : u \in D[r] \/ \E d \in D[r] : u \in Ups[d]
<1>1. \A r \in Repo : Ups[r] = Reach(D, r)
  BY FreshnessAssumption DEF Ups, Upstreams, Acyclic
<1>2. Ups \in [Repo -> SUBSET Repo]
  BY ReachClosed DEF Ups, Upstreams
<1>3. \A r \in Repo : r \notin Reach(D, r) /\ D[r] \subseteq Reach(D, r)
  BY FreshnessAssumption, ReachClosed DEF Acyclic
<1>4. \A r \in Repo : \A u \in Reach(D, r) : u \in Repo
  BY ReachClosed
<1>5. ASSUME NEW r \in Repo, NEW u \in Ups[r] PROVE Ups[u] \subseteq Ups[r]
  BY <1>1, <1>4, ReachTransitive
<1>6. ASSUME NEW r \in Repo, NEW u \in Ups[r]
      PROVE  u \in D[r] \/ \E d \in D[r] : u \in Ups[d]
  <2>1. u \in D[r] \/ \E d \in D[r] : u \in Reach(D, d)
    BY <1>1, ReachBack
  <2>2. D[r] \subseteq Repo
    BY FreshnessAssumption DEF Graph
  <2> QED
    BY <1>1, <2>1, <2>2
<1> QED
  BY <1>1, <1>2, <1>3, <1>5, <1>6

\* Commits can be told from no value, and compared.
LEMMA CommitFacts == Absent \notin Commit /\ Commit \subseteq Int /\ Commit # {}
BY FreshnessAssumption DEF Commit

----------------------------------------------------------------------------
(* Types.                                                                  *)

LEMMA NoneTyped == None \in Heads
BY DEF None, Heads

\* What a command works on are versions, or none.
LEMMA InputsTyped ==
  ASSUME TypeOK, NEW s \in Session, NEW r \in Repo
  PROVE  Inputs(s, r) \in Heads
<1>1. ASSUME NEW u \in Ups[r] PROVE Carried(r, u) \in Commit \cup {Absent}
  <2> DEFINE V == {artifact[d][u] : d \in {d \in D[r] : u = d \/ u \in Ups[d]}}
  <2>1. V \subseteq Commit \cup {Absent}
    BY UpsFacts, FreshnessAssumption DEF TypeOK, Heads, Graph
  <2>2. Carried(r, u) = IF \E v \in V : V = {v} THEN CHOOSE v \in V : TRUE ELSE Absent
    BY DEF Carried
  <2> QED
    BY <2>1, <2>2
<1>2. [u \in Repo |-> IF u = r THEN head[r]
                      ELSE IF u \in Ups[r] THEN Carried(r, u) ELSE Absent] \in Heads
  BY <1>1 DEF TypeOK, Heads
<1>3. Only(head, {r} \cup Ups[r]) \in Heads
  BY DEF Only, TypeOK, Heads
<1>4. artifact[r] \in Heads
  BY DEF TypeOK
<1> QED
  BY <1>2, <1>3, <1>4 DEF Inputs

LEMMA InitTyped == Init => TypeOK
<1> SUFFICES ASSUME Init PROVE TypeOK
  OBVIOUS
<1>1. 0 \in Commit
  BY FreshnessAssumption DEF Commit
<1> QED
  BY <1>1, NoneTyped DEF Init, TypeOK, Jobs, NoFlags

\* Forgetting keeps the types of what belongs to the session.
LEMMA ForgetTyped ==
  ASSUME TypeOK, NEW s \in Session, Forget(s)
  PROVE  /\ phase' \in [Session -> {"idle", "probing", "running", "viewing"}]
         /\ targets' \in [Session -> SUBSET Repo]
         /\ flags' \in [Session -> [deps : BOOLEAN, dependents : BOOLEAN]]
         /\ dry' \in [Session -> BOOLEAN]
         /\ heads' \in [Session -> Heads]
         /\ job' \in [Session -> [Repo -> Jobs]]
         /\ taken' \in [Session -> [Repo -> Heads]]
         /\ shown' \in [Session -> SUBSET Repo] /\ wasCurrent' \in [Session -> SUBSET Repo]
BY NoneTyped DEF TypeOK, Jobs, Forget, NoFlags, Watch

LEMMA WatchTyped ==
  ASSUME TypeOK, Watch PROVE wasCurrent' \in [Session -> SUBSET Repo]
BY DEF TypeOK, Watch

\* Every step keeps the types.
LEMMA TypeStep == TypeOK /\ SessionInv /\ [Next]_vars => TypeOK'
<1> SUFFICES ASSUME TypeOK, SessionInv, [Next]_vars PROVE TypeOK'
  OBVIOUS
<1> USE DEF TypeOK, SetJob, Settled, Jobs, eyes
<1>1. ASSUME NEW s \in Session, Begin(s) PROVE TypeOK'
  <2>1. targets' \in [Session -> SUBSET Repo] /\ flags' \in [Session -> [deps : BOOLEAN, dependents : BOOLEAN]]
        /\ dry' \in [Session -> BOOLEAN]
    <3>1. PICK T \in SUBSET Repo, f \in Flags, d \in {FALSE, DryRuns} :
            /\ targets' = [targets EXCEPT ![s] = T]
            /\ flags' = [flags EXCEPT ![s] = f]
            /\ dry' = [dry EXCEPT ![s] = d]
      BY <1>1 DEF Begin
    <3>2. f \in [deps : BOOLEAN, dependents : BOOLEAN] /\ d \in BOOLEAN
      BY FreshnessAssumption
    <3> QED
      BY <3>1, <3>2
  <2>2. job' \in [Session -> [Repo -> Jobs]]
    BY <1>1 DEF Begin
  <2> QED
    BY <1>1, <2>1, <2>2 DEF Begin
<1>2. ASSUME NEW s \in Session, NEW r \in Repo, Probe(s, r) PROVE TypeOK'
  BY <1>2 DEF Probe, Heads
<1>3. ASSUME NEW s \in Session, Decide(s) PROVE TypeOK'
  BY <1>3 DEF Decide
<1>18. ASSUME NEW s \in Session, NEW c \in Repo, Judge(s, c) PROVE TypeOK'
  BY <1>18 DEF Judge
<1>4. ASSUME NEW s \in Session, NEW r \in Repo, Run(s, r) PROVE TypeOK'
  BY <1>4, InputsTyped DEF Run
<1>5. ASSUME NEW s \in Session, NEW r \in Repo, Refuse(s, r) PROVE TypeOK'
  BY <1>5 DEF Refuse
<1>6. ASSUME NEW s \in Session, NEW r \in Repo, Skip(s, r) PROVE TypeOK'
  BY <1>6 DEF Skip
<1>7. ASSUME NEW s \in Session, NEW r \in Repo, Build(s, r) PROVE TypeOK'
  BY <1>7, WatchTyped, NoneTyped DEF Build
<1>8. ASSUME NEW s \in Session, NEW r \in Repo, Fail(s, r) PROVE TypeOK'
  BY <1>8, WatchTyped, NoneTyped DEF Fail
<1>9. ASSUME NEW s \in Session, NEW r \in Repo, ReadHead(s, r) PROVE TypeOK'
  <2>1. job' \in [Session -> [Repo -> Jobs]]
    <3>1. PICK w \in {"marked", "passed"} : job' = [job EXCEPT ![s][r] = w]
      BY <1>9, Zenon DEF ReadHead
    <3> QED
      BY <3>1
  <2>2. head[r] \in Commit \cup {Absent} /\ taken[s] \in [Repo -> Heads]
    OBVIOUS
  <2>3. [taken[s][r] EXCEPT ![r] = head[r]] \in Heads
    BY <2>2 DEF Heads
  <2>4. [taken[s] EXCEPT ![r] = [taken[s][r] EXCEPT ![r] = head[r]]] \in [Repo -> Heads]
    BY <2>2, <2>3
  <2>5. taken' = taken \/ taken' = [taken EXCEPT ![s] = [taken[s] EXCEPT ![r] = [taken[s][r] EXCEPT ![r] = head[r]]]]
    BY <1>9 DEF ReadHead
  <2>6. taken' \in [Session -> [Repo -> Heads]]
    BY <2>4, <2>5
  <2> QED
    BY <1>9, <2>1, <2>6 DEF ReadHead
<1>10. ASSUME NEW s \in Session, NEW r \in Repo, Record(s, r) PROVE TypeOK'
  <2>1. Manifest(s, r) \in Heads
    BY DEF Manifest, Only, Heads
  <2>2. taken[s][r][r] \in Commit
    BY <1>10 DEF Record, SessionInv, Fits
  <2> QED
    BY <1>10, <2>1, <2>2, NoneTyped DEF Record
<1>11. ASSUME NEW s \in Session, Finish(s) PROVE TypeOK'
  BY <1>11, ForgetTyped DEF Finish
<1>12. ASSUME NEW s \in Session, Kill(s) PROVE TypeOK'
  BY <1>12, ForgetTyped DEF Kill
<1>13. ASSUME NEW s \in Session, View(s) PROVE TypeOK'
  BY <1>13, WatchTyped DEF View
<1>14. ASSUME NEW s \in Session, NEW r \in Repo, Show(s, r) PROVE TypeOK'
  BY <1>14 DEF Show
<1>15. ASSUME NEW s \in Session, Shown(s) PROVE TypeOK'
  BY <1>15, ForgetTyped DEF Shown
<1>16. ASSUME NEW r \in Repo, Move(r) PROVE TypeOK'
  BY <1>16, WatchTyped DEF Move
<1>17. CASE UNCHANGED vars
  BY <1>17 DEF vars
<1> QED
  BY <1>1, <1>2, <1>3, <1>4, <1>5, <1>6, <1>7, <1>8, <1>9, <1>10, <1>11, <1>12,
     <1>13, <1>14, <1>15, <1>16, <1>17, <1>18 DEF Next, Work
----------------------------------------------------------------------------
(* What a step leaves alone.                                               *)

\* The variables of a session stay as they are.
Same(s) ==
  /\ phase'[s] = phase[s] /\ targets'[s] = targets[s] /\ flags'[s] = flags[s]
  /\ dry'[s] = dry[s] /\ heads'[s] = heads[s] /\ job'[s] = job[s]
  /\ taken'[s] = taken[s] /\ shown'[s] = shown[s]

\* A step of one session leaves the variables of the others alone.
LEMMA OthersSame ==
  ASSUME TypeOK, NEW s \in Session, NEW t \in Session, s # t,
         Begin(t) \/ Work(t) \/ Kill(t)
  PROVE  Same(s)
<1> USE DEF TypeOK, Same, SetJob, eyes
<1>1. CASE Begin(t)
  BY <1>1 DEF Begin
<1>2. CASE Kill(t)
  BY <1>2 DEF Kill, Forget
<1>3. CASE Decide(t) \/ View(t)
  BY <1>3 DEF Decide, View
<1>4. CASE Finish(t) \/ Shown(t)
  BY <1>4 DEF Finish, Shown, Forget
<1>5. ASSUME NEW r \in Repo, Probe(t, r) \/ Judge(t, r) \/ Run(t, r) \/ Refuse(t, r) \/ Skip(t, r)
      PROVE  Same(s)
  BY <1>5 DEF Probe, Judge, Run, Refuse, Skip
<1>6. ASSUME NEW r \in Repo, Build(t, r) \/ Fail(t, r) \/ Record(t, r) \/ Show(t, r)
      PROVE  Same(s)
  BY <1>6 DEF Build, Fail, Record, Show
<1>7. ASSUME NEW r \in Repo, ReadHead(t, r) PROVE Same(s)
  BY <1>7 DEF ReadHead
<1> QED
  BY <1>1, <1>2, <1>3, <1>4, <1>5, <1>6, <1>7 DEF Work

\* What a session considers depends on what it was asked for.
LEMMA ConsideredSame ==
  ASSUME NEW s \in Session, targets'[s] = targets[s], flags'[s] = flags[s]
  PROVE  Considered(s)' = Considered(s)
BY DEF Considered, Candidates

\* What a session considers are repos; in its universe are their upstreams.
LEMMA ConsideredRepos ==
  ASSUME TypeOK, NEW s \in Session
  PROVE  /\ Considered(s) \subseteq Repo
         /\ \A v \in Considered(s) : v \in Universe(Considered(s)) /\ Ups[v] \subseteq Universe(Considered(s))
BY UpsFacts DEF TypeOK, Considered, Candidates, Universe
----------------------------------------------------------------------------
(* Sessions.                                                               *)

\* What Watch does to whoever does not view, and to whoever does.
LEMMA Watched ==
  ASSUME TypeOK, NEW s \in Session, Watch \/ UNCHANGED wasCurrent
  PROVE  /\ phase'[s] # "viewing" /\ wasCurrent[s] = {} => wasCurrent'[s] = {}
         /\ phase'[s] = "viewing" => wasCurrent[s] \subseteq wasCurrent'[s]
BY DEF TypeOK, Watch

\* A session that takes no part in a step fits its phase as before.
LEMMA FitsSame ==
  ASSUME TypeOK, NEW s \in Session, Same(s), Fits(s), Watch \/ UNCHANGED wasCurrent
  PROVE  Fits(s)'
<1>1. Considered(s)' = Considered(s)
  BY ConsideredSame DEF Same
<1>2. Probed(s)' <=> Probed(s)
  BY DEF Same, Probed
<1>3. phase'[s] # "viewing" => wasCurrent'[s] = {}
  BY Watched DEF Same, Fits
<1> QED
  BY <1>1, <1>2, <1>3 DEF Same, Fits

\* A session that is over is as good as new.
LEMMA FitsForgotten ==
  ASSUME TypeOK, NEW s \in Session, Forget(s) PROVE Fits(s)'
<1>1. phase'[s] = "idle" /\ heads'[s] = None /\ shown'[s] = {} /\ \A r \in Repo : job'[s][r] = "out"
  BY DEF Forget, TypeOK
<1>2. wasCurrent'[s] = {}
  BY <1>1 DEF Forget, Watch
<1> QED
  BY <1>1, <1>2 DEF Fits

\* In a running session the job of one repo becomes w, and nothing else of the
\* session changes but what that command has taken.
Becomes(s, r, w) ==
  /\ phase[s] = "running" /\ phase'[s] = "running"
  /\ targets'[s] = targets[s] /\ flags'[s] = flags[s] /\ dry'[s] = dry[s]
  /\ heads'[s] = heads[s] /\ shown'[s] = shown[s]
  /\ job[s][r] \in {"pending", "running", "built", "marked"} /\ job'[s][r] = w
  /\ \A x \in Repo : x # r => job'[s][x] = job[s][x] /\ taken'[s][x] = taken[s][x]
  /\ w = "marked" => taken'[s][r][r] = head[r]
  /\ Watch \/ UNCHANGED wasCurrent

\* What the operations on a repo of a running session have in common.
LEMMA Advance ==
  ASSUME TypeOK, NEW s \in Session, Fits(s), NEW r \in Repo
  PROVE  /\ Run(s, r) => Becomes(s, r, "running")
         /\ Refuse(s, r) => Becomes(s, r, "failed")
         /\ Skip(s, r) => Becomes(s, r, "skipped")
         /\ Build(s, r) => Becomes(s, r, "built")
         /\ Fail(s, r) => Becomes(s, r, "failed")
         /\ ReadHead(s, r) => Becomes(s, r, "marked") \/ Becomes(s, r, "passed")
         /\ Record(s, r) => Becomes(s, r, "passed")
<1> USE DEF TypeOK, SetJob, Becomes, eyes
<1>1. job[s][r] \in {"pending", "running", "built", "marked"} => phase[s] = "running"
  BY DEF Fits
<1>2. Run(s, r) => Becomes(s, r, "running")
  BY <1>1 DEF Run, Ready
<1>3. Refuse(s, r) => Becomes(s, r, "failed")
  BY <1>1 DEF Refuse, Ready
<1>4. Skip(s, r) => Becomes(s, r, "skipped")
  BY <1>1 DEF Skip
<1>5. Build(s, r) => Becomes(s, r, "built")
  BY <1>1 DEF Build
<1>6. Fail(s, r) => Becomes(s, r, "failed")
  BY <1>1 DEF Fail
<1>7. ReadHead(s, r) => Becomes(s, r, "marked") \/ Becomes(s, r, "passed")
  <2> SUFFICES ASSUME ReadHead(s, r) PROVE Becomes(s, r, "marked") \/ Becomes(s, r, "passed")
    OBVIOUS
  <2>1. /\ job[s][r] = "built" /\ phase' = phase /\ targets' = targets /\ flags' = flags /\ dry' = dry
        /\ heads' = heads /\ shown' = shown /\ wasCurrent' = wasCurrent
    BY DEF ReadHead
  <2>2. CASE job' = [job EXCEPT ![s][r] = "marked"] /\ taken' = [taken EXCEPT ![s][r][r] = head[r]]
    <3>1. taken' = [taken EXCEPT ![s] = [taken[s] EXCEPT ![r] = [taken[s][r] EXCEPT ![r] = head[r]]]]
      BY <2>2, Zenon
    <3>2. taken'[s] = [taken[s] EXCEPT ![r] = [taken[s][r] EXCEPT ![r] = head[r]]]
      BY <3>1
    <3>3. taken[s] \in [Repo -> Heads]
      OBVIOUS
    <3>4. taken'[s][r] = [taken[s][r] EXCEPT ![r] = head[r]] /\ taken[s][r] \in Heads
      BY <3>2, <3>3
    <3>5. taken'[s][r][r] = head[r]
      BY <3>4 DEF Heads
    <3>6. job'[s][r] = "marked" /\ \A x \in Repo : x # r => job'[s][x] = job[s][x] /\ taken'[s][x] = taken[s][x]
      BY <2>2, <3>2
    <3> QED
      BY <1>1, <2>1, <3>5, <3>6
  <2>3. CASE job' = [job EXCEPT ![s][r] = "passed"] /\ taken' = taken
    <3>1. job'[s][r] = "passed" /\ \A x \in Repo : x # r => job'[s][x] = job[s][x]
      BY <2>3
    <3> QED
      BY <1>1, <2>1, <2>3, <3>1
  <2> QED
    BY <2>2, <2>3, Zenon DEF ReadHead
<1>8. Record(s, r) => Becomes(s, r, "passed")
  BY <1>1 DEF Record
<1> QED
  BY <1>2, <1>3, <1>4, <1>5, <1>6, <1>7, <1>8

\* What the judgement of a candidate does.
LEMMA Judged ==
  ASSUME TypeOK, NEW s \in Session, NEW c \in Repo, Judge(s, c)
  PROVE  /\ phase[s] = "running" /\ job[s][c] = "asked" /\ job'[s][c] \in {"pending", "out"}
         /\ job'[s][c] = "out" => ~IsStale(c, heads[s])
         /\ \A x \in Repo : x # c => job'[s][x] = job[s][x]
         /\ UNCHANGED <<head, artifact, record, phase, targets, flags, dry, heads, taken, eyes>>
         /\ UNCHANGED <<shown, wasCurrent>> /\ Considered(s)' = Considered(s)
<1>1. /\ phase[s] = "running" /\ job[s][c] = "asked"
      /\ UNCHANGED <<head, artifact, record, phase, targets, flags, dry, heads, taken, eyes>>
  BY DEF Judge
<1>2. Considered(s)' = Considered(s)
  BY <1>1, ConsideredSame
<1>3. /\ job'[s][c] = IF Joins(s, c) THEN "pending" ELSE "out"
      /\ \A x \in Repo : x # c => job'[s][x] = job[s][x]
  BY DEF Judge, SetJob, TypeOK
<1> QED
  BY <1>1, <1>2, <1>3 DEF Joins, eyes

\* The variables of every session fit its phase after every step.
LEMMA SessionStep == TypeOK /\ SessionInv /\ [Next]_vars => SessionInv'
<1> SUFFICES ASSUME TypeOK, SessionInv, [Next]_vars, NEW s \in Session PROVE Fits(s)'
  BY DEF SessionInv
<1>0. Fits(s)
  BY DEF SessionInv
<1> USE DEF SetJob, Settled, eyes
<1>1. ASSUME NEW t \in Session, t # s, Begin(t) \/ Work(t) \/ Kill(t) PROVE Fits(s)'
  <2>1. Watch \/ UNCHANGED wasCurrent
    BY <1>1 DEF Work, Begin, Kill, Decide, Finish, View, Shown, Forget, Probe, Judge, Run, Refuse, Skip,
                Build, Fail, ReadHead, Record, Show
  <2> QED
    BY <1>0, <1>1, <2>1, OthersSame, FitsSame
<1>2. CASE Begin(s)
  <2>1. PICK T \in SUBSET Repo, f \in Flags, d \in {FALSE, DryRuns} :
          /\ targets' = [targets EXCEPT ![s] = T]
          /\ flags' = [flags EXCEPT ![s] = f]
          /\ dry' = [dry EXCEPT ![s] = d]
    BY <1>2 DEF Begin
  <2>2. flags'[s] \in Flags /\ (dry'[s] => DryRuns)
    <3>1. flags'[s] = f /\ dry'[s] = d
      BY <2>1 DEF TypeOK
    <3> QED
      BY <3>1, FreshnessAssumption
  <2>3. phase[s] = "idle" /\ phase'[s] = "probing" /\ shown' = shown /\ wasCurrent' = wasCurrent /\ taken' = taken
    BY <1>2 DEF Begin, TypeOK
  <2>4. \A r \in Repo : job'[s][r] \in {"out", "probe"}
    BY <1>2 DEF Begin, TypeOK
  <2>5. heads' = heads /\ heads[s] = None
    BY <1>0, <1>2 DEF Begin, Fits
  <2> QED
    BY <1>0, <2>2, <2>3, <2>4, <2>5 DEF Fits, None
<1>3. CASE Decide(s)
  <2>1. Considered(s)' = Considered(s) /\ Considered(s) = targets[s] \cup Candidates(s)
    BY <1>3, ConsideredSame DEF Decide, Considered
  <2> QED
    BY <1>0, <1>3, <2>1 DEF TypeOK, Fits, Decide, Probed
<1>4. CASE View(s)
  <2>1. heads' = heads /\ heads[s] = None
    BY <1>0, <1>4 DEF View, Fits
  <2>2. \A x \in Repo : heads'[s][x] = Absent
    BY <2>1 DEF None
  <2>3. /\ phase'[s] = "viewing" /\ shown'[s] = {} /\ \A x \in Repo : job'[s][x] \in {"out", "probe"}
    BY <1>0, <1>4 DEF TypeOK, Fits, View
  <2> QED
    BY <2>2, <2>3 DEF Fits
<1>5. CASE Finish(s) \/ Shown(s) \/ Kill(s)
  BY <1>5, FitsForgotten DEF Finish, Shown, Kill
<1>6. ASSUME NEW r \in Repo, Probe(s, r) PROVE Fits(s)'
  <2>1. \A x \in Repo : job'[s][x] = "probe" => heads'[s][x] = Absent
    <3>1. \A x \in Repo : x # r => heads'[s][x] = heads[s][x] /\ job'[s][x] = job[s][x]
      BY <1>6 DEF TypeOK, Heads, Probe
    <3>2. job'[s][r] = "out"
      BY <1>6 DEF TypeOK, Probe
    <3> QED
      BY <1>0, <3>1, <3>2 DEF Fits
  <2>2. /\ phase' = phase /\ targets' = targets /\ flags' = flags /\ dry' = dry /\ taken' = taken
        /\ shown' = shown /\ wasCurrent' = wasCurrent /\ phase[s] \in {"probing", "viewing"}
        /\ job[s][r] = "probe" /\ \A x \in Repo : job'[s][x] = IF x = r THEN "out" ELSE job[s][x]
    BY <1>6 DEF TypeOK, Probe
  <2> QED
    BY <1>0, <2>1, <2>2 DEF Fits, Probed
<1>7. ASSUME NEW r \in Repo,
             Run(s, r) \/ Refuse(s, r) \/ Skip(s, r) \/ Build(s, r) \/ Fail(s, r)
               \/ ReadHead(s, r) \/ Record(s, r)
      PROVE  Fits(s)'
  <2>1. PICK w \in {"running", "failed", "skipped", "built", "marked", "passed"} : Becomes(s, r, w)
    BY <1>0, <1>7, Advance
  <2>2. Considered(s)' = Considered(s)
    BY <2>1, ConsideredSame DEF Becomes
  <2>3. wasCurrent'[s] = {}
    BY <1>0, <2>1, Watched DEF Becomes, Fits
  <2>4. \A x \in Repo : job'[s][x] = "marked" => taken'[s][x][x] \in Commit
    <3>1. ASSUME w = "marked" PROVE taken'[s][r][r] \in Commit
      BY <3>1, <2>1 DEF Becomes, TypeOK
    <3> QED
      BY <1>0, <2>1, <3>1 DEF Becomes, Fits
  <2> QED
    BY <1>0, <2>1, <2>2, <2>3, <2>4 DEF Fits, Becomes
<1>8. ASSUME NEW r \in Repo, Show(s, r) PROVE Fits(s)'
  BY <1>0, <1>8 DEF TypeOK, Fits, Show, Probed
<1>11. ASSUME NEW c \in Repo, Judge(s, c) PROVE Fits(s)'
  BY <1>0, <1>11, Judged DEF Fits, Probed
<1>9. ASSUME NEW r \in Repo, Move(r) PROVE Fits(s)'
  BY <1>0, <1>9, FitsSame DEF Move, Same
<1>10. CASE UNCHANGED vars
  BY <1>0, <1>10, FitsSame DEF vars, Same
<1> QED
  BY <1>1, <1>2, <1>3, <1>4, <1>5, <1>6, <1>7, <1>8, <1>9, <1>10, <1>11 DEF Next, Work
----------------------------------------------------------------------------
(* Every step, seen from one session and seen from the repos.              *)

OnRepo(s, r) ==
  \/ Run(s, r) \/ Refuse(s, r) \/ Skip(s, r) \/ Build(s, r) \/ Fail(s, r)
  \/ ReadHead(s, r) \/ Record(s, r)

\* A session is not involved, or begins, or views, or runs, or ends.
LEMMA SessionCases ==
  ASSUME TypeOK, [Next]_vars, NEW s \in Session
  PROVE  \/ Same(s)
         \/ Begin(s) \/ Decide(s) \/ View(s) \/ phase'[s] = "idle"
         \/ \E r \in Repo : Probe(s, r) \/ Judge(s, r) \/ Show(s, r) \/ OnRepo(s, r)
<1>1. ASSUME NEW t \in Session, t # s, Begin(t) \/ Work(t) \/ Kill(t) PROVE Same(s)
  BY <1>1, OthersSame
<1>2. ASSUME NEW r \in Repo, Move(r) PROVE Same(s)
  BY <1>2 DEF Move, Same
<1>3. CASE UNCHANGED vars
  BY <1>3 DEF vars, eyes, Same
<1>4. Finish(s) \/ Shown(s) \/ Kill(s) => phase'[s] = "idle"
  BY DEF Finish, Shown, Kill, Forget, TypeOK
<1> QED
  BY <1>1, <1>2, <1>3, <1>4 DEF Next, Work, OnRepo

\* No HEAD moves and no record is written; an artifact changes to what a
\* running command has taken.
Quiet ==
  /\ head' = head /\ record' = record
  /\ \A r \in Repo : \/ artifact'[r] = artifact[r]
                     \/ \E t \in Session : job[t][r] = "running" /\ artifact'[r] = taken[t][r]

\* A HEAD moves, a record is written, or neither.
LEMMA WorldCases ==
  ASSUME TypeOK, [Next]_vars
  PROVE  \/ Quiet
         \/ \E r \in Repo : Move(r)
         \/ \E t \in Session, r \in Repo : Record(t, r)
<1>1. ASSUME NEW t \in Session,
             \/ Begin(t) \/ Decide(t) \/ Finish(t) \/ View(t) \/ Shown(t)
             \/ \E r \in Repo : \/ Probe(t, r) \/ Judge(t, r) \/ Run(t, r) \/ Refuse(t, r) \/ Skip(t, r)
                                \/ ReadHead(t, r) \/ Show(t, r)
      PROVE  Quiet
  BY <1>1 DEF Begin, Decide, Finish, View, Shown, Probe, Judge, Run, Refuse, Skip, ReadHead,
              Show, Quiet
<1>2. ASSUME NEW t \in Session, NEW r \in Repo, Build(t, r) \/ Fail(t, r) PROVE Quiet
  BY <1>2 DEF Build, Fail, Quiet, TypeOK
<1>3. ASSUME NEW t \in Session, Kill(t) PROVE Quiet
  <2>1. PICK S \in SUBSET {r \in Repo : job[t][r] = "running"} :
          artifact' = [r \in Repo |-> IF r \in S THEN taken[t][r] ELSE artifact[r]]
    BY <1>3 DEF Kill
  <2>2. head' = head /\ record' = record
    BY <1>3 DEF Kill
  <2> QED
    BY <2>1, <2>2 DEF Quiet
<1>4. CASE UNCHANGED vars
  BY <1>4 DEF vars, Quiet
<1> QED
  BY <1>1, <1>2, <1>3, <1>4 DEF Next, Work

LEMMA HeadStays ==
  ASSUME TypeOK, [Next]_vars, \A r \in Repo : ~Move(r) PROVE head' = head
BY WorldCases DEF Quiet, Record

\* Nothing moves while somebody runs, if MoveWhile says so.
LEMMA IdleStays ==
  ASSUME TypeOK, [Next]_vars, MoveWhile = "idle", NEW s \in Session,
         phase[s] \in {"probing", "running"}
  PROVE  head' = head
BY HeadStays DEF Move

\* An operation on a repo of a running session, in short.
LEMMA OnRepoBecomes ==
  ASSUME TypeOK, NEW s \in Session, Fits(s), NEW r \in Repo, OnRepo(s, r)
  PROVE  \E w \in {"running", "failed", "skipped", "built", "marked", "passed"} : Becomes(s, r, w)
BY Advance DEF OnRepo

\* In an idle world what has been probed stays.
LEMMA ProbedStays ==
  ASSUME TypeOK, SessionInv, ProbeInv, [Next]_vars, MoveWhile = "idle",
         NEW s \in Session, phase'[s] \in {"probing", "running"},
         NEW u \in Universe(Considered(s))'
  PROVE  \/ job'[s][u] = "probe"
         \/ heads'[s][u] = head'[u]
         \/ Blind /\ heads'[s][u] = Absent
<1> DEFINE Good == \/ job'[s][u] = "probe"
                   \/ heads'[s][u] = head'[u]
                   \/ Blind /\ heads'[s][u] = Absent
<1>0. Fits(s)
  BY DEF SessionInv
<1>1. ASSUME phase[s] \in {"probing", "running"}, targets'[s] = targets[s], flags'[s] = flags[s]
      PROVE  /\ head' = head /\ u \in Universe(Considered(s))
             /\ \/ job[s][u] = "probe"
                \/ heads[s][u] = head[u]
                \/ Blind /\ heads[s][u] = Absent
  <2>1. Considered(s)' = Considered(s)
    BY <1>1, ConsideredSame
  <2> QED
    BY <1>1, <2>1, IdleStays DEF ProbeInv, Universe
<1>2. CASE Same(s)
  BY <1>1, <1>2 DEF Same
<1>3. CASE Begin(s)
  <2>1. u \in Repo /\ u \in Universe(targets'[s] \cup Candidates(s)')
    <3>1. u \in Universe(targets'[s] \cup Candidates(s)')
      BY DEF Universe, Considered
    <3> QED
      BY <3>1, UpsFacts, TypeStep DEF Universe, Candidates, TypeOK
  <2>2. job'[s] = [r \in Repo |-> IF r \in Universe(targets'[s] \cup Candidates(s)') THEN "probe" ELSE "out"]
    BY <1>3 DEF Begin, TypeOK
  <2> QED
    BY <2>1, <2>2
<1>4. CASE Decide(s)
  <2>1. phase[s] = "probing" /\ targets' = targets /\ flags' = flags /\ heads' = heads
    BY <1>4 DEF Decide
  <2>2. u \in Repo
    BY <1>1, <2>1, UpsFacts DEF Universe, Considered, Candidates, TypeOK
  <2> QED
    BY <1>1, <1>4, <2>1, <2>2 DEF Decide
<1>5. CASE View(s)
  BY <1>5 DEF View, TypeOK
<1>6. ASSUME NEW r \in Repo, Probe(s, r) PROVE Good
  <2>1. targets' = targets /\ flags' = flags /\ phase' = phase /\ head' = head
    BY <1>6 DEF Probe
  <2>2. u # r => job'[s][u] = job[s][u] /\ heads'[s][u] = heads[s][u]
    BY <1>6 DEF Probe, SetJob, TypeOK, Heads
  <2>3. heads'[s][r] = head[r] \/ (Blind /\ heads'[s][r] = Absent)
    BY <1>6 DEF Probe, TypeOK, Heads
  <2> QED
    BY <1>1, <2>1, <2>2, <2>3
<1>7. ASSUME NEW r \in Repo, Show(s, r) PROVE Good
  BY <1>7 DEF Show
<1>8. ASSUME NEW r \in Repo, OnRepo(s, r) PROVE Good
  <2>1. PICK w : Becomes(s, r, w)
    BY <1>0, <1>8, OnRepoBecomes
  <2>2. u \in Repo
    BY <1>1, <2>1, UpsFacts DEF Universe, Considered, Candidates, TypeOK, Becomes
  <2>3. job[s][u] # "probe"
    BY <1>0, <2>1, <2>2 DEF Fits, Becomes
  <2> QED
    BY <1>1, <2>1, <2>3 DEF Becomes
<1>9. ASSUME NEW c \in Repo, Judge(s, c) PROVE Good
  <2>1. u \in Repo
    BY <1>1, <1>9, Judged, UpsFacts DEF Universe, Considered, Candidates, TypeOK
  <2>2. job[s][u] # "probe"
    BY <1>0, <1>9, <2>1, Judged DEF Fits
  <2> QED
    BY <1>1, <1>9, <2>2, Judged
<1> QED
  BY <1>2, <1>3, <1>4, <1>5, <1>6, <1>7, <1>8, <1>9, SessionCases
\* What a record holds of every repo after it is written, and of the others.
LEMMA Written ==
  ASSUME TypeOK, SessionInv, NEW t \in Session, NEW r \in Repo, Record(t, r)
  PROVE  /\ record'[r] # Absent /\ Recorded(r, r)' = taken[t][r][r]
         /\ \A u \in Ups[r] : Recorded(r, u)' = heads[t][u]
         /\ \A u \in Repo \ Sources(r) : Recorded(r, u)' = Absent
         /\ \A x \in Repo : x # r => record'[x] = record[x]
         /\ head' = head /\ artifact' = artifact
<1>1. record'[r] = [head |-> taken[t][r][r], deps |-> Manifest(t, r)]
  BY DEF Record, TypeOK
<1>2. Manifest(t, r) = [u \in Repo |-> IF u \in Ups[r] THEN heads[t][u] ELSE Absent]
  BY DEF Manifest, Only
<1>3. record'[r] # Absent
  <2>1. taken[t][r][r] \in Commit
    BY DEF SessionInv, Fits, Record
  <2>2. Manifest(t, r) \in Heads
    BY DEF TypeOK, Heads, Manifest, Only
  <2> QED
    BY <1>1, <2>1, <2>2, AbsentAssumption
<1>4. Ups[r] \subseteq Repo /\ r \notin Ups[r]
  BY UpsFacts
<1> QED
  BY <1>1, <1>2, <1>3, <1>4 DEF Record, Recorded, Sources, TypeOK
\* A session takes over HEADs as they are, keeps them or forgets them.
LEMMA HeadsCases ==
  ASSUME TypeOK, SessionInv, [Next]_vars, NEW s \in Session, NEW u \in Repo
  PROVE  heads'[s][u] \in {heads[s][u], head[u], Absent}
<1>0. Fits(s)
  BY DEF SessionInv
<1>1. CASE phase'[s] = "idle"
  BY <1>1, SessionStep DEF SessionInv, Fits, None
<1>2. ASSUME NEW r \in Repo, Probe(s, r) PROVE heads'[s][u] \in {heads[s][u], head[u], Absent}
  BY <1>2 DEF Probe, TypeOK, Heads
<1>3. ASSUME NEW r \in Repo, OnRepo(s, r) PROVE heads'[s][u] = heads[s][u]
  BY <1>0, <1>3, OnRepoBecomes DEF Becomes
<1>4. Begin(s) \/ Decide(s) \/ View(s) \/ (\E r \in Repo : Judge(s, r) \/ Show(s, r))
        => heads' = heads
  BY DEF Begin, Decide, View, Judge, Show
<1> QED
  BY <1>1, <1>2, <1>3, <1>4, SessionCases DEF Same

\* Where a session gets its repos, none is at work yet.
LEMMA NothingBegun ==
  ASSUME TypeOK, NEW s \in Session, NEW r \in Repo, Begin(s) \/ Decide(s) \/ View(s)
  PROVE  job'[s][r] \in {"out", "probe", "asked", "pending"}
<1>1. CASE Begin(s)
  BY <1>1 DEF Begin, TypeOK
<1>2. CASE Decide(s)
  BY <1>2 DEF Decide, TypeOK
<1>3. CASE View(s)
  BY <1>3 DEF View, TypeOK
<1> QED
  BY <1>1, <1>2, <1>3

\* A repo is marked with the HEAD that has just been read, or has been before.
LEMMA MarkCases ==
  ASSUME TypeOK, SessionInv, [Next]_vars, NEW s \in Session, NEW r \in Repo, job'[s][r] = "marked"
  PROVE  \/ /\ taken'[s][r][r] = head[r] /\ head' = head /\ artifact' = artifact
            /\ job[s][r] = "built" /\ record' = record
         \/ job[s][r] = "marked" /\ taken'[s][r] = taken[s][r]
<1>0. Fits(s)
  BY DEF SessionInv
<1>1. CASE Same(s)
  BY <1>1 DEF Same
<1>2. CASE phase'[s] = "idle"
  BY <1>2, SessionStep DEF SessionInv, Fits
<1>3. CASE Begin(s) \/ Decide(s) \/ View(s)
  BY <1>3, NothingBegun
<1>4. ASSUME NEW x \in Repo, Probe(s, x) \/ Judge(s, x) \/ Show(s, x)
      PROVE  job[s][r] = "marked" /\ taken'[s][r] = taken[s][r]
  BY <1>4 DEF Probe, Judge, Show, SetJob, TypeOK
<1>5. ASSUME NEW x \in Repo, OnRepo(s, x), x # r
      PROVE  job[s][r] = "marked" /\ taken'[s][r] = taken[s][r]
  BY <1>0, <1>5, OnRepoBecomes DEF Becomes
<1>6. CASE OnRepo(s, r)
  <2>1. ReadHead(s, r)
    BY <1>0, <1>6, Advance DEF OnRepo, Becomes
  <2>2. Becomes(s, r, "marked") \/ Becomes(s, r, "passed")
    BY <1>0, <2>1, Advance
  <2>3. Becomes(s, r, "marked")
    BY <2>2 DEF Becomes
  <2> QED
    BY <2>1, <2>3 DEF ReadHead, Becomes
<1> QED
  BY <1>1, <1>2, <1>3, <1>4, <1>5, <1>6, SessionCases

LEMMA ProbeStep == TypeOK /\ SessionInv /\ ProbeInv /\ [Next]_vars => ProbeInv'
<1> SUFFICES ASSUME TypeOK, SessionInv, ProbeInv, [Next]_vars, MoveWhile = "idle",
                    NEW s \in Session, NEW r \in Repo, job'[s][r] = "marked"
             PROVE  taken'[s][r][r] = head'[r]
  BY ProbedStays DEF ProbeInv
<1>1. CASE taken'[s][r][r] = head[r] /\ head' = head
  BY <1>1
<1>2. CASE job[s][r] = "marked" /\ taken'[s][r] = taken[s][r]
  <2>1. phase[s] = "running"
    BY <1>2 DEF SessionInv, Fits, TypeOK
  <2>2. head' = head
    BY <2>1, IdleStays
  <2> QED
    BY <1>2, <2>2 DEF ProbeInv
<1> QED
  BY <1>1, <1>2, MarkCases

\* Nothing that was read of a HEAD gets ahead of it.
LEMMA PastStep == TypeOK /\ SessionInv /\ PastInv /\ [Next]_vars => PastInv'
<1> SUFFICES ASSUME TypeOK, SessionInv, PastInv, [Next]_vars, ~Returns PROVE PastInv'
  BY DEF PastInv
<1> USE CommitFacts
<1>1. TypeOK' /\ SessionInv'
  BY TypeStep, SessionStep
<1>2. \A u \in Repo : head[u] <= head'[u] /\ head[u] \in Commit /\ head'[u] \in Commit
  <2>1. ASSUME NEW r \in Repo, Move(r) PROVE \A u \in Repo : head[u] <= head'[u]
    <3>1. PICK c \in Commit : c > head[r] /\ head' = [head EXCEPT ![r] = c]
      BY <2>1 DEF Move
    <3>2. \A u \in Repo : head[u] \in Int /\ head'[u] = IF u = r THEN c ELSE head[u]
      BY <3>1 DEF TypeOK
    <3>3. c \in Int
      OBVIOUS
    <3> QED
      BY <3>1, <3>2, <3>3
  <2>2. \A u \in Repo : head[u] \in Commit /\ head'[u] \in Commit
    BY <1>1 DEF TypeOK
  <2>3. CASE head' = head
    <3>1. \A u \in Repo : head[u] \in Int
      BY <2>2
    <3> QED
      BY <2>2, <2>3, <3>1
  <2> QED
    BY <2>1, <2>2, <2>3, HeadStays
<1>3. ASSUME NEW s \in Session, NEW u \in Repo, heads'[s][u] # Absent
      PROVE  heads'[s][u] <= head'[u]
  <2>1. heads'[s][u] \in Commit
    <3>1. heads'[s] \in Heads
      BY <1>1 DEF TypeOK
    <3> QED
      BY <1>3, <3>1 DEF Heads
  <2>2. heads'[s][u] = heads[s][u] \/ heads'[s][u] = head[u]
    BY <1>3, HeadsCases
  <2>3. heads[s][u] # Absent => heads[s][u] <= head[u]
    BY DEF PastInv
  <2>4. head[u] <= head'[u] /\ head[u] \in Int /\ head'[u] \in Int /\ heads'[s][u] \in Int
    BY <1>2, <2>1
  <2> QED
    BY <1>3, <2>2, <2>3, <2>4
<1>4. ASSUME NEW s \in Session, NEW r \in Repo, job'[s][r] = "marked"
      PROVE  taken'[s][r][r] <= head'[r]
  <2>1. taken'[s][r][r] \in Commit
    BY <1>1, <1>4 DEF SessionInv, Fits
  <2>2. job[s][r] = "marked" => taken[s][r][r] <= head[r]
    BY DEF PastInv
  <2>3. taken'[s][r][r] = head[r] \/ (job[s][r] = "marked" /\ taken'[s][r][r] = taken[s][r][r])
    BY <1>4, MarkCases
  <2>4. head[r] <= head'[r] /\ head[r] \in Int /\ head'[r] \in Int /\ taken'[s][r][r] \in Int
    BY <1>2, <2>1
  <2> QED
    BY <2>2, <2>3, <2>4
<1>5. ASSUME NEW r \in Repo, NEW u \in Repo, record'[r] # Absent, Recorded(r, u)' # Absent
      PROVE  Recorded(r, u)' <= head'[u]
  <2>1. Recorded(r, u)' \in Commit
    BY <1>1, <1>5 DEF TypeOK, Heads, Recorded
  <2>2. CASE record'[r] = record[r]
    <3>1. Recorded(r, u)' = Recorded(r, u)
      BY <2>2 DEF Recorded
    <3>2. Recorded(r, u) <= head[u]
      BY <1>5, <2>2, <3>1 DEF PastInv
    <3>3. head[u] <= head'[u] /\ head[u] \in Int /\ head'[u] \in Int /\ Recorded(r, u) \in Int
      BY <1>2, <2>1, <3>1
    <3> QED
      BY <3>1, <3>2, <3>3
  <2>3. ASSUME NEW t \in Session, Record(t, r) PROVE Recorded(r, u)' <= head'[u]
    <3>1. job[t][r] = "marked"
      BY <2>3 DEF Record
    <3>2. CASE u = r
      BY <1>2, <2>3, <3>1, <3>2, Written DEF PastInv
    <3>3. CASE u \in Ups[r]
      BY <1>2, <1>5, <2>3, <3>3, Written DEF PastInv
    <3>4. CASE u \notin Sources(r)
      BY <1>5, <2>3, <3>4, Written
    <3> QED
      BY <3>2, <3>3, <3>4 DEF Sources
  <2>4. record'[r] = record[r] \/ \E t \in Session : Record(t, r)
    BY WorldCases, Written DEF Quiet, Move
  <2> QED
    BY <2>2, <2>3, <2>4
<1> QED
  BY <1>3, <1>4, <1>5 DEF PastInv
\* A repo is at work only after all below it, in dependency order.
LEMMA OrderStep == TypeOK /\ SessionInv /\ OrderInv /\ [Next]_vars => OrderInv'
<1> SUFFICES ASSUME TypeOK, SessionInv, OrderInv, [Next]_vars, NEW s \in Session,
                    phase'[s] = "running", Ordered(s)', NEW r \in Repo,
                    job'[s][r] \in {"running", "built", "marked"}, NEW u \in Ups[r]
             PROVE  job'[s][u] \in {"out", "passed"}
  BY DEF OrderInv
<1>0. Fits(s) /\ u \in Repo /\ u # r
  BY UpsFacts DEF SessionInv
<1>1. CASE Same(s)
  BY <1>0, <1>1 DEF Same, OrderInv, Ordered
<1>2. CASE Begin(s) \/ View(s)
  BY <1>2 DEF Begin, View, TypeOK
<1>3. CASE Decide(s)
  BY <1>3 DEF Decide, TypeOK
<1>4. ASSUME NEW x \in Repo, Probe(s, x) \/ Show(s, x) PROVE FALSE
  BY <1>4 DEF Probe, Show
<1>5. ASSUME NEW x \in Repo, OnRepo(s, x) PROVE job'[s][u] \in {"out", "passed"}
  <2>1. PICK w \in {"running", "failed", "skipped", "built", "marked", "passed"} : Becomes(s, x, w)
    BY <1>0, <1>5, OnRepoBecomes
  <2>2. Ordered(s)
    BY <2>1 DEF Becomes, Ordered
  <2>3. CASE job[s][r] \in {"running", "built", "marked"}
    <3>1. job[s][u] \in {"out", "passed"}
      BY <1>0, <2>1, <2>2, <2>3 DEF OrderInv, Becomes
    <3> QED
      BY <1>0, <2>1, <3>1 DEF Becomes
  <2>4. CASE job[s][r] \notin {"running", "built", "marked"}
    <3>1. x = r
      BY <2>1, <2>4 DEF Becomes
    <3>2. Run(s, r)
      BY <1>0, <1>5, <2>4, <3>1, Advance DEF OnRepo, Becomes, Build, ReadHead, Record
    <3>3. job[s][u] \in {"out", "passed"}
      BY <1>0, <2>2, <3>2 DEF Run, Ready
    <3> QED
      BY <1>0, <2>1, <3>1, <3>3 DEF Becomes
  <2> QED
    BY <2>3, <2>4
<1>6. ASSUME NEW c \in Repo, Judge(s, c) PROVE job'[s][u] \in {"out", "passed"}
  <2>1. Ordered(s) /\ r # c /\ job[s][r] \in {"running", "built", "marked"}
    BY <1>6, Judged DEF Ordered
  <2>2. job[s][u] \in {"out", "passed"}
    BY <1>6, <2>1, Judged DEF OrderInv
  <2> QED
    BY <1>0, <1>6, <2>2, Judged
<1> QED
  BY <1>1, <1>2, <1>3, <1>4, <1>5, <1>6, SessionCases

\* A running command has just taken its inputs, or has kept them.
LEMMA TakenCases ==
  ASSUME TypeOK, SessionInv, [Next]_vars, NEW s \in Session, NEW r \in Repo, job'[s][r] = "running"
  PROVE  \/ Run(s, r) /\ taken'[s][r] = Inputs(s, r)
         \/ job[s][r] = "running" /\ taken'[s][r] = taken[s][r]
<1>0. Fits(s)
  BY DEF SessionInv
<1>1. CASE Same(s)
  BY <1>1 DEF Same
<1>2. CASE phase'[s] = "idle"
  BY <1>2, SessionStep DEF SessionInv, Fits
<1>3. CASE Begin(s) \/ Decide(s) \/ View(s)
  BY <1>3, NothingBegun
<1>4. ASSUME NEW x \in Repo, Probe(s, x) \/ Judge(s, x) \/ Show(s, x)
      PROVE  job[s][r] = "running" /\ taken'[s][r] = taken[s][r]
  BY <1>4 DEF Probe, Judge, Show, SetJob, TypeOK
<1>5. ASSUME NEW x \in Repo, OnRepo(s, x), x # r
      PROVE  job[s][r] = "running" /\ taken'[s][r] = taken[s][r]
  BY <1>0, <1>5, OnRepoBecomes DEF Becomes
<1>6. CASE OnRepo(s, r)
  <2>1. Run(s, r)
    BY <1>0, <1>6, Advance DEF OnRepo, Becomes
  <2> QED
    BY <2>1 DEF Run, TypeOK
<1> QED
  BY <1>1, <1>2, <1>3, <1>4, <1>5, <1>6, SessionCases

\* What a command takes comes from its repo and the upstreams.
LEMMA InputsShape ==
  ASSUME TypeOK, ShapeInv, NEW s \in Session, NEW r \in Repo, NEW x \in Repo \ Sources(r)
  PROVE  Inputs(s, r)[x] = Absent
<1>1. CASE dry[s] /\ r \in targets[s]
  BY <1>1 DEF Inputs, ShapeInv
<1>2. CASE ~(dry[s] /\ r \in targets[s]) /\ Consumes = "sources"
  BY <1>2 DEF Inputs, Only, Sources
<1>3. CASE ~(dry[s] /\ r \in targets[s]) /\ Consumes # "sources"
  BY <1>3 DEF Inputs, Sources
<1> QED
  BY <1>1, <1>2, <1>3

LEMMA ShapeStep == TypeOK /\ SessionInv /\ ShapeInv /\ [Next]_vars => ShapeInv'
<1> SUFFICES ASSUME TypeOK, SessionInv, ShapeInv, [Next]_vars,
                    NEW r \in Repo, NEW x \in Repo \ Sources(r)
             PROVE  /\ artifact'[r][x] = Absent
                    /\ \A s \in Session : job'[s][r] = "running" => taken'[s][r][x] = Absent
  BY DEF ShapeInv, Sources
<1>1. artifact'[r][x] = Absent
  <2>1. \/ artifact'[r] = artifact[r]
        \/ \E t \in Session : job[t][r] = "running" /\ artifact'[r] = taken[t][r]
    BY WorldCases, Written DEF Quiet, Move
  <2> QED
    BY <2>1 DEF ShapeInv
<1>2. ASSUME NEW s \in Session, job'[s][r] = "running" PROVE taken'[s][r][x] = Absent
  BY <1>2, TakenCases, InputsShape DEF ShapeInv
<1> QED
  BY <1>1, <1>2

----------------------------------------------------------------------------
(* Trust: what records, runs and commands say of the artifacts.            *)

\* A HEAD that moves has never been where it is then.
LEMMA MoveFacts ==
  ASSUME TypeOK, SessionInv, PastInv, ~Returns, NEW w \in Repo, Move(w)
  PROVE  /\ artifact' = artifact /\ record' = record
         /\ \A u \in Repo : u # w => head'[u] = head[u]
         /\ \A s \in Session : heads[s][w] # head'[w]
         /\ \A x \in Repo : record[x] # Absent => Recorded(x, w) # head'[w]
         /\ \A s \in Session : job[s][w] = "marked" => taken[s][w][w] # head'[w]
<1>1. PICK c \in Commit : c > head[w] /\ head' = [head EXCEPT ![w] = c]
  BY DEF Move
<1>2. head'[w] = c /\ c # Absent /\ head[w] \in Int /\ c \in Int /\ c > head[w]
  BY <1>1, CommitFacts DEF TypeOK
<1>3. \A n \in Int : n <= head[w] => n # c
  BY <1>2
<1>4. ASSUME NEW s \in Session PROVE heads[s][w] # c
  <2>1. heads[s][w] \in Commit \cup {Absent}
    BY DEF TypeOK, Heads
  <2>2. heads[s][w] # Absent => heads[s][w] <= head[w] /\ heads[s][w] \in Int
    BY <2>1, CommitFacts DEF PastInv
  <2> QED
    BY <1>2, <1>3, <2>2
<1>5. ASSUME NEW x \in Repo, record[x] # Absent PROVE Recorded(x, w) # c
  <2>1. Recorded(x, w) \in Commit \cup {Absent}
    BY <1>5 DEF TypeOK, Heads, Recorded
  <2>2. Recorded(x, w) # Absent => Recorded(x, w) <= head[w] /\ Recorded(x, w) \in Int
    BY <1>5, <2>1, CommitFacts DEF PastInv
  <2> QED
    BY <1>2, <1>3, <2>2
<1>6. ASSUME NEW s \in Session, job[s][w] = "marked" PROVE taken[s][w][w] # c
  <2>1. taken[s][w][w] \in Int
    BY <1>6, CommitFacts DEF SessionInv, Fits
  <2>2. taken[s][w][w] <= head[w]
    BY <1>6 DEF PastInv
  <2> QED
    BY <1>3, <2>1, <2>2
<1>7. artifact' = artifact /\ record' = record /\ \A u \in Repo : u # w => head'[u] = head[u]
  BY <1>1 DEF Move, TypeOK
<1> QED
  BY <1>2, <1>4, <1>5, <1>6, <1>7

\* A session that runs has just begun to, or goes on with one repo.
LEMMA RunCases ==
  ASSUME TypeOK, SessionInv, [Next]_vars, NEW s \in Session, phase'[s] = "running"
  PROVE  \/ Decide(s)
         \/ /\ phase[s] = "running" /\ flags'[s] = flags[s] /\ targets'[s] = targets[s]
            /\ heads'[s] = heads[s] /\ Considered(s)' = Considered(s)
            /\ \A v \in Repo : job'[s][v] = job[s][v] \/ OnRepo(s, v) \/ Judge(s, v)
<1> DEFINE On == /\ phase[s] = "running" /\ flags'[s] = flags[s] /\ targets'[s] = targets[s]
                 /\ heads'[s] = heads[s] /\ Considered(s)' = Considered(s)
                 /\ \A v \in Repo : job'[s][v] = job[s][v] \/ OnRepo(s, v) \/ Judge(s, v)
<1>0. Fits(s)
  BY DEF SessionInv
<1>1. CASE Same(s)
  <2>1. Considered(s)' = Considered(s)
    BY <1>1, ConsideredSame DEF Same
  <2> QED
    BY <1>1, <2>1 DEF Same
<1>2. CASE Begin(s) \/ View(s)
  BY <1>2 DEF Begin, View, TypeOK
<1>3. ASSUME NEW r \in Repo, Probe(s, r) \/ Show(s, r) PROVE FALSE
  BY <1>3 DEF Probe, Show
<1>4. ASSUME NEW r \in Repo, OnRepo(s, r) PROVE On
  <2>1. PICK w : Becomes(s, r, w)
    BY <1>0, <1>4, OnRepoBecomes
  <2>2. Considered(s)' = Considered(s)
    BY <2>1, ConsideredSame DEF Becomes
  <2> QED
    BY <1>4, <2>1, <2>2 DEF Becomes
<1>5. ASSUME NEW c \in Repo, Judge(s, c) PROVE On
  BY <1>5, Judged
<1> QED
  BY <1>1, <1>2, <1>3, <1>4, <1>5, SessionCases

\* A repo that is at work belongs to a running session that considers it.
LEMMA AtWork ==
  ASSUME TypeOK, SessionInv, NEW s \in Session, NEW r \in Repo,
         job[s][r] \notin {"out", "probe"}
  PROVE  phase[s] = "running" /\ r \in Considered(s) /\ flags[s] \in Flags /\ (dry[s] => DryRuns)
BY DEF SessionInv, Fits, TypeOK

\* With artifacts to be consumed, a run considers all that is below what it runs.
LEMMA BelowConsidered ==
  ASSUME TypeOK, Orderly, Consumes = "artifacts", NEW s \in Session, flags[s] \in Flags,
         NEW r \in Considered(s), NEW d \in Ups[r]
  PROVE  d \in Considered(s) /\ Ordered(s)
<1>1. flags[s].deps /\ (flags[s].dependents => Related)
  BY DEF Orderly
<1>2. r \in Repo /\ d \in Repo
  BY UpsFacts, ConsideredRepos
<1>3. PICK t \in targets[s] :
        \/ r = t \/ r \in Ups[t]
        \/ flags[s].dependents /\ r \in Downs[t]
  BY DEF Considered, Candidates
<1>4. t \in Repo
  BY DEF TypeOK
<1>5. CASE r = t \/ r \in Ups[t]
  <2>1. d \in Ups[t]
    BY <1>2, <1>4, <1>5, UpsFacts
  <2> QED
    BY <1>1, <1>2, <2>1 DEF Considered, Candidates, Ordered
<1>6. CASE flags[s].dependents /\ r \in Downs[t]
  <2>1. d \in {t} \cup Ups[t] \cup Downs[t]
    BY <1>1, <1>4, <1>6 DEF Related
  <2> QED
    BY <1>1, <1>2, <1>6, <2>1 DEF Considered, Candidates, Ordered
<1> QED
  BY <1>3, <1>5, <1>6

Trust ==
  /\ TypeOK /\ SessionInv /\ ProbeInv /\ PastInv /\ OrderInv
  /\ RecordInv /\ WorkInv /\ OwnInv

\* In an idle world a run that reads every HEAD knows them all.
LEMMA IdleKnows ==
  ASSUME TypeOK, ProbeInv, MoveWhile = "idle", NEW s \in Session, phase[s] = "running",
         SessionInv, NEW v \in Considered(s), NEW u \in Sources(v)
  PROVE  heads[s][u] = head[u] \/ (Blind /\ heads[s][u] = Absent)
<1>1. u \in Universe(Considered(s)) /\ u \in Repo
  BY ConsideredRepos, UpsFacts DEF Sources
<1>2. job[s][u] # "probe"
  BY <1>1 DEF SessionInv, Fits
<1> QED
  BY <1>1, <1>2 DEF ProbeInv

\* What a direct dependency carries when its consumer starts.
LEMMA CarriedByOne ==
  ASSUME Trust, Orderly, Consumes = "artifacts", NEW s \in Session, NEW r \in Repo,
         Ready(s, r), NEW u \in Ups[r], NEW d \in D[r], u \in Sources(d),
         heads[s][u] = head[u] \/ Vouched(r, u) \/ Calm
  PROVE  artifact[d][u] = head[u]
<1> USE DEF Trust
<1>1. phase[s] = "running" /\ r \in Considered(s) /\ flags[s] \in Flags
  BY AtWork DEF Ready
<1>2. d \in Ups[r] /\ d \in Repo /\ u \in Repo
  BY UpsFacts
<1>3. d \in Considered(s) /\ Ordered(s)
  BY <1>1, <1>2, BelowConsidered
<1>4. job[s][d] \in {"out", "passed"}
  BY <1>2, <1>3 DEF Ready
<1>5. CASE heads[s][u] = head[u]
  BY <1>1, <1>3, <1>4, <1>5 DEF WorkInv
<1>6. CASE Vouched(r, u)
  <2>1. Vouched(d, u)
    BY <1>2, <1>6, UpsFacts DEF Vouched
  <2> QED
    BY <1>2, <2>1 DEF RecordInv
<1>7. CASE Calm
  <2>1. CASE Blind
    <3>1. Ups[d] = {}
      BY <1>2, <1>7, <2>1 DEF Calm, Flat
    <3>2. u = d
      BY <3>1 DEF Sources
    <3> QED
      BY <1>1, <1>3, <1>4, <1>7, <3>2 DEF WorkInv, Calm
  <2>2. CASE ~Blind
    BY <1>1, <1>3, <1>5, <1>7, <2>2, IdleKnows DEF Calm
  <2> QED
    BY <2>1, <2>2
<1> QED
  BY <1>5, <1>6, <1>7

\* A command takes the present version of what its run has seen, of what is
\* vouched for, and of everything in a calm world.
LEMMA InputsGood ==
  ASSUME Trust, Orderly, NEW s \in Session, NEW r \in Repo, Ready(s, r), NEW u \in Sources(r),
         u = r \/ heads[s][u] = head[u] \/ Vouched(r, u) \/ Calm
  PROVE  Inputs(s, r)[u] = head[u]
<1> USE DEF Trust
<1>1. ~dry[s]
  BY AtWork DEF Ready, Orderly
<1>2. u \in Repo
  BY UpsFacts DEF Sources
<1>3. CASE Consumes = "sources"
  BY <1>1, <1>2, <1>3 DEF Inputs, Only, Sources
<1>4. CASE Consumes # "sources" /\ u = r
  BY <1>1, <1>2, <1>4 DEF Inputs
<1>5. CASE Consumes # "sources" /\ u # r
  <2>1. Consumes = "artifacts" /\ u \in Ups[r]
    BY <1>5, FreshnessAssumption DEF Sources
  <2> DEFINE V == {artifact[d][u] : d \in {d \in D[r] : u = d \/ u \in Ups[d]}}
  <2>2. \A v \in V : v = head[u]
    BY <1>5, <2>1, CarriedByOne DEF Sources
  <2>3. \E d \in D[r] : u = d \/ u \in Ups[d]
    BY <2>1, UpsFacts
  <2>4. V = {head[u]}
    BY <2>2, <2>3
  <2>5. Carried(r, u) = IF \E v \in V : V = {v} THEN CHOOSE v \in V : TRUE ELSE Absent
    BY DEF Carried
  <2>6. Carried(r, u) = head[u]
    BY <2>4, <2>5
  <2>7. Inputs(s, r) = [x \in Repo |-> IF x = r THEN head[r]
                                       ELSE IF x \in Ups[r] THEN Carried(r, x) ELSE Absent]
    BY <1>1, <1>5 DEF Inputs
  <2> QED
    BY <1>2, <1>5, <2>1, <2>6, <2>7
<1> QED
  BY <1>3, <1>4, <1>5

\* A repo gets done by leaving its artifact, or goes on with what it has left.
LEMMA DoneCases ==
  ASSUME TypeOK, SessionInv, NEW s \in Session, NEW r \in Repo, OnRepo(s, r),
         job'[s][r] \in {"out", "built", "marked", "passed"}
  PROVE  /\ head' = head
         /\ \/ job'[s][r] = "built" /\ job[s][r] = "running" /\ artifact'[r] = taken[s][r]
            \/ /\ job'[s][r] \in {"marked", "passed"} /\ job[s][r] \in {"built", "marked"}
               /\ artifact' = artifact
<1>0. Fits(s)
  BY DEF SessionInv
<1>1. Build(s, r) \/ ReadHead(s, r) \/ Record(s, r)
  BY <1>0, Advance DEF OnRepo, Becomes
<1>2. CASE Build(s, r)
  BY <1>2 DEF Build, SetJob, TypeOK
<1>3. CASE ReadHead(s, r)
  <2>1. job'[s][r] \in {"marked", "passed"}
    BY <1>0, <1>3, Advance DEF Becomes
  <2> QED
    BY <1>3, <2>1 DEF ReadHead
<1>4. CASE Record(s, r)
  BY <1>4 DEF Record, SetJob, TypeOK
<1> QED
  BY <1>1, <1>2, <1>3, <1>4

\* No HEAD moves under a command, or at all while somebody runs, where records
\* can be trusted.
LEMMA OrderlyMove ==
  ASSUME TypeOK, SessionInv, Orderly, NEW w \in Repo, Move(w), NEW s \in Session
  PROVE  /\ job[s][w] \notin {"running", "built"}
         /\ MoveWhile = "idle" => phase[s] # "running"
<1>1. MoveWhile \in {"idle", "others"}
  BY FreshnessAssumption DEF Orderly, Calm
<1>2. CASE MoveWhile = "idle"
  BY <1>2, AtWork DEF Move
<1>3. CASE MoveWhile = "others"
  BY <1>3 DEF Move
<1> QED
  BY <1>1, <1>2, <1>3

LEMMA OwnStep == Trust /\ [Next]_vars => OwnInv'
<1> SUFFICES ASSUME Trust, [Next]_vars, Orderly, NEW s \in Session, NEW r \in Repo
             PROVE  /\ job'[s][r] = "running" => taken'[s][r][r] = head'[r]
                    /\ job'[s][r] = "built" => artifact'[r][r] = head'[r]
                    /\ job'[s][r] = "marked" /\ taken'[s][r][r] = head'[r] => artifact'[r][r] = head'[r]
  BY DEF OwnInv, Orderly, Calm, Flat, Alone, Related
<1> USE DEF Trust
<1>0. ~Returns /\ r \in Sources(r)
  BY DEF Orderly, Sources
<1>1. ASSUME job'[s][r] = "running" PROVE taken'[s][r][r] = head'[r]
  <2>1. CASE Run(s, r) /\ taken'[s][r] = Inputs(s, r)
    BY <1>0, <2>1, InputsGood DEF Run
  <2>2. CASE job[s][r] = "running" /\ taken'[s][r] = taken[s][r]
    <3>1. head'[r] = head[r]
      BY <1>0, <2>2, OrderlyMove, MoveFacts, HeadStays
    <3> QED
      BY <2>2, <3>1 DEF OwnInv
  <2> QED
    BY <1>1, <2>1, <2>2, TakenCases
\* Whoever else leaves an artifact leaves one of the HEAD.
<1>2. ASSUME head' = head, artifact[r][r] = head[r] PROVE artifact'[r][r] = head'[r]
  <2>1. \/ artifact'[r] = artifact[r]
        \/ \E t \in Session : job[t][r] = "running" /\ artifact'[r] = taken[t][r]
    BY WorldCases, Written, MoveFacts, <1>0 DEF Quiet
  <2> QED
    BY <1>2, <2>1 DEF OwnInv
<1>3. ASSUME job'[s][r] = "built" PROVE artifact'[r][r] = head'[r]
  <2>1. phase'[s] = "running"
    BY <1>3, TypeStep, SessionStep DEF SessionInv, Fits, TypeOK
  <2>2. ~Decide(s)
    BY <1>3, NothingBegun
  <2>3. CASE OnRepo(s, r)
    BY <1>3, <2>3, DoneCases DEF OwnInv
  <2>4. CASE job[s][r] = "built"
    <3>1. artifact[r][r] = head[r]
      BY <2>4 DEF OwnInv
    <3>2. CASE \E w \in Repo : Move(w)
      BY <1>0, <2>4, <3>1, <3>2, OrderlyMove, MoveFacts
    <3> QED
      BY <1>2, <3>1, <3>2, HeadStays
  <2>5. ~Judge(s, r)
    BY <1>3, Judged
  <2> QED
    BY <1>3, <2>1, <2>2, <2>3, <2>4, <2>5, RunCases
<1>4. ASSUME job'[s][r] = "marked", taken'[s][r][r] = head'[r] PROVE artifact'[r][r] = head'[r]
  <2>1. CASE job[s][r] = "built" /\ head' = head
    BY <1>2, <2>1 DEF OwnInv
  <2>2. CASE job[s][r] = "marked" /\ taken'[s][r] = taken[s][r]
    <3>1. ASSUME NEW w \in Repo, Move(w) PROVE artifact'[r][r] = head'[r]
      <4>1. w # r
        BY <1>0, <1>4, <2>2, <3>1, MoveFacts
      <4>2. artifact' = artifact /\ head'[r] = head[r]
        BY <1>0, <3>1, <4>1, MoveFacts
      <4> QED
        BY <1>4, <2>2, <4>2 DEF OwnInv
    <3>2. CASE head' = head
      BY <1>2, <1>4, <2>2, <3>2 DEF OwnInv
    <3> QED
      BY <3>1, <3>2, HeadStays
  <2> QED
    BY <1>4, <2>1, <2>2, MarkCases
<1> QED
  BY <1>1, <1>3, <1>4

\* Whoever vouches after a HEAD has moved did so before, of another repo.
LEMMA VouchedMove ==
  ASSUME TypeOK, SessionInv, PastInv, ~Returns, NEW w \in Repo, Move(w),
         NEW v \in Repo, NEW u \in Repo, Vouched(v, u)'
  PROVE  u # w /\ Vouched(v, u)
<1>1. PICK x \in Repo : /\ record'[x] # Absent /\ Recorded(x, u)' = head'[u]
                        /\ x = v \/ (Consumes = "artifacts" /\ v \in Ups[x])
  BY DEF Vouched
<1>2. record' = record /\ Recorded(x, u)' = Recorded(x, u)
  BY MoveFacts DEF Recorded
<1>3. u # w
  BY <1>1, <1>2, MoveFacts
<1> QED
  BY <1>1, <1>2, <1>3, MoveFacts DEF Vouched

\* Where nothing moves and nothing is recorded, who vouches has vouched.
LEMMA VouchedSame ==
  ASSUME head' = head, record' = record, NEW v \in Repo, NEW u \in Repo
  PROVE  Vouched(v, u)' <=> Vouched(v, u)
BY DEF Vouched, Recorded

\* A new record vouches for its repo, and for those below it where artifacts
\* are consumed: they are out of the way then.
LEMMA VouchedRecord ==
  ASSUME Trust, Orderly, NEW t \in Session, NEW x \in Repo, Record(t, x),
         NEW v \in Repo, NEW u \in Sources(v), Vouched(v, u)'
  PROVE  \/ Vouched(v, u)
         \/ v = x /\ u = x /\ taken[t][x][x] = head[x]
         \/ v = x /\ u # x /\ heads[t][u] = head[u]
         \/ /\ v \in Considered(t) /\ job[t][v] \in {"out", "passed"} /\ heads[t][u] = head[u]
<1> USE DEF Trust
<1>1. PICK y \in Repo : /\ record'[y] # Absent /\ Recorded(y, u)' = head'[u]
                        /\ y = v \/ (Consumes = "artifacts" /\ v \in Ups[y])
  BY DEF Vouched
<1>2. head' = head
  BY Written
<1>3. CASE y # x
  <2>1. record'[y] = record[y]
    BY <1>3, Written
  <2> QED
    BY <1>1, <1>2, <2>1 DEF Vouched, Recorded
<1>4. CASE y = x /\ v = x
  BY <1>1, <1>2, <1>4, Written DEF Sources
<1>5. CASE y = x /\ Consumes = "artifacts" /\ v \in Ups[x]
  <2>1. job[t][x] = "marked"
    BY DEF Record
  <2>2. phase[t] = "running" /\ x \in Considered(t) /\ flags[t] \in Flags
    BY <2>1, AtWork
  <2>3. v \in Considered(t) /\ Ordered(t)
    BY <1>5, <2>2, BelowConsidered
  <2>4. job[t][v] \in {"out", "passed"}
    BY <1>5, <2>1, <2>2, <2>3 DEF OrderInv
  <2>5. u \in Ups[x]
    BY <1>5, UpsFacts DEF Sources
  <2>6. heads[t][u] = head[u]
    BY <1>1, <1>2, <1>5, <2>5, Written
  <2> QED
    BY <2>3, <2>4, <2>6
<1> QED
  BY <1>1, <1>3, <1>4, <1>5

\* What is vouched for stays true of the artifacts.
LEMMA RecordStep == Trust /\ [Next]_vars => RecordInv'
<1> SUFFICES ASSUME Trust, [Next]_vars, Orderly, NEW v \in Repo, NEW u \in Sources(v), Vouched(v, u)'
             PROVE  artifact'[v][u] = head'[u]
  BY DEF RecordInv, Orderly, Calm, Flat, Alone, Related, Sources
<1> USE DEF Trust
<1>0. ~Returns /\ u \in Repo
  BY UpsFacts DEF Orderly, Sources
<1>1. CASE Quiet
  <2>1. Vouched(v, u)
    BY <1>0, <1>1, VouchedSame DEF Quiet
  <2>2. CASE artifact'[v] = artifact[v]
    BY <1>1, <2>1, <2>2 DEF RecordInv, Quiet
  <2>3. ASSUME NEW t \in Session, job[t][v] = "running", artifact'[v] = taken[t][v]
        PROVE  artifact'[v][u] = head'[u]
    <3>1. phase[t] = "running" /\ v \in Considered(t)
      BY <2>3, AtWork
    <3>2. taken[t][v][u] = head[u]
      BY <2>1, <2>3, <3>1 DEF WorkInv
    <3> QED
      BY <1>1, <2>3, <3>2 DEF Quiet
  <2> QED
    BY <1>1, <2>2, <2>3 DEF Quiet
<1>2. ASSUME NEW w \in Repo, Move(w) PROVE artifact'[v][u] = head'[u]
  <2>1. u # w /\ Vouched(v, u)
    BY <1>0, <1>2, VouchedMove
  <2>2. artifact' = artifact /\ head'[u] = head[u]
    BY <1>0, <1>2, <2>1, MoveFacts
  <2> QED
    BY <2>1, <2>2 DEF RecordInv
<1>3. ASSUME NEW t \in Session, NEW x \in Repo, Record(t, x) PROVE artifact'[v][u] = head'[u]
  <2>1. head' = head /\ artifact' = artifact
    BY <1>3, Written
  <2>2. job[t][x] = "marked" /\ phase[t] = "running" /\ x \in Considered(t)
    BY <1>3, AtWork DEF Record
  <2>3. CASE Vouched(v, u)
    BY <2>1, <2>3 DEF RecordInv
  <2>4. CASE v = x /\ u = x /\ taken[t][x][x] = head[x]
    BY <2>1, <2>2, <2>4 DEF OwnInv
  <2>5. CASE v = x /\ u # x /\ heads[t][u] = head[u]
    BY <2>1, <2>2, <2>5 DEF WorkInv
  <2>6. CASE v \in Considered(t) /\ job[t][v] \in {"out", "passed"} /\ heads[t][u] = head[u]
    BY <2>1, <2>2, <2>6 DEF WorkInv
  <2> QED
    BY <1>3, <2>3, <2>4, <2>5, <2>6, VouchedRecord
<1> QED
  BY <1>1, <1>2, <1>3, WorldCases

\* Where a run begins, nothing that it considers has been left out.
LEMMA NothingLeftOut ==
  ASSUME TypeOK, NEW s \in Session, Decide(s), NEW v \in Considered(s)', v \in Repo
  PROVE  job'[s][v] \in {"pending", "asked"}
<1>1. v \in targets[s] \cup Candidates(s)
  BY ConsideredSame DEF Decide, Considered
<1> QED
  BY <1>1 DEF Decide, TypeOK

\* What a run leaves as it is is vouched for by its record.
LEMMA LeftOut ==
  ASSUME Trust, Orderly, NEW s \in Session, NEW v \in Considered(s), Judge(s, v), ~IsStale(v, heads[s]),
         NEW u \in Sources(v), heads[s][u] = head[u] \/ (u = v /\ MoveWhile = "idle")
  PROVE  artifact[v][u] = head[u]
<1> USE DEF Trust
<1>1. v \in Repo /\ u \in Repo
  BY ConsideredRepos, UpsFacts DEF Sources
<1>2. record[v] # Absent /\ heads[s][v] = record[v].head /\ \A x \in Ups[v] : heads[s][x] = record[v].deps[x]
  BY DEF IsStale, Drift
<1>3. heads[s][u] = Recorded(v, u)
  BY <1>2 DEF Recorded, Sources
<1>4. CASE heads[s][u] = head[u]
  BY <1>1, <1>2, <1>3, <1>4 DEF RecordInv, Vouched
<1>5. CASE u = v /\ MoveWhile = "idle"
  <2>1. heads[s][v] \in Commit
    BY <1>1, <1>2 DEF TypeOK
  <2>2. v \in Universe(Considered(s)) /\ phase[s] = "running" /\ job[s][v] # "probe"
    BY <1>1, ConsideredRepos DEF Judge
  <2>3. heads[s][v] = head[v]
    BY <1>5, <2>1, <2>2, CommitFacts DEF ProbeInv
  <2> QED
    BY <1>4, <1>5, <2>3
<1> QED
  BY <1>4, <1>5

LEMMA WorkStep == Trust /\ [Next]_vars => WorkInv'
<1> SUFFICES ASSUME Trust, [Next]_vars, Orderly, NEW s \in Session, phase'[s] = "running",
                    NEW v \in Considered(s)', NEW u \in Sources(v)
             PROVE  /\ job'[s][v] \in {"out", "built", "marked", "passed"} =>
                         (heads'[s][u] = head'[u] \/ (u = v /\ MoveWhile = "idle")
                            => artifact'[v][u] = head'[u])
                    /\ job'[s][v] = "running" =>
                         (heads'[s][u] = head'[u] \/ Vouched(v, u)' \/ Calm => taken'[s][v][u] = head'[u])
  BY DEF WorkInv, Orderly, Calm, Flat, Alone, Related, Sources
<1> USE DEF Trust
<1>0. ~Returns /\ v \in Repo /\ u \in Repo
  <2>1. TypeOK'
    BY TypeStep
  <2>2. v \in Repo
    BY <2>1, UpsFacts DEF TypeOK, Considered, Candidates
  <2> QED
    BY <2>2, UpsFacts DEF Orderly, Sources
<1> DEFINE On == /\ phase[s] = "running" /\ flags'[s] = flags[s] /\ targets'[s] = targets[s]
                 /\ heads'[s] = heads[s] /\ Considered(s)' = Considered(s)
                 /\ \A x \in Repo : job'[s][x] = job[s][x] \/ OnRepo(s, x) \/ Judge(s, x)
\* What is left, or has been left, is still good.
<1>1. ASSUME job'[s][v] \in {"out", "built", "marked", "passed"},
             heads'[s][u] = head'[u] \/ (u = v /\ MoveWhile = "idle")
      PROVE  artifact'[v][u] = head'[u]
  <2>1. ~Decide(s)
    BY <1>0, <1>1, NothingLeftOut
  <2>4. CASE Judge(s, v)
    <3>1. v \in Considered(s) /\ heads' = heads /\ head' = head /\ artifact' = artifact
      BY <1>0, <2>4, Judged
    <3>2. ~IsStale(v, heads[s])
      BY <1>0, <1>1, <2>4, Judged
    <3> QED
      BY <1>1, <2>4, <3>1, <3>2, LeftOut
  <2>2. CASE On /\ OnRepo(s, v)
    <3>1. head' = head /\ heads'[s] = heads[s] /\ v \in Considered(s)
      BY <1>0, <1>1, <2>2, DoneCases
    <3>2. CASE job[s][v] = "running" /\ artifact'[v] = taken[s][v]
      BY <1>0, <1>1, <2>2, <3>1, <3>2 DEF WorkInv, OwnInv
    <3>3. CASE job[s][v] \in {"built", "marked"} /\ artifact' = artifact
      BY <1>1, <2>2, <3>1, <3>3 DEF WorkInv
    <3> QED
      BY <1>0, <1>1, <2>2, <3>2, <3>3, DoneCases
  <2>3. CASE On /\ job'[s][v] = job[s][v]
    <3>1. ASSUME NEW w \in Repo, Move(w) PROVE artifact'[v][u] = head'[u]
      <4>1. u # w
        BY <1>0, <1>1, <2>3, <3>1, MoveFacts, OrderlyMove
      <4>2. artifact' = artifact /\ head'[u] = head[u]
        BY <1>0, <3>1, <4>1, MoveFacts
      <4> QED
        BY <1>1, <2>3, <4>2 DEF WorkInv
    <3>2. CASE head' = head
      <4>1. artifact[v][u] = head[u]
        BY <1>1, <2>3, <3>2 DEF WorkInv
      <4>2. ASSUME NEW t \in Session, job[t][v] = "running", artifact'[v] = taken[t][v]
            PROVE  artifact'[v][u] = head'[u]
        <5>1. phase[t] = "running" /\ v \in Considered(t)
          BY <1>0, <4>2, AtWork
        <5>2. t # s
          BY <1>1, <2>3, <4>2
        <5>3. Calm
          BY <5>2 DEF Orderly, Alone
        <5> QED
          BY <3>2, <4>2, <5>1, <5>3 DEF WorkInv
      <4>3. \/ artifact'[v] = artifact[v]
            \/ \E t \in Session : job[t][v] = "running" /\ artifact'[v] = taken[t][v]
        BY <1>0, WorldCases, Written, MoveFacts DEF Quiet
      <4> QED
        BY <3>2, <4>1, <4>2, <4>3
    <3> QED
      BY <3>1, <3>2, HeadStays
  <2> QED
    BY <1>0, <2>1, <2>2, <2>3, <2>4, RunCases
\* What a command has taken is still good.
<1>2. ASSUME job'[s][v] = "running", heads'[s][u] = head'[u] \/ Vouched(v, u)' \/ Calm
      PROVE  taken'[s][v][u] = head'[u]
  <2>1. On
    BY <1>0, <1>2, NothingBegun, RunCases
  <2>2. CASE Run(s, v) /\ taken'[s][v] = Inputs(s, v)
    <3>1. head' = head /\ record' = record
      BY <2>2 DEF Run
    <3>2. heads[s][u] = head[u] \/ Vouched(v, u) \/ Calm
      BY <1>0, <1>2, <2>1, <3>1, VouchedSame
    <3> QED
      BY <1>0, <2>2, <3>1, <3>2, InputsGood DEF Run
  <2>3. CASE job[s][v] = "running" /\ taken'[s][v] = taken[s][v]
    <3>1. heads[s][u] = head[u] \/ Vouched(v, u) \/ Calm => taken[s][v][u] = head[u]
      BY <2>1, <2>3 DEF WorkInv
    <3>2. CASE Quiet
      BY <1>0, <1>2, <2>1, <2>3, <3>1, <3>2, VouchedSame DEF Quiet
    <3>3. ASSUME NEW w \in Repo, Move(w) PROVE taken'[s][v][u] = head'[u]
      <4>1. ~Calm
        BY <2>1, <3>3, OrderlyMove DEF Calm
      <4>2. u # w /\ (heads[s][u] = head[u] \/ Vouched(v, u))
        BY <1>0, <1>2, <2>1, <3>3, <4>1, MoveFacts, VouchedMove
      <4> QED
        BY <1>0, <2>3, <3>1, <3>3, <4>2, MoveFacts
    <3>4. ASSUME NEW t \in Session, NEW x \in Repo, Record(t, x) PROVE taken'[s][v][u] = head'[u]
      <4>1. head' = head /\ job[t][x] = "marked"
        BY <3>4, Written DEF Record
      <4>2. CASE t # s
        <5>1. Calm
          BY <4>2 DEF Orderly, Alone
        <5> QED
          BY <2>3, <3>1, <4>1, <5>1
      <4>3. CASE t = s /\ Vouched(v, u)'
        <5>1. Vouched(v, u)
          BY <1>0, <2>3, <3>4, <4>1, <4>3, VouchedRecord
        <5> QED
          BY <2>3, <3>1, <4>1, <5>1
      <4> QED
        BY <1>2, <2>1, <2>3, <3>1, <4>1, <4>2, <4>3
    <3> QED
      BY <3>2, <3>3, <3>4, WorldCases
  <2> QED
    BY <1>0, <1>2, <2>2, <2>3, TakenCases
<1> QED
  BY <1>1, <1>2

----------------------------------------------------------------------------
(* What is judged fresh.                                                   *)

\* An artifact with the present version of its repo and of all upstreams is
\* current: it holds nothing else.
LEMMA IsCurrent ==
  ASSUME TypeOK, ShapeInv, NEW r \in Repo, \A u \in Sources(r) : artifact[r][u] = head[u]
  PROVE  Current(r)
<1>1. artifact[r] \in [Repo -> Commit \cup {Absent}]
  BY DEF TypeOK, Heads
<1>2. artifact[r] = [x \in Repo |-> artifact[r][x]]
  BY <1>1
<1>3. ASSUME NEW x \in Repo
      PROVE  artifact[r][x] = IF x \in {r} \cup Ups[r] THEN head[x] ELSE Absent
  BY DEF ShapeInv, Sources
<1> QED
  BY <1>2, <1>3 DEF Current, Only

\* The verdict of is_stale, in terms of what is recorded.
LEMMA FreshMeans ==
  ASSUME NEW r \in Repo, NEW H
  PROVE  ~IsStale(r, H) <=> record[r] # Absent /\ \A u \in Sources(r) : H[u] = Recorded(r, u)
<1>1. r \notin Ups[r]
  BY UpsFacts
<1>2. ~IsStale(r, H) <=> /\ record[r] # Absent /\ H[r] = Recorded(r, r)
                         /\ \A u \in Ups[r] : H[u] = Recorded(r, u)
  BY <1>1 DEF IsStale, Drift, Recorded
<1> QED
  BY <1>2 DEF Sources

LEMMA RecordedCurrent ==
  ASSUME TypeOK, ShapeInv, RecordInv, Orderly, NEW r \in Repo, record[r] # Absent,
         \A u \in Sources(r) : Recorded(r, u) = head[u]
  PROVE  Current(r)
<1>1. \A u \in Sources(r) : Vouched(r, u)
  BY DEF Vouched
<1> QED
  BY <1>1, IsCurrent DEF RecordInv

\* Whoever views is shown, by Watch, all that changes what is current.
LEMMA WatchCases ==
  ASSUME TypeOK, [Next]_vars
  PROVE  \/ Watch
         \/ /\ wasCurrent' = wasCurrent /\ head' = head /\ artifact' = artifact
            /\ \A s \in Session : phase'[s] = "viewing" => phase[s] = "viewing"
<1> DEFINE Goal == \/ Watch
                   \/ /\ wasCurrent' = wasCurrent /\ head' = head /\ artifact' = artifact
                      /\ \A s \in Session : phase'[s] = "viewing" => phase[s] = "viewing"
<1>1. ASSUME NEW t \in Session, Begin(t) \/ Decide(t) PROVE Goal
  BY <1>1 DEF Begin, Decide, TypeOK, eyes
<1>2. ASSUME NEW t \in Session, Finish(t) \/ Shown(t) \/ Kill(t) \/ View(t) PROVE Goal
  BY <1>2 DEF Finish, Shown, Kill, View, Forget
<1>3. ASSUME NEW t \in Session, NEW r \in Repo, Build(t, r) \/ Fail(t, r) PROVE Goal
  BY <1>3 DEF Build, Fail
<1>4. ASSUME NEW t \in Session, NEW r \in Repo,
             \/ Probe(t, r) \/ Judge(t, r) \/ Run(t, r) \/ Refuse(t, r) \/ Skip(t, r)
             \/ ReadHead(t, r) \/ Record(t, r) \/ Show(t, r)
      PROVE  Goal
  BY <1>4 DEF Probe, Judge, Run, Refuse, Skip, ReadHead, Record, Show, eyes
<1>5. ASSUME NEW r \in Repo, Move(r) PROVE Goal
  BY <1>5 DEF Move
<1>6. CASE UNCHANGED vars
  BY <1>6 DEF vars, eyes
<1> QED
  BY <1>1, <1>2, <1>3, <1>4, <1>5, <1>6 DEF Next, Work

\* A viewer has just begun, goes on, or reads another HEAD.
LEMMA ViewCases ==
  ASSUME TypeOK, SessionInv, [Next]_vars, NEW s \in Session, phase'[s] = "viewing"
  PROVE  \/ View(s) /\ heads'[s] = None
         \/ Same(s)
         \/ phase[s] = "viewing" /\ \E r \in Repo : Probe(s, r) \/ Show(s, r)
<1>0. Fits(s)
  BY DEF SessionInv
<1>1. ~Begin(s) /\ ~Decide(s) /\ \A r \in Repo : ~Judge(s, r)
  BY DEF Begin, Decide, Judge, TypeOK
<1>2. ~ \E r \in Repo : OnRepo(s, r)
  BY <1>0, OnRepoBecomes DEF Becomes
<1>3. ASSUME NEW r \in Repo, Probe(s, r) \/ Show(s, r) PROVE phase[s] = "viewing"
  BY <1>3 DEF Probe, Show
<1>4. View(s) => heads'[s] = None
  BY <1>0 DEF View, Fits
<1> QED
  BY <1>1, <1>2, <1>3, <1>4, SessionCases

\* What whoever views would make of r if all that is yet to be read stayed.
Appears(s, r) ==
  /\ record[r] # Absent
  /\ \A u \in Sources(r) : Recorded(r, u) = IF heads[s][u] = Absent THEN head[u] ELSE heads[s][u]

\* A record that is written while others view, and appears fresh, is right.
LEMMA AppearsRecord ==
  ASSUME Trust, ShapeInv, [Next]_vars, Orderly, NEW s \in Session, phase[s] = "viewing",
         NEW t \in Session, NEW r \in Repo, Record(t, r), Appears(s, r)'
  PROVE  Current(r)'
<1> USE DEF Trust
<1>1. job[t][r] = "marked" /\ phase[t] = "running" /\ r \in Considered(t)
  BY AtWork DEF Record
<1>2. Calm
  BY <1>1 DEF Orderly, Alone
<1>3. head' = head /\ heads' = heads
  BY DEF Record
<1>4. \A u \in Sources(r) : u \in Repo /\ head[u] \in Commit
  BY UpsFacts DEF Sources, TypeOK
<1>5. ASSUME NEW u \in Sources(r) PROVE Recorded(r, u)' = head[u]
  <2>1. Recorded(r, u)' # Absent
    BY <1>3, <1>4, CommitFacts DEF Appears
  <2>2. CASE u = r
    BY <1>1, <1>2, <2>2, Written DEF ProbeInv, Calm
  <2>3. CASE u \in Ups[r]
    BY <1>1, <1>2, <2>1, <2>3, Written, IdleKnows DEF Calm
  <2> QED
    BY <2>2, <2>3 DEF Sources
<1>6. artifact' = artifact
  BY Written
<1>7. ASSUME NEW u \in Sources(r) PROVE artifact[r][u] = head[u]
  <2>1. CASE u = r
    BY <1>1, <1>2, <2>1 DEF OwnInv, ProbeInv, Calm
  <2>2. CASE u \in Ups[r]
    <3>1. heads[t][u] = head[u]
      BY <1>5, <2>2, Written
    <3> QED
      BY <1>1, <3>1 DEF WorkInv
  <2> QED
    BY <2>1, <2>2 DEF Sources
<1>8. Current(r)
  BY <1>7, IsCurrent
<1> QED
  BY <1>3, <1>6, <1>8 DEF Current

LEMMA ViewStep == Trust /\ ShapeInv /\ ViewInv /\ [Next]_vars => ViewInv'
<1> SUFFICES ASSUME Trust, ShapeInv, ViewInv, [Next]_vars, Orderly, NEW s \in Session,
                    phase'[s] = "viewing", NEW r \in Repo
             PROVE  /\ Current(r)' => r \in wasCurrent'[s]
                    /\ Appears(s, r)' => r \in wasCurrent'[s]
  BY DEF ViewInv, Appears, Orderly, Calm, Flat, Alone, Related
<1> USE DEF Trust
<1>0. ~Returns /\ \A u \in Sources(r) : u \in Repo /\ head[u] \in Commit
  BY UpsFacts DEF Orderly, Sources, TypeOK
<1>1. Current(r)' => r \in wasCurrent'[s]
  <2>1. CASE Watch
    BY <2>1 DEF Watch
  <2>2. CASE wasCurrent' = wasCurrent /\ head' = head /\ artifact' = artifact /\ phase[s] = "viewing"
    BY <2>2 DEF Current, ViewInv
  <2> QED
    BY <2>1, <2>2, WatchCases
<1>2. ASSUME Appears(s, r)', View(s), heads'[s] = None PROVE r \in wasCurrent'[s]
  <2>1. head' = head /\ artifact' = artifact /\ record' = record
    BY <1>2 DEF View
  <2>2. \A u \in Sources(r) : heads'[s][u] = Absent
    BY <1>0, <1>2 DEF None
  <2>3. record[r] # Absent /\ \A u \in Sources(r) : Recorded(r, u) = head[u]
    BY <1>2, <2>1, <2>2 DEF Appears, Recorded
  <2>4. Current(r)
    BY <2>3, RecordedCurrent
  <2> QED
    BY <1>1, <2>1, <2>4 DEF Current
<1>3. ASSUME phase[s] = "viewing", Appears(s, r) PROVE r \in wasCurrent'[s]
  <2>1. r \in wasCurrent[s]
    BY <1>3 DEF ViewInv, Appears
  <2>2. Watch \/ UNCHANGED wasCurrent
    BY WatchCases
  <2> QED
    BY <2>1, <2>2, Watched
<1>4. ASSUME phase[s] = "viewing", NEW x \in Repo, Probe(s, x) \/ Show(s, x), Appears(s, r)'
      PROVE  Appears(s, r)
  <2>1. head' = head /\ record' = record
    BY <1>4 DEF Probe, Show
  <2>2. ASSUME NEW u \in Sources(r)
        PROVE  (IF heads'[s][u] = Absent THEN head'[u] ELSE heads'[s][u])
                 = IF heads[s][u] = Absent THEN head[u] ELSE heads[s][u]
    <3>1. CASE Show(s, x)
      BY <2>1, <3>1 DEF Show
    <3>2. CASE Probe(s, x)
      <4>1. u # x => heads'[s][u] = heads[s][u]
        BY <1>0, <3>2 DEF Probe, TypeOK, Heads
      <4>2. heads'[s][x] \in {head[x], Absent} /\ heads[s][x] = Absent
        BY <3>2 DEF Probe, TypeOK, Heads, SessionInv, Fits
      <4> QED
        BY <2>1, <4>1, <4>2
    <3> QED
      BY <1>4, <3>1, <3>2
  <2> QED
    BY <1>4, <2>1, <2>2 DEF Appears, Recorded
<1>5. ASSUME phase[s] = "viewing", Same(s), Appears(s, r)' PROVE Appears(s, r) \/ Current(r)'
  <2>1. heads'[s] = heads[s]
    BY <1>5 DEF Same
  <2>2. CASE Quiet
    BY <1>5, <2>1, <2>2 DEF Quiet, Appears, Recorded
  <2>3. ASSUME NEW w \in Repo, Move(w) PROVE Appears(s, r)
    <3>1. record' = record /\ record[r] # Absent /\ \A u \in Sources(r) : Recorded(r, u)' = Recorded(r, u)
      BY <1>0, <1>5, <2>3, MoveFacts DEF Appears, Recorded
    <3>2. w \in Sources(r) => heads[s][w] # Absent
      BY <1>0, <1>5, <2>1, <2>3, <3>1, MoveFacts DEF Appears
    <3>3. \A u \in Repo : u # w => head'[u] = head[u]
      BY <1>0, <2>3, MoveFacts
    <3> QED
      BY <1>0, <1>5, <2>1, <3>1, <3>2, <3>3 DEF Appears
  <2>4. ASSUME NEW t \in Session, NEW x \in Repo, Record(t, x) PROVE Appears(s, r) \/ Current(r)'
    <3>1. CASE x = r
      BY <1>5, <2>4, <3>1, AppearsRecord
    <3>2. CASE x # r
      <4>1. record'[r] = record[r] /\ head' = head
        BY <2>4, <3>2, Written
      <4> QED
        BY <1>5, <2>1, <4>1 DEF Appears, Recorded
    <3> QED
      BY <3>1, <3>2
  <2> QED
    BY <2>2, <2>3, <2>4, WorldCases
<1>6. Same(s) => phase[s] = "viewing"
  BY DEF Same
<1> QED
  BY <1>1, <1>2, <1>3, <1>4, <1>5, <1>6, ViewCases

\* What status has shown it has seen.
LEMMA ShownStep == Trust /\ ViewInv /\ StatusTruthful /\ Orderly /\ [Next]_vars => StatusTruthful'
<1> SUFFICES ASSUME Trust, ViewInv, StatusTruthful, Orderly, [Next]_vars, NEW s \in Session,
                    NEW r \in shown'[s], \A u \in Sources(r) : heads'[s][u] # Absent
             PROVE  r \in wasCurrent'[s]
  BY DEF StatusTruthful, Sources
<1> USE DEF Trust
<1>0. Fits(s) /\ Fits(s)' /\ TypeOK'
  BY TypeStep, SessionStep DEF SessionInv
<1>1. phase'[s] = "viewing" /\ r \in Repo
  BY <1>0 DEF Fits, TypeOK
<1>2. ASSUME phase[s] = "viewing", r \in wasCurrent[s] PROVE r \in wasCurrent'[s]
  BY <1>1, <1>2, WatchCases, Watched
<1>3. CASE View(s)
  BY <1>0, <1>3 DEF View, Fits
<1>4. CASE Same(s)
  <2>1. r \in wasCurrent[s]
    BY <1>4 DEF StatusTruthful, Sources, Same
  <2> QED
    BY <1>1, <1>2, <1>4, <2>1 DEF Same
<1>5. ASSUME phase[s] = "viewing", NEW x \in Repo, Probe(s, x) PROVE FALSE
  <2>1. shown' = shown
    BY <1>5 DEF Probe, eyes
  <2> QED
    BY <1>0, <1>5, <2>1 DEF Probe, Fits, Probed
<1>6. ASSUME phase[s] = "viewing", NEW x \in Repo, Show(s, x) PROVE r \in wasCurrent'[s]
  <2>1. heads' = heads
    BY <1>6 DEF Show
  <2>2. CASE r \in shown[s]
    BY <1>2, <1>6, <2>1, <2>2 DEF StatusTruthful, Sources
  <2>3. CASE r \notin shown[s]
    <3>1. r = x /\ ~IsStale(r, heads[s])
      BY <1>6, <2>3 DEF Show, TypeOK
    <3>2. Appears(s, r)
      BY <1>1, <2>1, <3>1, FreshMeans DEF Appears
    <3> QED
      BY <1>1, <1>2, <1>6, <3>2 DEF ViewInv, Appears
  <2> QED
    BY <2>2, <2>3
<1> QED
  BY <1>1, <1>3, <1>4, <1>5, <1>6, ViewCases

----------------------------------------------------------------------------
(* What a run brings about.                                                *)

LEMMA FreshStep ==
  ASSUME TypeOK, SessionInv, ProbeInv, PastInv, EffectInv, [Next]_vars, Effective,
         NEW s \in Session, phase'[s] = "running", NEW v \in Considered(s)',
         job'[s][v] \in {"out", "passed"}, \A u \in Sources(v) : heads'[s][u] = head'[u]
  PROVE  record'[v] # Absent /\ \A u \in Sources(v) : head'[u] = Recorded(v, u)'
<1>0. ~Returns /\ ~Blind /\ v \in Repo /\ \A u \in Sources(v) : u \in Repo
  BY TypeStep, UpsFacts DEF Effective, Sources, TypeOK, Considered, Candidates
<1>1. CASE Judge(s, v)
  <2>1. heads' = heads /\ head' = head /\ record' = record
    BY <1>0, <1>1, Judged
  <2>3. ~IsStale(v, heads[s])
    BY <1>0, <1>1, Judged
  <2>4. record[v] # Absent /\ \A u \in Sources(v) : heads[s][u] = Recorded(v, u)
    BY <1>0, <2>3, FreshMeans
  <2> QED
    BY <2>1, <2>4 DEF Recorded
<1> DEFINE On == /\ phase[s] = "running" /\ flags'[s] = flags[s] /\ targets'[s] = targets[s]
                 /\ heads'[s] = heads[s] /\ Considered(s)' = Considered(s)
<1>2. CASE On /\ job'[s][v] = job[s][v]
  <2>1. ASSUME \A u \in Sources(v) : head'[u] = head[u]
        PROVE  record[v] # Absent /\ \A u \in Sources(v) : head[u] = Recorded(v, u)
    <3>1. ~IsStale(v, head)
      BY <1>2, <2>1 DEF EffectInv
    <3> QED
      BY <1>0, <3>1, FreshMeans
  <2>2. CASE Quiet
    BY <2>1, <2>2 DEF Quiet, Recorded
  <2>3. ASSUME NEW w \in Repo, Move(w)
        PROVE  record'[v] # Absent /\ \A u \in Sources(v) : head'[u] = Recorded(v, u)'
    <3>1. w \notin Sources(v)
      BY <1>0, <1>2, <2>3, MoveFacts
    <3>2. record' = record /\ \A u \in Sources(v) : head'[u] = head[u]
      BY <1>0, <2>3, <3>1, MoveFacts
    <3> QED
      BY <2>1, <3>2 DEF Recorded
  <2>4. ASSUME NEW t \in Session, NEW x \in Repo, Record(t, x)
        PROVE  record'[v] # Absent /\ \A u \in Sources(v) : head'[u] = Recorded(v, u)'
    <3>1. head' = head /\ job[t][x] = "marked" /\ job'[t][x] = "passed"
      BY <2>4, Written DEF Record, SetJob, TypeOK
    <3>2. CASE x # v
      <4>1. record'[v] = record[v]
        BY <1>0, <2>4, <3>2, Written
      <4> QED
        BY <2>1, <3>1, <4>1 DEF Recorded
    <3>3. CASE x = v
      <4>1. t # s
        BY <1>2, <3>1, <3>3
      <4>2. MoveWhile = "idle"
        BY <4>1 DEF Effective, Alone
      <4>3. phase[t] = "running" /\ v \in Considered(t)
        BY <1>0, <3>1, <3>3, AtWork
      <4>4. taken[t][v][v] = head[v]
        BY <1>0, <3>1, <3>3, <4>2 DEF ProbeInv
      <4>5. \A u \in Sources(v) : heads[t][u] = head[u]
        BY <1>0, <4>2, <4>3, IdleKnows
      <4>6. record'[v] # Absent /\ Recorded(v, v)' = head[v] /\ \A u \in Ups[v] : Recorded(v, u)' = head[u]
        BY <2>4, <3>3, <4>4, <4>5, Written DEF Sources
      <4> QED
        BY <3>1, <4>6 DEF Sources
    <3> QED
      BY <3>2, <3>3
  <2> QED
    BY <2>2, <2>3, <2>4, WorldCases
<1>3. CASE On /\ OnRepo(s, v)
  <2>1. ~Build(s, v) /\ ~ReadHead(s, v)
    BY <1>0 DEF Build, ReadHead, SetJob, TypeOK
  <2>2. Record(s, v)
    <3>1. Fits(s)
      BY DEF SessionInv
    <3> QED
      BY <1>0, <1>3, <2>1, <3>1, Advance DEF OnRepo, Becomes
  <2>3. head' = head /\ job[s][v] = "marked"
    BY <2>2, Written DEF Record
  <2>4. \A u \in Sources(v) : heads[s][u] = head[u]
    BY <1>3, <2>3
  <2>5. taken[s][v][v] = head[v]
    BY <1>3, <2>3, <2>4 DEF EffectInv, Sources
  <2>6. record'[v] # Absent /\ Recorded(v, v)' = head[v] /\ \A u \in Ups[v] : Recorded(v, u)' = head[u]
    BY <1>0, <2>2, <2>4, <2>5, Written DEF Sources
  <2> QED
    BY <2>3, <2>6 DEF Sources
<1>4. ~Decide(s)
  BY <1>0, NothingLeftOut
<1> QED
  BY <1>0, <1>1, <1>2, <1>3, <1>4, RunCases

LEMMA EffectStep ==
  TypeOK /\ SessionInv /\ ProbeInv /\ PastInv /\ EffectInv /\ [Next]_vars => EffectInv'
<1> SUFFICES ASSUME TypeOK, SessionInv, ProbeInv, PastInv, EffectInv, [Next]_vars, Effective,
                    NEW s \in Session, phase'[s] = "running", NEW v \in Considered(s)'
             PROVE  /\ job'[s][v] \in {"out", "passed"} /\ (\A u \in Sources(v) : heads'[s][u] = head'[u])
                         => ~IsStale(v, head)'
                    /\ job'[s][v] = "marked" /\ heads'[s][v] = head'[v] => taken'[s][v][v] = head'[v]
  BY DEF EffectInv, Effective, Alone, Sources
<1>0. ~Returns /\ v \in Repo
  BY TypeStep DEF Effective, TypeOK, Considered, Candidates
<1>1. ASSUME job'[s][v] \in {"out", "passed"}, \A u \in Sources(v) : heads'[s][u] = head'[u]
      PROVE  ~IsStale(v, head)'
  <2>1. record'[v] # Absent /\ \A u \in Sources(v) : head'[u] = Recorded(v, u)'
    BY <1>1, FreshStep
  <2>2. v \notin Ups[v]
    BY <1>0, UpsFacts
  <2> QED
    BY <2>1, <2>2 DEF IsStale, Drift, Recorded, Sources
<1>2. ASSUME job'[s][v] = "marked", heads'[s][v] = head'[v] PROVE taken'[s][v][v] = head'[v]
  <2>1. CASE taken'[s][v][v] = head[v] /\ head' = head
    BY <2>1
  <2>2. CASE job[s][v] = "marked" /\ taken'[s][v] = taken[s][v]
    <3>1. ~Decide(s)
      BY <1>0, <1>2, NothingBegun
    <3>2. phase[s] = "running" /\ heads'[s] = heads[s] /\ v \in Considered(s)
      BY <3>1, RunCases
    <3>3. head'[v] = head[v]
      BY <1>0, <1>2, <3>2, MoveFacts, HeadStays
    <3> QED
      BY <1>2, <2>2, <3>2, <3>3 DEF EffectInv
  <2> QED
    BY <1>0, <1>2, <2>1, <2>2, MarkCases
<1> QED
  BY <1>1, <1>2

----------------------------------------------------------------------------
(* Theorems.                                                               *)

LEMMA InitInd == Init => IndInv
<1> SUFFICES ASSUME Init PROVE IndInv
  OBVIOUS
<1>1. TypeOK
  BY InitTyped
<1>2. \A s \in Session : /\ phase[s] = "idle" /\ shown[s] = {} /\ wasCurrent[s] = {} /\ heads[s] = None
                         /\ \A r \in Repo : job[s][r] = "out" /\ heads[s][r] = Absent
  BY DEF Init, None
<1>3. \A r \in Repo : record[r] = Absent /\ \A x \in Repo : artifact[r][x] = Absent
  BY DEF Init, None
<1>4. SessionInv /\ ProbeInv /\ OrderInv
  BY <1>2 DEF SessionInv, Fits, ProbeInv, OrderInv
<1>5. PastInv
  BY <1>2, <1>3 DEF PastInv
<1>6. ShapeInv
  BY <1>2, <1>3 DEF ShapeInv
<1>7. RecordInv /\ WorkInv /\ OwnInv
  BY <1>2, <1>3 DEF RecordInv, Vouched, WorkInv, OwnInv
<1>8. ViewInv /\ EffectInv /\ StatusTruthful
  BY <1>2 DEF ViewInv, EffectInv, StatusTruthful
<1> QED
  BY <1>1, <1>4, <1>5, <1>6, <1>7, <1>8 DEF IndInv

\* The whole argument about records: IndInv holds in every state, whatever the
\* graph, the sessions and the hazards that the constants allow.
THEOREM Inductive == Spec => []IndInv
<1>1. IndInv /\ [Next]_vars => IndInv'
  <2> SUFFICES ASSUME IndInv, [Next]_vars PROVE IndInv'
    OBVIOUS
  <2>1. Trust /\ ShapeInv /\ ViewInv /\ EffectInv
    BY DEF IndInv, Trust
  <2>2. TypeOK' /\ SessionInv' /\ ProbeInv' /\ PastInv' /\ OrderInv' /\ ShapeInv'
    BY <2>1, TypeStep, SessionStep, ProbeStep, PastStep, OrderStep, ShapeStep DEF Trust
  <2>3. RecordInv' /\ WorkInv' /\ OwnInv' /\ ViewInv'
    BY <2>1, RecordStep, WorkStep, OwnStep, ViewStep
  <2>4. EffectInv'
    BY <2>1, EffectStep DEF Trust
  <2>5. Orderly' <=> Orderly
    BY DEF Orderly, Calm, Flat, Alone, Related
  <2>6. (Orderly => StatusTruthful)'
    BY <2>1, <2>5, ShownStep DEF IndInv
  <2> QED
    BY <2>2, <2>3, <2>4, <2>6 DEF IndInv
<1> QED
  BY <1>1, InitInd, PTL DEF Spec

\* Records, sessions and artifacts keep their types: no record without a HEAD,
\* whatever could not be read.
THEOREM TypeCorrect == Spec => []TypeOK
<1>1. IndInv => TypeOK
  BY DEF IndInv
<1> QED
  BY <1>1, Inductive, PTL

\* Where records can be trusted, what is_stale calls fresh by the present HEADs
\* was made from the commits that the repo and all its upstreams are at.
THEOREM FreshCurrent == ASSUME Orderly PROVE Spec => []FreshIsCurrent
<1>1. IndInv => FreshIsCurrent
  <2> SUFFICES ASSUME IndInv, NEW r \in Repo, ~IsStale(r, head) PROVE Current(r)
    BY DEF FreshIsCurrent
  <2>1. record[r] # Absent /\ \A u \in Sources(r) : head[u] = Recorded(r, u)
    BY FreshMeans
  <2> QED
    BY <2>1, RecordedCurrent DEF IndInv
<1> QED
  BY <1>1, Inductive, PTL

\* The same for a judge who could read only some of the HEADs, of those.
THEOREM FreshRead == ASSUME Orderly PROVE Spec => []FreshWhereRead
<1>1. IndInv => FreshWhereRead
  <2> SUFFICES ASSUME IndInv, NEW r \in Repo, NEW S \in SUBSET Repo, ~IsStale(r, Only(head, S))
               PROVE  r \in S /\ \A u \in S \cap ({r} \cup Ups[r]) : artifact[r][u] = head[u]
    BY DEF FreshWhereRead
  <2> USE DEF IndInv
  <2>1. record[r] # Absent /\ \A u \in Sources(r) : Only(head, S)[u] = Recorded(r, u)
    BY FreshMeans
  <2>2. r \in S
    <3>1. Recorded(r, r) \in Commit
      BY <2>1 DEF Recorded, TypeOK
    <3> QED
      BY <2>1, <3>1, CommitFacts DEF Only, Sources
  <2>3. ASSUME NEW u \in S \cap Sources(r) PROVE artifact[r][u] = head[u]
    <3>1. Recorded(r, u) = head[u]
      BY <2>1, <2>3 DEF Only
    <3> QED
      BY <2>1, <2>3, <3>1 DEF RecordInv, Vouched
  <2> QED
    BY <2>2, <2>3 DEF Sources
<1> QED
  BY <1>1, Inductive, PTL

\* What status calls fresh, having read the HEADs, was current at one moment
\* while it looked.
THEOREM StatusTrue == ASSUME Orderly PROVE Spec => []StatusTruthful
<1>1. IndInv => StatusTruthful
  BY DEF IndInv
<1> QED
  BY <1>1, Inductive, PTL

\* When a target of --with-deps starts, all below it is current, or has moved
\* since the run probed it.
THEOREM ConsumesOnlyCurrent == ASSUME Orderly PROVE Spec => []ConsumesCurrent
<1>1. IndInv => ConsumesCurrent
  <2> SUFFICES ASSUME IndInv, NEW s \in Session, NEW r \in Repo,
                      flags[s].deps, r \in targets[s], job[s][r] = "running",
                      NEW u \in Ups[r], \A v \in Sources(u) : head[v] = heads[s][v]
               PROVE  Current(u)
    BY DEF ConsumesCurrent, Sources
  <2> USE DEF IndInv
  <2>1. phase[s] = "running" /\ u \in Repo /\ Ordered(s)
    BY AtWork, UpsFacts DEF Ordered
  <2>2. u \in Considered(s)
    BY <2>1 DEF Considered, Candidates
  <2>3. job[s][u] \in {"out", "passed"}
    BY <2>1 DEF OrderInv
  <2>4. \A v \in Sources(u) : artifact[u][v] = head[v]
    BY <2>1, <2>2, <2>3 DEF WorkInv
  <2> QED
    BY <2>1, <2>4, IsCurrent
<1> QED
  BY <1>1, Inductive, PTL

\* A run with --with-deps that passed, and whose HEADs are where it saw them,
\* leaves its targets and all their upstreams fresh.
THEOREM DepsFreshened == ASSUME Effective PROVE Spec => []DepsRunFreshens
<1>1. IndInv => DepsRunFreshens
  <2> SUFFICES ASSUME IndInv, NEW s \in Session, Over(s), flags[s].deps,
                      \A r \in Repo : job[s][r] \in {"out", "passed"},
                      \A r \in Universe(targets[s]) : heads[s][r] = head[r],
                      NEW r \in Universe(targets[s])
               PROVE  ~IsStale(r, head)
    BY DEF DepsRunFreshens
  <2> USE DEF IndInv
  <2>1. phase[s] = "running" /\ targets[s] \subseteq Repo
    BY DEF Over, TypeOK
  <2>2. r \in Repo /\ Sources(r) \subseteq Universe(targets[s])
    BY <2>1, UpsFacts DEF Universe, Sources
  <2>3. r \in Considered(s)
    BY <2>2 DEF Universe, Considered, Candidates
  <2> QED
    BY <2>1, <2>2, <2>3 DEF EffectInv
<1> QED
  BY <1>1, Inductive, PTL
=============================================================================
