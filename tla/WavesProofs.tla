----------------------------- MODULE WavesProofs -----------------------------
(***************************************************************************)
(* IndInv of Waves is inductive, and Waves implements BuildOrder, for any  *)
(* set of repos, any acyclic graph, any number of jobs.                    *)
(***************************************************************************)
EXTENDS Waves, FiniteSetTheorems, TLAPS

\* Upstreams are transitive: what an upstream of r depends on is an upstream
\* of r too, or r itself.
LEMMA UpstreamsTransitive ==
  ASSUME NEW D, NEW r \in Repo, NEW u \in Upstreams(D, r), NEW v \in Upstreams(D, u)
  PROVE  v = r \/ v \in Upstreams(D, r)
<1> SUFFICES ASSUME NEW U \in SUBSET Repo, D[r] \subseteq U, Closed(D, U)
             PROVE  v \in U
  BY DEF Upstreams, Reach
<1>1. u \in U
  BY DEF Upstreams, Reach
<1>2. D[u] \subseteq U
  BY <1>1 DEF Closed
<1> QED
  BY <1>2 DEF Upstreams, Reach

\* A step settles repos and never unsettles one.
LEMMA SettledStays ==
  ASSUME TypeOK, [Next]_vars, NEW r \in Repo
  PROVE  /\ deps' = deps /\ set' = set /\ ordered' = ordered
         /\ status[r] \in Settled => status'[r] = status[r]
         /\ status'[r] = "waiting" => status[r] = "waiting"
<1> USE DEF TypeOK, Status, Settled, With, Become
<1>1. CASE NextWave
  BY <1>1 DEF NextWave, Wave
<1>2. ASSUME NEW s \in Repo, Skip(s) \/ Refuse(s) \/ LineUp(s) \/ Start(s) \/ Exit(s)
      PROVE  /\ deps' = deps /\ set' = set /\ ordered' = ordered
             /\ status[r] \in Settled => status'[r] = status[r]
             /\ status'[r] = "waiting" => status[r] = "waiting"
  BY <1>2 DEF Skip, Refuse, LineUp, Start, Exit, Reached
<1>3. ASSUME NEW s \in Repo, Deliver(s)
      PROVE  /\ deps' = deps /\ set' = set /\ ordered' = ordered
             /\ status[r] \in Settled => status'[r] = status[r]
             /\ status'[r] = "waiting" => status[r] = "waiting"
  BY <1>3 DEF Deliver
<1>4. CASE UNCHANGED vars
  BY <1>4 DEF vars
<1> QED
  BY <1>1, <1>2, <1>3, <1>4 DEF Next, Step

\* Types are kept.
LEMMA TypeStep == TypeOK /\ [Next]_vars => TypeOK'
<1> SUFFICES ASSUME TypeOK, [Next]_vars PROVE TypeOK'
  OBVIOUS
<1> USE DEF TypeOK, Status, Settled, With, Become
<1>1. CASE NextWave
  BY <1>1 DEF NextWave
<1>2. ASSUME NEW s \in Repo, Skip(s) \/ Refuse(s) \/ LineUp(s) \/ Start(s) \/ Exit(s)
      PROVE  TypeOK'
  BY <1>2 DEF Skip, Refuse, LineUp, Start, Exit
<1>3. ASSUME NEW s \in Repo, Deliver(s) PROVE TypeOK'
  BY <1>3 DEF Deliver
<1>4. CASE UNCHANGED vars
  BY <1>4 DEF vars
<1> QED
  BY <1>1, <1>2, <1>3, <1>4 DEF Next, Step

\* Under dependency order, what r needs is settled before r is picked.
LEMMA PickedStep == IndInv /\ TypeOK' /\ [Next]_vars => PickedInOrder'
<1> SUFFICES ASSUME IndInv, TypeOK', [Next]_vars, ordered',
                    NEW r \in set', status'[r] # "waiting", NEW u \in Needs(r)'
             PROVE  status'[u] \in Settled
  BY DEF PickedInOrder, With, Status, TypeOK, Needs
<1>1. r \in set /\ u \in Needs(r) /\ u \in set /\ u \in Repo /\ r \in Repo /\ ordered
  BY SettledStays DEF IndInv, TypeOK, Needs
<1>2. CASE status[r] # "waiting"
  <2>1. status[u] \in Settled
    BY <1>1, <1>2 DEF IndInv, PickedInOrder, With, TypeOK
  <2> QED
    BY <1>1, <2>1, SettledStays DEF IndInv
<1>3. CASE status[r] = "waiting"
  <2>1. NextWave /\ r \in Wave
    <3>1. ASSUME NEW s \in Repo, Step(s) PROVE status'[r] = "waiting"
      BY <1>1, <1>3, <3>1
         DEF Step, Skip, Refuse, LineUp, Start, Exit, Deliver, Reached, With, Become,
             IndInv, TypeOK
    <3>2. CASE UNCHANGED vars
      BY <1>3, <3>2 DEF vars
    <3>3. CASE NextWave
      BY <1>1, <1>3, <3>3 DEF NextWave, IndInv, TypeOK
    <3> QED
      BY <3>1, <3>2, <3>3 DEF Next
  <2>2. status[u] # "waiting"
    BY <1>1, <2>1 DEF Wave, DepsInSet, Needs, With
  <2>3. status[u] \in Settled
    BY <1>1, <2>1, <2>2 DEF NextWave, With
  <2> QED
    BY <1>1, <2>3, SettledStays DEF IndInv
<1> QED
  BY <1>2, <1>3

\* Lined up and beyond, short of failure.
InFlight == {"queued", "running", "ok", "bad", "passed"}

\* A repo is lined up only when nothing it needs has failed; PickedInOrder
\* makes "not failed" mean "passed".
LEMMA PassedStep == IndInv /\ TypeOK' /\ [Next]_vars => UpstreamsPassed'
<1> SUFFICES ASSUME IndInv, TypeOK', [Next]_vars, ordered',
                    NEW r \in set', status'[r] \in InFlight, NEW u \in Needs(r)'
             PROVE  status'[u] = "passed"
  BY DEF UpstreamsPassed, With, InFlight
<1>1. r \in set /\ u \in Needs(r) /\ u \in set /\ u \in Repo /\ r \in Repo /\ ordered
  BY SettledStays DEF IndInv, TypeOK, Needs
<1>2. CASE status[r] \in InFlight
  <2>1. status[u] = "passed"
    BY <1>1, <1>2 DEF IndInv, UpstreamsPassed, With, InFlight
  <2> QED
    BY <1>1, <2>1, SettledStays DEF IndInv, Settled
<1>3. CASE status[r] \notin InFlight
  <2>1. LineUp(r)
    <3>1. ASSUME NEW s \in Repo, Step(s), ~(s = r /\ LineUp(r)) PROVE FALSE
      BY <1>1, <1>3, <3>1
         DEF Step, Skip, Refuse, LineUp, Start, Exit, Deliver, Reached, With, Become,
             IndInv, TypeOK, InFlight, Settled, Status
    <3>2. CASE UNCHANGED vars
      BY <1>3, <3>2 DEF vars
    <3>3. CASE NextWave
      BY <1>1, <1>3, <3>3 DEF NextWave, IndInv, TypeOK, InFlight
    <3> QED
      BY <3>1, <3>2, <3>3 DEF Next
  <2>2. status[r] = "picked" /\ u \notin FailedRepos
    BY <1>1, <2>1 DEF LineUp, Reached, With, Blockers, Needs
  <2>3. status[u] \in Settled
    BY <1>1, <2>2 DEF IndInv, PickedInOrder, With, Status
  <2>4. status[u] = "passed"
    BY <1>1, <2>2, <2>3 DEF FailedRepos, With, Settled
  <2> QED
    BY <1>1, <2>4, SettledStays DEF IndInv, Settled
<1> QED
  BY <1>2, <1>3

\* The cause of a skip is inherited along the transitive upstreams.
LEMMA SkipStep == IndInv /\ TypeOK' /\ [Next]_vars => SkipHasCause'
<1> SUFFICES ASSUME IndInv, TypeOK', [Next]_vars, NEW r \in set', status'[r] = "skipped"
             PROVE  \E u \in Needs(r)' : status'[u] = "failed"
  BY DEF SkipHasCause, With
<1>1. r \in set /\ r \in Repo /\ Needs(r)' = Needs(r) /\ Needs(r) \subseteq Repo
  BY SettledStays DEF IndInv, TypeOK, Needs
<1>2. SUFFICES \E u \in Needs(r) : status[u] = "failed"
  BY <1>1, SettledStays DEF IndInv, Settled
<1>3. CASE status[r] = "skipped"
  BY <1>1, <1>3 DEF IndInv, SkipHasCause, With
<1>4. CASE status[r] # "skipped"
  <2>1. Skip(r)
    <3>1. ASSUME NEW s \in Repo, Step(s), ~(s = r /\ Skip(r)) PROVE FALSE
      BY <1>1, <1>4, <3>1
         DEF Step, Skip, Refuse, LineUp, Start, Exit, Deliver, Reached, With, Become,
             IndInv, TypeOK
    <3>2. CASE UNCHANGED vars
      BY <1>4, <3>2 DEF vars
    <3>3. CASE NextWave
      BY <1>1, <1>4, <3>3 DEF NextWave, IndInv, TypeOK
    <3> QED
      BY <3>1, <3>2, <3>3 DEF Next
  <2>2. PICK u \in Needs(r) : status[u] \in {"failed", "skipped"}
    BY <2>1 DEF Skip, Blockers, FailedRepos, With, Needs
  <2>3. CASE status[u] = "skipped"
    <3>1. PICK v \in Needs(u) : status[v] = "failed"
      BY <2>2, <2>3 DEF IndInv, SkipHasCause, With, Needs
    <3>2. v # r
      BY <2>1, <3>1 DEF Skip, Reached, With
    <3>3. v \in Needs(r)
      <4>1. u \in Upstreams(deps, r) /\ v \in Upstreams(deps, u) /\ v \in set
        BY <2>2, <3>1 DEF Needs
      <4> QED
        BY <1>1, <3>2, <4>1, UpstreamsTransitive DEF Needs
    <3> QED
      BY <3>1, <3>3
  <2> QED
    BY <2>2, <2>3
<1> QED
  BY <1>3, <1>4

LEMMA IndInit == Init => IndInv
BY WavesAssumption
   DEF Init, IndInv, TypeOK, PickedInOrder, UpstreamsPassed, SkipHasCause, With, Status,
       Settled, Graph

LEMMA IndStep == IndInv /\ [Next]_vars => IndInv'
BY TypeStep, PickedStep, PassedStep, SkipStep DEF IndInv

\* The invariant of every execution.
THEOREM Inductive == Spec => []IndInv
BY IndInit, IndStep, PTL DEF Spec

\* No command is lined up before all it needs has passed.
THEOREM OrderHolds == Spec => []UpstreamsPassed
<1>1. IndInv => UpstreamsPassed
  BY DEF IndInv
<1> QED
  BY Inductive, <1>1, PTL

\* Nobody is skipped without a real failure upstream.
THEOREM SkipsAreCaused == Spec => []SkipHasCause
<1>1. IndInv => SkipHasCause
  BY DEF IndInv
<1> QED
  BY Inductive, <1>1, PTL

\* The refinement mapping, by name.
Stage ==
  [r \in Repo |->
     IF status[r] \in {"waiting", "picked", "queued"} THEN "pending"
     ELSE IF status[r] \in {"running", "ok", "bad"} THEN "running"
     ELSE status[r]]

\* A step that changes the status of one repo changes its stage only.
LEMMA StageOf ==
  ASSUME TypeOK, NEW r \in Repo, NEW what \in Status, Become(r, what)
  PROVE  Stage' = [Stage EXCEPT ![r] =
                     IF what \in {"waiting", "picked", "queued"} THEN "pending"
                     ELSE IF what \in {"running", "ok", "bad"} THEN "running"
                     ELSE what]
BY DEF Stage, Become, TypeOK

\* Taking the waves apart, lining up, ending and delivering a success or a
\* failure are the steps of BuildOrder or leave it where it was.
LEMMA StepRefines ==
  ASSUME IndInv, [Next]_vars
  PROVE  [Promise!Next]_(Promise!vars)
<1> USE DEF IndInv
<1> DEFINE Done == [Promise!Next]_(Promise!vars)
           Kept == deps' = deps /\ set' = set /\ ordered' = ordered
<1>0. Kept
  BY SettledStays DEF Next, Step, NextWave, Skip, Refuse, LineUp, Start, Exit, Deliver, vars
<1>n. ASSUME NEW r \in Repo PROVE Promise!Needs(r) = Needs(r) /\ Needs(r) \subseteq Repo
  BY DEF Promise!Needs, Promise!Upstreams, Promise!Reach, Promise!Closed,
         Needs, Upstreams, Reach, Closed
<1>1. ASSUME Stage' = Stage PROVE Done
  BY <1>0, <1>1 DEF Promise!vars, Stage
<1>2. ASSUME NEW r \in Repo, Promise!Start(r) \/ Promise!Refuse(r) \/ Promise!Finish(r)
                               \/ Promise!Skip(r)
      PROVE Done
  BY <1>2 DEF Promise!Next
<1>3. CASE NextWave
  BY <1>1, <1>3 DEF NextWave, Wave, With, Stage, TypeOK
<1>4. ASSUME NEW r \in Repo, Skip(r) PROVE Done
  <2>1. r \in set /\ Stage[r] = "pending" /\ Stage' = [Stage EXCEPT ![r] = "skipped"]
    BY <1>4, StageOf DEF Skip, Reached, With, Stage, Status, Settled
  <2>2. \E u \in Promise!Needs(r) : Stage[u] \in {"failed", "skipped"}
    BY <1>4, <1>n DEF Skip, Blockers, FailedRepos, With, Needs, Stage, TypeOK
  <2>3. Promise!Skip(r)
    BY <1>0, <2>1, <2>2 DEF Promise!Skip, Promise!Become, Stage
  <2> QED
    BY <1>2, <2>3
<1>5. ASSUME NEW r \in Repo, r \in set, ordered => Needs(r) \subseteq With({"passed"}),
             Stage[r] = "pending"
      PROVE  Promise!Ready(r)
  <2>1. ordered => \A u \in Promise!Needs(r) : Stage[u] = "passed"
    BY <1>5, <1>n DEF With, Stage, TypeOK
  <2> QED
    BY <1>5, <2>1 DEF Promise!Ready, Stage
<1>6. ASSUME NEW r \in Repo, Refuse(r) PROVE Done
  <2>1. r \in set /\ Stage[r] = "pending" /\ Stage' = [Stage EXCEPT ![r] = "failed"]
    BY <1>6, StageOf DEF Refuse, Reached, With, Stage, Status, Settled
  <2>2. ordered => Needs(r) \subseteq With({"passed"})
    BY <1>6 DEF Refuse, Reached, PickedInOrder, Blockers, FailedRepos, With, Settled,
               Status, Needs
  <2>3. Promise!Refuse(r)
    BY <1>0, <1>5, <2>1, <2>2 DEF Promise!Refuse, Promise!Become, Stage
  <2> QED
    BY <1>2, <2>3
<1>7. ASSUME NEW r \in Repo, LineUp(r) PROVE Done
  BY <1>1, <1>7 DEF LineUp, Reached, With, Become, Stage, TypeOK
<1>8. ASSUME NEW r \in Repo, Start(r) PROVE Done
  <2>1. r \in set /\ Stage[r] = "pending" /\ Stage' = [Stage EXCEPT ![r] = "running"]
    BY <1>8, StageOf DEF Start, With, Stage, Status, Settled
  <2>2. ordered => Needs(r) \subseteq With({"passed"})
    BY <1>8 DEF Start, UpstreamsPassed, With, Needs
  <2>3. Promise!Start(r)
    BY <1>0, <1>5, <2>1, <2>2 DEF Promise!Start, Promise!Become, Stage
  <2> QED
    BY <1>2, <2>3
<1>9. ASSUME NEW r \in Repo, Exit(r) PROVE Done
  BY <1>1, <1>9 DEF Exit, With, Become, Stage, TypeOK
<1>10. ASSUME NEW r \in Repo, Deliver(r) PROVE Done
  <2>1. PICK what \in {"passed", "failed"} : Become(r, what)
    BY <1>10 DEF Deliver
  <2>2. r \in set /\ Stage[r] = "running"
    BY <1>10 DEF Deliver, With, Stage
  <2>3. Stage' = [Stage EXCEPT ![r] = what]
    BY <2>1, StageOf DEF Status, Settled
  <2>4. Promise!Finish(r)
    BY <1>0, <2>1, <2>2, <2>3 DEF Promise!Finish, Promise!Become, Stage
  <2> QED
    BY <1>2, <2>4
<1>11. CASE UNCHANGED vars
  BY <1>1, <1>11 DEF vars, Stage
<1> QED
  BY <1>3, <1>4, <1>6, <1>7, <1>8, <1>9, <1>10, <1>11 DEF Next, Step

\* Every execution, with its waves, permits and channels, is one that
\* BuildOrder allows.
THEOREM Implements == Spec => ImplementsPromise
<1>1. Init => Promise!Init
  BY WavesAssumption DEF Init, Promise!Init, Graph, Promise!Graph
<1>2. IndInv /\ [Next]_vars => [Promise!Next]_(Promise!vars)
  BY StepRefines
<1> QED
  BY Inductive, <1>1, <1>2, PTL DEF Spec, ImplementsPromise, Promise!Spec

\* What settling one repo does to a count of settled ones.
LEMMA CountOne ==
  ASSUME TypeOK, NEW W \in SUBSET Settled, NEW r \in set, status[r] \notin Settled,
         NEW what \in Status, Become(r, what), set' = set
  PROVE  /\ Cardinality(With(W)) \in Nat
         /\ what \in W => Cardinality(With(W)') = Cardinality(With(W)) + 1
         /\ what \notin W => With(W)' = With(W)
<1>1. IsFiniteSet(With(W)) /\ r \notin With(W) /\ r \in Repo
  BY WavesAssumption, FS_Subset DEF With, TypeOK
<1>2. what \in W => With(W)' = With(W) \cup {r}
  BY <1>1 DEF With, Become, TypeOK
<1>3. what \notin W => With(W)' = With(W)
  BY <1>1 DEF With, Become, TypeOK
<1> QED
  BY <1>1, <1>2, <1>3, FS_AddElement, FS_CardinalityType

\* The counters of the tally are the numbers of repos that passed and of those
\* named in failed_repos.
THEOREM TallyHolds == Spec => []TallyAgrees
<1>1. Init => TallyAgrees
  BY FS_EmptySet DEF Init, TallyAgrees, FailedRepos, With
<1>2. TypeOK /\ TallyAgrees /\ [Next]_vars => TallyAgrees'
  <2> SUFFICES ASSUME TypeOK, TallyAgrees, [Next]_vars PROVE TallyAgrees'
    OBVIOUS
  <2>0. set' = set
    BY SettledStays DEF Next, Step, NextWave, Skip, Refuse, LineUp, Start, Exit, Deliver, vars
  <2> DEFINE P == {"passed"}
             F == {"failed", "skipped"}
  <2>s. P \in SUBSET Settled /\ F \in SUBSET Settled
    BY DEF Settled
  <2>1. ASSUME With(P)' = With(P), With(F)' = With(F), passed' = passed, failed' = failed
        PROVE  TallyAgrees'
    BY <2>1 DEF TallyAgrees, FailedRepos
  <2>2. ASSUME NEW r \in set, status[r] \notin Settled, NEW what \in F, Become(r, what),
               passed' = passed, failed' = failed + 1
        PROVE  TallyAgrees'
    BY <2>0, <2>s, <2>2, CountOne DEF TallyAgrees, FailedRepos, Status, Settled
  <2>3. ASSUME NEW r \in set, status[r] \notin Settled, Become(r, "passed"),
               passed' = passed + 1, failed' = failed
        PROVE  TallyAgrees'
    BY <2>0, <2>s, <2>3, CountOne DEF TallyAgrees, FailedRepos, Status, Settled
  <2>4. ASSUME NEW r \in set, status[r] \notin Settled, NEW what \in Status \ Settled,
               Become(r, what), passed' = passed, failed' = failed
        PROVE  TallyAgrees'
    BY <2>0, <2>s, <2>1, <2>4, CountOne DEF Settled
  <2>5. CASE NextWave
    <3>1. With(P)' = With(P) /\ With(F)' = With(F)
      BY <2>5 DEF NextWave, Wave, With, TypeOK
    <3> QED
      BY <2>1, <2>5, <3>1 DEF NextWave
  <2>6. ASSUME NEW r \in Repo, Skip(r) \/ Refuse(r) PROVE TallyAgrees'
    BY <2>2, <2>6 DEF Skip, Refuse, Reached, With, Settled
  <2>7. ASSUME NEW r \in Repo, LineUp(r) \/ Start(r) \/ Exit(r) PROVE TallyAgrees'
    BY <2>4, <2>7 DEF LineUp, Start, Exit, Reached, With, Status, Settled
  <2>8. ASSUME NEW r \in Repo, Deliver(r) PROVE TallyAgrees'
    BY <2>2, <2>3, <2>8 DEF Deliver, With, Settled
  <2>9. CASE UNCHANGED vars
    BY <2>1, <2>9 DEF vars, With
  <2> QED
    BY <2>5, <2>6, <2>7, <2>8, <2>9 DEF Next, Step
<1>3. IndInv => TypeOK
  BY DEF IndInv
<1> QED
  BY Inductive, <1>1, <1>2, <1>3, PTL DEF Spec
==============================================================================
