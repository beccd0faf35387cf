----------------------------- MODULE BriefProofs -----------------------------
(***************************************************************************)
(* Proofs about Brief for any number of sessions and commits: IndInv is    *)
(* inductive as long as HEAD does not sidestep a brief that is looking at  *)
(* it and nobody is killed between recording a baseline and printing.      *)
(***************************************************************************)
EXTENDS Brief, TLAPS

Sheltered == ~Sidesteps /\ "print" \notin KillAt

\* The steps of a session leave the repository alone, and its commits with it.
LEMMA StepKeepsRepo ==
  ASSUME NEW p \in Session, Step(p)
  PROVE  UNCHANGED <<repo>>
BY DEF Step, Begin, Head, Error, Kill, Status, Base, Delta, Result, Emit, From, Resolve,
       Range, Show, repo

\* The steps of the user and of git leave the sessions alone.
LEMMA UserKeepsSessions ==
  ASSUME NewCommit \/ Checkout \/ Edit \/ Collect
  PROVE  UNCHANGED <<baseline, told, pc, mode, changes, full, base, list>>
BY DEF NewCommit, Checkout, Edit, Collect

\* A session that is done leaves the types alone.
LEMMA ForgetTypes ==
  ASSUME NEW p \in Session, TypeOK, Forget(p), UNCHANGED <<repo>>,
         baseline' \in Commit \cup {None}, told' \subseteq Commit
  PROVE  TypeOK'
BY DEF TypeOK, Forget, Goto, NoMode, Mode, repo

\* Types are kept.
LEMMA TypeStep == TypeOK /\ AncInv /\ ModeInv /\ [Next]_vars => TypeOK'
<1> SUFFICES ASSUME TypeOK, AncInv, ModeInv, [Next]_vars PROVE TypeOK'
  OBVIOUS
<1>1. CASE NewCommit
  BY <1>1 DEF NewCommit, TypeOK
<1>2. CASE Checkout
  BY <1>2 DEF Checkout, TypeOK
<1>3. CASE Edit
  BY <1>3 DEF Edit, TypeOK
<1>4. CASE Collect
  BY <1>4 DEF Collect, Reached, TypeOK
<1>5. ASSUME NEW p \in Session, Step(p) PROVE TypeOK'
  <2>1. CASE Begin(p)
    BY <2>1, BriefAssumption DEF Begin, Goto, TypeOK, repo
  <2>2. CASE Head(p)
    BY <2>2, ForgetTypes DEF Head, Goto, TypeOK, repo
  <2>3. CASE Error(p) \/ Kill(p) \/ Show(p)
    BY <2>3, ForgetTypes DEF Error, Kill, Show, TypeOK
  <2>4. CASE Status(p)
    BY <2>4 DEF Status, Goto, TypeOK, repo
  <2>5. CASE Base(p)
    BY <2>5 DEF Base, ReadBrief, Goto, TypeOK, repo
  <2>6. CASE Delta(p)
    <3>1. full[p] \in Commit /\ head \in Commit
      BY <2>6 DEF Delta, ModeInv, AncInv, TypeOK
    <3>2. Newer(p) \subseteq Commit /\ Notice(p) \subseteq Commit
      BY <3>1 DEF Newer, Notice, TypeOK
    <3>3. list' \in [Session -> SUBSET Commit]
      BY <2>6, <3>2 DEF Delta, Notice, TypeOK
    <3> QED
      BY <2>6, <3>3 DEF Delta, Goto, TypeOK, repo
  <2>7. CASE Result(p)
    <3>1. baseline' \in Commit \cup {None}
      BY <2>7 DEF Result, TypeOK
    <3>2. CASE Forget(p)
      BY <2>7, <3>1, <3>2, ForgetTypes DEF Result, TypeOK
    <3>3. CASE ~Forget(p)
      BY <2>7, <3>1, <3>3 DEF Result, Goto, TypeOK, repo
    <3> QED
      BY <3>2, <3>3
  <2>8. CASE Emit(p)
    <3>1. told' \subseteq Commit
      BY <2>8 DEF Emit, TypeOK
    <3> QED
      BY <2>8, <3>1, ForgetTypes DEF Emit, TypeOK
  <2>9. CASE From(p)
    BY <2>9, BriefAssumption, ForgetTypes DEF From, ReadBrief, Goto, TypeOK, repo
  <2>10. CASE Resolve(p)
    BY <2>10, ForgetTypes DEF Resolve, Goto, TypeOK, repo
  <2>11. CASE Range(p)
    <3>1. CASE Forget(p)
      BY <2>11, <3>1, ForgetTypes DEF Range, TypeOK
    <3>2. CASE ~Forget(p)
      <4>1. full[p] \in Commit
        BY <2>11 DEF Range, ModeInv, TypeOK
      <4>2. Between(p) \subseteq Commit
        BY <4>1 DEF Between, TypeOK
      <4> QED
        BY <2>11, <3>2, <4>2 DEF Range, Goto, TypeOK, repo
    <3> QED
      BY <3>1, <3>2
  <2> QED
    BY <1>5, <2>1, <2>2, <2>3, <2>4, <2>5, <2>6, <2>7, <2>8, <2>9, <2>10, <2>11 DEF Step
<1>6. CASE UNCHANGED vars
  BY <1>6 DEF vars, TypeOK
<1> QED
  BY <1>1, <1>2, <1>3, <1>4, <1>5, <1>6 DEF Next

----------------------------------------------------------------------------
\* A commit that has been made keeps its ancestors, and stays made.
LEMMA MadeStays ==
  ASSUME TypeOK, AncInv, [Next]_vars, NEW c \in Made
  PROVE  anc'[c] = anc[c] /\ c \in Made'
<1>1. CASE NewCommit
  BY <1>1 DEF NewCommit, Made, TypeOK
<1>2. CASE Checkout \/ Edit \/ Collect \/ UNCHANGED vars
  BY <1>2 DEF Checkout, Edit, Collect, vars, Made
<1>3. CASE \E p \in Session : Step(p)
  BY <1>3, StepKeepsRepo DEF repo, Made
<1> QED
  BY <1>1, <1>2, <1>3 DEF Next

\* HEADs, baselines and what sessions remember are commits that were made.
LEMMA AncStep == TypeOK /\ AncInv /\ [Next]_vars => AncInv'
<1> SUFFICES ASSUME TypeOK, AncInv, [Next]_vars PROVE AncInv'
  OBVIOUS
<1>1. CASE NewCommit
  <2>1. PICK c \in Commit, on \in known \cup {None} :
          /\ anc[c] = {}
          /\ anc' = [anc EXCEPT ![c] = {c} \cup IF on = None THEN {} ELSE anc[on]]
          /\ known' = known \cup {c} /\ head' = c
    BY <1>1 DEF NewCommit
  <2> DEFINE A == {c} \cup IF on = None THEN {} ELSE anc[on]
  <2>2. A \subseteq Commit /\ c \in A
    BY <2>1 DEF TypeOK
  <2>3. /\ anc'[c] = A
        /\ \A d \in Commit : d # c => anc'[d] = anc[d]
    BY <2>1, <2>2 DEF TypeOK
  <2>4. \A d \in Commit : c \notin anc[d]
    BY <2>1 DEF AncInv, Made
  <2>5. \A d \in A : d = c \/ (on # None /\ d \in anc[on])
    OBVIOUS
  <2>6. on # None => on \in Made
    BY <2>1 DEF AncInv
  <2>7. \A d \in Made : d \in Made'
    BY MadeStays
  <2>8. c \in Made'
    BY <2>2, <2>3 DEF Made
  <2>9. \A d \in Commit : anc'[d] = {} \/ d \in Made'
    BY <2>3, <2>7, <2>8 DEF AncInv
  <2>10. ASSUME NEW d \in Commit, NEW e \in anc'[d]
         PROVE  e \in Made' /\ anc'[e] \subseteq anc'[d]
    <3>1. CASE d = c /\ e = c
      BY <3>1, <2>8
    <3>2. CASE d = c /\ e # c
      <4>1. on # None /\ e \in anc[on] /\ on \in Made
        BY <3>2, <2>10, <2>3, <2>5, <2>6
      <4>2. e \in Made /\ anc[e] \subseteq anc[on]
        BY <4>1 DEF AncInv, Made
      <4>3. anc[e] \subseteq A /\ anc'[e] = anc[e]
        BY <4>1, <4>2, MadeStays
      <4> QED
        BY <4>2, <4>3, <3>2, <2>3, <2>7
    <3>3. CASE d # c
      <4>1. e \in anc[d] /\ e \in Made /\ anc[e] \subseteq anc[d]
        BY <3>3, <2>10, <2>3 DEF AncInv
      <4> QED
        BY <4>1, <3>3, <2>3, <2>7, MadeStays
    <3> QED
      BY <3>1, <3>2, <3>3
  <2>11. known' \subseteq Made' /\ head' \in Made'
    BY <2>1, <2>7, <2>8 DEF AncInv
  <2>12. head' # None
    BY <2>1, BriefAssumption
  <2> QED
    BY <1>1, <2>7, <2>9, <2>10, <2>11, <2>12, UserKeepsSessions DEF AncInv
<1>2. CASE Checkout
  BY <1>2, BriefAssumption DEF Checkout, AncInv, Made
<1>3. CASE Edit
  BY <1>3 DEF Edit, AncInv, Made
<1>4. CASE Collect
  BY <1>4 DEF Collect, Reached, AncInv, Made, TypeOK
<1>5. ASSUME NEW p \in Session, Step(p) PROVE AncInv'
  <2>1. UNCHANGED <<head, anc, known>> /\ Made' = Made
    BY <1>5, StepKeepsRepo DEF repo, Made
  <2>2. baseline' \in {baseline, full[p]}
    BY <1>5 DEF Step, Begin, Head, Error, Kill, Status, Base, Delta, Result, Emit, From,
                Resolve, Range, Show
  <2>3. \A q \in Session : full'[q] \in {None, full[q], head}
    BY <1>5 DEF Step, Begin, Head, Error, Kill, Status, Base, Delta, Result, Emit, From,
                Resolve, Range, Show, Forget, TypeOK
  <2> USE DEF Forget, Goto, TypeOK, AncInv
  <2>4. ASSUME NEW q \in Session, pc'[q] # "resolve" \/ mode'[q].cmd = "changed"
        PROVE  base'[q] \in Made \cup {None}
    <3>1. CASE Begin(p) \/ Head(p) \/ Error(p) \/ Kill(p) \/ Status(p)
      BY <3>1, <2>4 DEF Begin, Head, Error, Kill, Status
    <3>2. CASE Base(p) \/ Delta(p) \/ Result(p) \/ Emit(p)
      BY <3>2, <2>4 DEF Base, ReadBrief, Delta, Result, Emit
    <3>3. CASE Resolve(p) \/ Range(p) \/ Show(p)
      BY <3>3, <2>4 DEF Resolve, Range, Show
    <3>4. CASE From(p)
      <4>1. CASE q = p /\ mode[p].cmd = "changed"
        BY <3>4, <4>1 DEF From, ReadBrief
      <4>2. CASE q = p /\ mode[p].cmd # "changed"
        <5>1. pc'[p] = "resolve" => mode' = mode
          BY <3>4 DEF From
        <5>2. pc'[p] # "resolve"
          BY <2>4, <4>2, <5>1
        <5> QED
          BY <3>4, <4>2, <5>2 DEF From
      <4>3. CASE q # p
        <5>1. pc'[q] = pc[q] /\ base'[q] = base[q] /\ mode'[q] = mode[q]
          BY <3>4, <4>3 DEF From
        <5> QED
          BY <2>4, <5>1
      <4> QED
        BY <4>1, <4>2, <4>3
    <3> QED
      BY <1>5, <3>1, <3>2, <3>3, <3>4 DEF Step
  <2>5. baseline' \in Made \cup {None}
    BY <2>2
  <2>6. \A q \in Session : full'[q] \in Made \cup {None}
    BY <2>3
  <2>7. \A q \in Session : full'[q] # None => head' # None
    BY <2>1, <2>3
  <2> QED
    BY <2>1, <2>4, <2>5, <2>6, <2>7
<1>6. CASE UNCHANGED vars
  BY <1>6 DEF vars, AncInv, Made
<1> QED
  BY <1>1, <1>2, <1>3, <1>4, <1>5, <1>6 DEF Next

----------------------------------------------------------------------------
\* A session is where its command leads.
LEMMA ModeStep == TypeOK /\ ModeInv /\ [Next]_vars => ModeInv'
<1> SUFFICES ASSUME TypeOK, ModeInv, [Next]_vars PROVE ModeInv'
  OBVIOUS
<1>1. CASE NewCommit \/ Checkout \/ Edit \/ Collect
  BY <1>1, UserKeepsSessions DEF ModeInv
<1>2. ASSUME NEW p \in Session, Step(p) PROVE ModeInv'
  <2> USE DEF Forget, Goto, TypeOK, ModeInv
  <2>1. CASE Begin(p) \/ Status(p)
    BY <2>1 DEF Begin, Status
  <2>2. CASE Head(p)
    BY <2>2 DEF Head
  <2>3. CASE Error(p) \/ Kill(p) \/ Show(p)
    BY <2>3 DEF Error, Kill, Show
  <2>4. CASE Base(p) \/ Delta(p)
    BY <2>4 DEF Base, Delta
  <2>5. CASE Result(p) \/ Emit(p)
    BY <2>5 DEF Result, Emit
  <2>6. CASE From(p)
    BY <2>6 DEF From
  <2>7. CASE Resolve(p) \/ Range(p)
    BY <2>7 DEF Resolve, Range
  <2> QED
    BY <1>2, <2>1, <2>2, <2>3, <2>4, <2>5, <2>6, <2>7 DEF Step
<1>3. CASE UNCHANGED vars
  BY <1>3 DEF vars, ModeInv
<1> QED
  BY <1>1, <1>2, <1>3 DEF Next

\* Where a session comes from when it is about to compare, or has compared.
LEMMA ComesFrom ==
  ASSUME TypeOK, NEW p \in Session, Step(p)
  PROVE  /\ pc'[p] = "base" => full'[p] = head /\ head # None
         /\ pc'[p] = "delta" => Base(p)
         /\ pc'[p] = "result" => Delta(p) \/ (Status(p) /\ head = None)
         /\ pc'[p] = "resolve" => From(p)
         /\ pc'[p] = "range" => Resolve(p)
         /\ pc'[p] = "show" => Range(p)
<1> USE DEF Goto, Forget, TypeOK
<1>1. CASE Begin(p)
  <2>1. pc'[p] \in {"status", "head"}
    BY <1>1 DEF Begin
  <2> QED
    BY <2>1
<1>2. CASE Head(p)
  BY <1>2 DEF Head
<1>3. CASE Error(p) \/ Kill(p) \/ Emit(p) \/ Show(p)
  BY <1>3 DEF Error, Kill, Emit, Show
<1>4. CASE Status(p)
  BY <1>4 DEF Status
<1>5. CASE Base(p)
  BY <1>5 DEF Base
<1>6. CASE Delta(p)
  BY <1>6 DEF Delta
<1>7. CASE Result(p)
  <2>1. pc'[p] \in {"idle", "print"}
    BY <1>7 DEF Result
  <2> QED
    BY <2>1
<1>8. CASE From(p)
  <2>1. pc'[p] \in {"idle", "resolve"}
    BY <1>8 DEF From
  <2> QED
    BY <1>8, <2>1
<1>9. CASE Resolve(p)
  <2>1. pc'[p] \in {"idle", "range"}
    BY <1>9 DEF Resolve
  <2> QED
    BY <1>9, <2>1
<1>10. CASE Range(p)
  <2>1. pc'[p] \in {"idle", "show"}
    BY <1>10 DEF Range
  <2> QED
    BY <1>10, <2>1
<1> QED
  BY <1>1, <1>2, <1>3, <1>4, <1>5, <1>6, <1>7, <1>8, <1>9, <1>10 DEF Step

\* Other sessions stand still.
LEMMA OthersStay ==
  ASSUME TypeOK, NEW p \in Session, Step(p), NEW q \in Session, q # p
  PROVE  UNCHANGED <<pc[q], mode[q], changes[q], full[q], base[q], list[q]>>
<1>1. CASE Begin(p) \/ Head(p) \/ Error(p) \/ Kill(p) \/ Status(p)
  BY <1>1 DEF Begin, Head, Error, Kill, Status, Forget, Goto, TypeOK
<1>2. CASE Base(p) \/ Delta(p) \/ Result(p) \/ Emit(p)
  BY <1>2 DEF Base, Delta, Result, Emit, Forget, Goto, TypeOK
<1>3. CASE From(p) \/ Resolve(p) \/ Range(p) \/ Show(p)
  BY <1>3 DEF From, Resolve, Range, Show, Forget, Goto, TypeOK
<1> QED
  BY <1>1, <1>2, <1>3 DEF Step

\* What a brief has resolved stays behind HEAD until it has compared it.
LEMMA LookStep ==
  ASSUME ~Sidesteps, TypeOK, AncInv, ModeInv, LookInv, [Next]_vars
  PROVE  LookInv'
<1>1. CASE NewCommit
  BY <1>1, BriefAssumption DEF NewCommit, LookInv, Looking
<1>2. CASE Checkout
  BY <1>2, BriefAssumption DEF Checkout, LookInv, Looking, TypeOK
<1>3. CASE Edit \/ Collect \/ UNCHANGED vars
  BY <1>3 DEF Edit, Collect, vars, LookInv, Looking
<1>4. ASSUME NEW p \in Session, Step(p) PROVE LookInv'
  <2>1. UNCHANGED <<head, anc>>
    BY <1>4, StepKeepsRepo DEF repo
  <2>2. ASSUME NEW q \in Session, q # p
        PROVE  UNCHANGED <<pc[q], mode[q], full[q]>>
    BY <1>4, <2>2, OthersStay
  <2>3. ASSUME Looking(p)'
        PROVE  (full'[p] = full[p] /\ Looking(p)) \/ (full'[p] = head /\ head # None)
    <3>1. CASE pc'[p] = "base"
      BY <1>4, <3>1, ComesFrom
    <3>2. CASE pc'[p] = "delta"
      <4>1. Base(p)
        BY <1>4, <3>2, ComesFrom
      <4> QED
        BY <4>1 DEF Base, Looking, TypeOK
    <3> QED
      BY <2>3, <3>1, <3>2 DEF Looking
  <2>4. head # None => head \in anc[head]
    BY DEF AncInv, Made
  <2> QED
    BY <2>1, <2>2, <2>3, <2>4 DEF LookInv, Looking
<1> QED
  BY <1>1, <1>2, <1>3, <1>4 DEF Next

----------------------------------------------------------------------------
\* What has been told, or is about to be, stays so.
LEMMA TellingStays ==
  ASSUME "print" \notin KillAt, TypeOK, NEW p \in Session, Step(p)
  PROVE  told \cup Telling \subseteq (told \cup Telling)'
<1>1. told \subseteq told'
  BY DEF Step, Begin, Head, Error, Kill, Status, Base, Delta, Result, Emit, From, Resolve,
         Range, Show
<1>2. ASSUME NEW q \in Session, pc[q] = "print"
      PROVE  (pc'[q] = "print" /\ list'[q] = list[q]) \/ list[q] \subseteq told'
  <2>1. CASE Begin(p) \/ Head(p) \/ Error(p) \/ Kill(p) \/ Status(p)
    BY <2>1, <1>2 DEF Begin, Head, Error, Kill, Status, Forget, Goto, TypeOK
  <2>2. CASE Base(p) \/ Delta(p) \/ Result(p)
    BY <2>2, <1>2 DEF Base, Delta, Result, Forget, Goto, TypeOK
  <2>3. CASE Emit(p)
    BY <2>3, <1>2 DEF Emit, Forget, Goto, TypeOK
  <2>4. CASE From(p) \/ Resolve(p) \/ Range(p) \/ Show(p)
    BY <2>4, <1>2 DEF From, Resolve, Range, Show, Forget, Goto, TypeOK
  <2> QED
    BY Step(p), <2>1, <2>2, <2>3, <2>4 DEF Step
<1> QED
  BY <1>1, <1>2 DEF Telling

\* A baseline that moves is the HEAD of a line that is about to be printed.
LEMMA BaselineMoves ==
  ASSUME TypeOK, NEW p \in Session, Step(p)
  PROVE  \/ baseline' = baseline
         \/ /\ baseline' = full[p] /\ full[p] # None /\ pc[p] = "result"
            /\ pc'[p] = "print" /\ list'[p] = list[p]
<1>1. CASE Result(p)
  BY <1>1 DEF Result, Advances, Goto, TypeOK
<1>2. CASE ~Result(p)
  BY <1>2 DEF Step, Begin, Head, Error, Kill, Status, Base, Delta, Emit, From, Resolve,
              Range, Show
<1> QED
  BY <1>1, <1>2

\* The baseline only ever moves over what is told.
LEMMA SkippedStep ==
  ASSUME "print" \notin KillAt, TypeOK, AncInv, CoverInv, NoneSkipped, [Next]_vars
  PROVE  NoneSkipped'
<1>1. CASE NewCommit \/ Checkout \/ Edit \/ Collect \/ UNCHANGED vars
  <2>1. UNCHANGED <<baseline, told, pc, list>>
    BY <1>1, UserKeepsSessions DEF vars
  <2>2. baseline # None => anc'[baseline] = anc[baseline]
    BY MadeStays DEF AncInv
  <2> QED
    BY <2>1, <2>2 DEF NoneSkipped, Covered, Telling
<1>2. ASSUME NEW p \in Session, Step(p) PROVE NoneSkipped'
  <2>1. anc' = anc
    BY <1>2, StepKeepsRepo DEF repo
  <2>2. told \cup Telling \subseteq (told \cup Telling)'
    BY <1>2, TellingStays
  <2>3. CASE baseline' = baseline
    BY <2>1, <2>2, <2>3 DEF NoneSkipped, Covered
  <2>4. CASE baseline' # baseline
    <3>1. /\ baseline' = full[p] /\ full[p] # None /\ pc[p] = "result"
          /\ pc'[p] = "print" /\ list'[p] = list[p]
      BY <1>2, <2>4, BaselineMoves
    <3>2. anc[full[p]] \ list[p] \subseteq told \cup Telling
      BY <3>1 DEF CoverInv, Covered
    <3>3. list[p] \subseteq Telling'
      BY <3>1 DEF Telling
    <3> QED
      BY <2>1, <2>2, <3>1, <3>2, <3>3 DEF NoneSkipped, Covered
  <2> QED
    BY <2>3, <2>4
<1> QED
  BY <1>1, <1>2 DEF Next

\* What a brief has read was covered, and its list makes up for the rest.
LEMMA CoverStep ==
  ASSUME "print" \notin KillAt, TypeOK, AncInv, ModeInv, LookInv, CoverInv, NoneSkipped,
         [Next]_vars
  PROVE  CoverInv'
<1>1. CASE NewCommit \/ Checkout \/ Edit \/ Collect \/ UNCHANGED vars
  <2>1. UNCHANGED <<told, pc, full, base, list>>
    BY <1>1, UserKeepsSessions DEF vars
  <2>2. \A q \in Session : full[q] # None => anc'[full[q]] = anc[full[q]]
    BY MadeStays DEF AncInv
  <2>3. \A q \in Session :
          /\ pc[q] \in {"delta", "resolve", "range"}
          /\ pc[q] # "resolve" \/ mode[q].cmd = "changed"
          /\ base[q] # None
          => anc'[base[q]] = anc[base[q]]
    BY MadeStays DEF AncInv
  <2>4. mode' = mode
    BY <1>1, UserKeepsSessions DEF vars
  <2> QED
    BY <2>1, <2>2, <2>3, <2>4 DEF CoverInv, Covered, Telling, ModeInv
<1>2. ASSUME NEW p \in Session, Step(p) PROVE CoverInv'
  <2> DEFINE All == told \cup Telling
  <2>1. anc' = anc
    BY <1>2, StepKeepsRepo DEF repo
  <2>2. told \cup Telling \subseteq (told \cup Telling)'
    BY <1>2, TellingStays
  <2>3. ASSUME NEW q \in Session, pc'[q] = "delta", base'[q] # None
        PROVE  Covered(anc[base[q]])'
    <3>1. CASE q # p
      BY <1>2, <2>1, <2>2, <2>3, <3>1, OthersStay DEF CoverInv, Covered
    <3>2. CASE q = p
      <4>1. base'[p] = baseline
        BY <1>2, <2>3, <3>2, ComesFrom DEF Base, ReadBrief, TypeOK
      <4> QED
        BY <2>1, <2>2, <2>3, <3>2, <4>1 DEF NoneSkipped, Covered
    <3> QED
      BY <3>1, <3>2
  <2>4. ASSUME NEW q \in Session, pc'[q] = "result", full'[q] # None
        PROVE  Covered(anc[full[q]] \ list[q])'
    <3>1. CASE q # p
      BY <1>2, <2>1, <2>2, <2>4, <3>1, OthersStay DEF CoverInv, Covered
    <3>2. CASE q = p /\ Delta(p)
      <4>1. full'[p] = full[p] /\ anc[full[p]] \subseteq anc[head]
        BY <3>2 DEF Delta, ModeInv, LookInv, Looking, AncInv, TypeOK
      <4>2. base[p] # None => anc[base[p]] \subseteq told \cup Telling
        BY <3>2 DEF Delta, CoverInv, Covered
      <4>3. anc[full[p]] \ list'[p] \subseteq told \cup Telling
        BY <3>2, <4>1, <4>2 DEF Delta, Newer, Notice, TypeOK
      <4> QED
        BY <2>1, <2>2, <3>2, <4>1, <4>3 DEF Covered
    <3>3. CASE q = p /\ ~Delta(p)
      <4>1. Status(p) /\ head = None /\ full'[p] = full[p]
        BY <1>2, <2>4, <3>3, ComesFrom DEF Status
      <4> QED
        BY <2>4, <3>3, <4>1 DEF AncInv
    <3> QED
      BY <3>1, <3>2, <3>3
  <2>5. ASSUME NEW q \in Session, pc'[q] \in {"resolve", "range"}, mode'[q].cmd = "changed"
        PROVE  Covered(anc[base[q]])'
    <3>1. CASE q # p
      BY <1>2, <2>1, <2>2, <2>5, <3>1, OthersStay DEF CoverInv, Covered
    <3>2. CASE q = p /\ pc[p] = "resolve"
      <4>1. Resolve(p) /\ pc'[p] # "idle"
        BY <1>2, <2>5, <3>2, ComesFrom DEF From
      <4>2. mode'[p] = mode[p] /\ base'[p] = base[p]
        BY <4>1 DEF Resolve, Forget, Goto, TypeOK
      <4> QED
        BY <2>1, <2>2, <2>5, <3>2, <4>2 DEF CoverInv, Covered
    <3>3. CASE q = p /\ pc[p] # "resolve"
      <4>1. From(p) /\ pc'[p] = "resolve"
        BY <1>2, <2>5, <3>3, ComesFrom DEF Resolve
      <4>2. base'[p] = baseline /\ baseline # None
        BY <2>5, <3>3, <4>1 DEF From, ReadBrief, Forget, Goto, TypeOK
      <4> QED
        BY <2>1, <2>2, <3>3, <4>2 DEF NoneSkipped, Covered
    <3> QED
      BY <3>1, <3>2, <3>3
  <2> QED
    BY <2>1, <2>3, <2>4, <2>5 DEF CoverInv
<1> QED
  BY <1>1, <1>2 DEF Next

\* What a range leaves out lies behind the baseline it begins at.
LEMMA ChangedStep ==
  ASSUME "print" \notin KillAt, TypeOK, AncInv, ModeInv, CoverInv, ChangedHidesNone,
         [Next]_vars
  PROVE  ChangedHidesNone'
<1>1. CASE NewCommit \/ Checkout \/ Edit \/ Collect \/ UNCHANGED vars
  <2>1. UNCHANGED <<told, pc, mode, full, list>>
    BY <1>1, UserKeepsSessions DEF vars
  <2>2. ASSUME NEW q \in Session, pc[q] = "show"
        PROVE  anc'[full[q]] = anc[full[q]]
    <3>1. full[q] \in Made
      BY <2>2 DEF ModeInv, AncInv
    <3> QED
      BY <3>1, MadeStays
  <2> QED
    BY <2>1, <2>2 DEF ChangedHidesNone, Covered, Telling
<1>2. ASSUME NEW p \in Session, Step(p), NEW q \in Session,
             pc'[q] = "show", mode'[q].cmd = "changed"
      PROVE  Covered(anc[full[q]] \ list[q])'
  <2>1. anc' = anc
    BY <1>2, StepKeepsRepo DEF repo
  <2>4. told \cup Telling \subseteq (told \cup Telling)'
    BY <1>2, TellingStays
  <2>2. CASE q # p
    BY <1>2, <2>1, <2>2, <2>4, OthersStay DEF ChangedHidesNone, Covered
  <2>3. CASE q = p
    <3>1. Range(p)
      BY <1>2, <2>3, ComesFrom
    <3>2. ~Forget(p)
      BY <1>2, <2>3 DEF Forget, Goto, TypeOK
    <3>3. /\ pc[p] = "range" /\ mode[p].cmd = "changed" /\ full'[p] = full[p]
          /\ list'[p] = anc[full[p]] \ anc[base[p]]
      BY <1>2, <2>3, <3>1, <3>2 DEF Range, Between, TypeOK
    <3>4. anc[base[p]] \subseteq told \cup Telling
      BY <3>3 DEF CoverInv, Covered
    <3> QED
      BY <2>1, <2>3, <2>4, <3>3, <3>4 DEF Covered
  <2> QED
    BY <2>2, <2>3
<1> QED
  BY <1>1, <1>2 DEF Next, ChangedHidesNone

----------------------------------------------------------------------------
LEMMA Initially == Init => IndInv
<1> SUFFICES ASSUME Init PROVE IndInv
  OBVIOUS
<1>1. TypeOK
  BY DEF Init, TypeOK, NoMode, Mode
<1>2. AncInv
  BY DEF Init, AncInv, Made
<1>3. ModeInv /\ LookInv /\ CoverInv /\ NoneSkipped /\ ChangedHidesNone
  BY DEF Init, ModeInv, LookInv, Looking, CoverInv, NoneSkipped, ChangedHidesNone
<1> QED
  BY <1>1, <1>2, <1>3 DEF IndInv

\* The whole invariant, for sheltered sessions.
THEOREM Inductive == ASSUME Sheltered PROVE Spec => []IndInv
<1>1. IndInv /\ [Next]_vars => IndInv'
  BY Sheltered, TypeStep, AncStep, ModeStep, LookStep, CoverStep, SkippedStep, ChangedStep
  DEF IndInv, Sheltered
<1> QED
  BY <1>1, Initially, PTL DEF Spec

\* You only consume a delta you were shown (src/src/commands/brief.rs:211): no
\* commit gets behind the baseline unless some brief has told of it, or is
\* about to, provided that nobody is killed between recording the baseline and
\* printing, and HEAD does not sidestep a commit that is being compared.
THEOREM NothingSkipped == ASSUME Sheltered PROVE Spec => []NoneSkipped
<1>1. IndInv => NoneSkipped
  BY DEF IndInv
<1> QED
  BY <1>1, Inductive, PTL

\* A `changed` since the last brief leaves nothing out that no brief has told of
\* or is about to (src/src/commands/changed.rs:112-134), whatever happens to
\* HEAD, to the baseline and to the objects meanwhile; provided the same.
THEOREM ChangedTellsAll == ASSUME Sheltered PROVE Spec => []ChangedHidesNone
<1>1. IndInv => ChangedHidesNone
  BY DEF IndInv
<1> QED
  BY <1>1, Inductive, PTL
==============================================================================
