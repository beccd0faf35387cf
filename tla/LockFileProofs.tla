--------------------------- MODULE LockFileProofs ---------------------------
(***************************************************************************)
(* IndInv of LockFile is inductive, and Exclusion, ExclusiveUntilCondemned *)
(* and LossCause follow from it, for any set of processes, hosts, clocks   *)
(* and any TTL; StagingCleaned is inductive beside it.                     *)
(***************************************************************************)
EXTENDS LockFile, TLAPS

\* Every step of every process keeps the types.
LEMMA TypeStep == TypeOK /\ PcInv /\ [Next]_vars => TypeOK'
<1> SUFFICES ASSUME TypeOK, PcInv, [Next]_vars PROVE TypeOK'
  OBVIOUS
<1> USE LockAssumption DEF TypeOK, Proc, Content, Working, Final, Goto, At, Running
<1>1. ASSUME NEW p \in Proc, Begin(p) PROVE TypeOK'
  BY <1>1 DEF Begin
<1>2. ASSUME NEW p \in Proc, Look(p) PROVE TypeOK'
  BY <1>2 DEF Look
<1>3. ASSUME NEW p \in Proc, Stage(p) PROVE TypeOK'
  BY <1>3 DEF Stage, PcInv
<1>4. ASSUME NEW p \in Proc, Link(p) PROVE TypeOK'
  BY <1>4 DEF Link, PcInv
<1>5. ASSUME NEW p \in Proc, Granted(p) PROVE TypeOK'
  BY <1>5 DEF Granted, Unstaged
<1>6. ASSUME NEW p \in Proc, Denied(p) PROVE TypeOK'
  BY <1>6 DEF Denied, Unstaged
<1>7. ASSUME NEW p \in Proc, Wake(p) PROVE TypeOK'
  BY <1>7 DEF Wake
<1>8. ASSUME NEW p \in Proc, Read(p) PROVE TypeOK'
  BY <1>8 DEF Read, IfAbsent
<1>9. ASSUME NEW p \in Proc, Judge(p) PROVE TypeOK'
  BY <1>9 DEF Judge, IfStale, IfHeld
<1>10. ASSUME NEW p \in Proc, Break(p) PROVE TypeOK'
  BY <1>10 DEF Break, Unlinked, IfBroken
<1>11. ASSUME NEW p \in Proc, Release(p) PROVE TypeOK'
  BY <1>11 DEF Release, Unlinked
<1>12. ASSUME NEW p \in Proc, Exit(p) \/ Crash(p) PROVE TypeOK'
  BY <1>12 DEF Exit, Crash, Die
<1>13. ASSUME NEW p \in Proc, Fault(p) PROVE TypeOK'
  BY <1>13 DEF Fault, PcInv
<1>19. ASSUME NEW p \in Proc, ReadFails(p) PROVE TypeOK'
  BY <1>19 DEF ReadFails
<1>14. ASSUME NEW p \in Proc, Timeout(p) PROVE TypeOK'
  BY <1>14 DEF Timeout
<1>15. ASSUME NEW p \in Proc, PidReuse(p) PROVE TypeOK'
  BY <1>15 DEF PidReuse
<1>16. CASE Tick
  BY <1>16 DEF Tick
<1>17. CASE UNCHANGED vars
  BY <1>17 DEF vars
<1> QED
  BY <1>1, <1>2, <1>3, <1>4, <1>5, <1>6, <1>7, <1>8, <1>9, <1>10, <1>11, <1>12,
     <1>13, <1>14, <1>15, <1>16, <1>17, <1>19 DEF Next, Step

\* The shape of a step, from which the stability lemmas follow: who is where,
\* who has ended and how old the stamps are change one process at a time.
LEMMA StepShape ==
  ASSUME TypeOK, PcInv, [Next]_vars, NEW q \in Acquirers
  PROVE  /\ Published(q) => Published(q)'
         /\ Ended(q) => Ended(q)'
         /\ Published(q) => age'[q] >= age[q]
<1> USE LockAssumption
<1> USE DEF TypeOK, Proc, Content, Working, Final, Goto, At, Running, Published, Ended
<1> DEFINE Shape == /\ Published(q) => Published(q)'
                    /\ Ended(q) => Ended(q)'
                    /\ Published(q) => age'[q] >= age[q]
<1>1. ASSUME NEW p \in Proc, Begin(p) PROVE Shape
  BY <1>1 DEF Begin, PcInv
<1>2. ASSUME NEW p \in Proc, Look(p) PROVE Shape
  BY <1>2 DEF Look
<1>3. ASSUME NEW p \in Proc, Stage(p) PROVE Shape
  BY <1>3 DEF Stage
<1>4. ASSUME NEW p \in Proc, Link(p) PROVE Shape
  BY <1>4 DEF Link
<1>5. ASSUME NEW p \in Proc, Granted(p) PROVE Shape
  BY <1>5 DEF Granted
<1>6. ASSUME NEW p \in Proc, Denied(p) PROVE Shape
  BY <1>6 DEF Denied
<1>7. ASSUME NEW p \in Proc, Wake(p) PROVE Shape
  BY <1>7 DEF Wake
<1>8. ASSUME NEW p \in Proc, Read(p) PROVE Shape
  BY <1>8 DEF Read
<1>9. ASSUME NEW p \in Proc, Judge(p) PROVE Shape
  BY <1>9 DEF Judge
<1>10. ASSUME NEW p \in Proc, Break(p) PROVE Shape
  BY <1>10 DEF Break
<1>11. ASSUME NEW p \in Proc, Release(p) PROVE Shape
  BY <1>11 DEF Release
<1>12. ASSUME NEW p \in Proc, Exit(p) \/ Crash(p) PROVE Shape
  BY <1>12 DEF Exit, Crash, Die
<1>13. ASSUME NEW p \in Proc, Fault(p) PROVE Shape
  BY <1>13 DEF Fault
<1>19. ASSUME NEW p \in Proc, ReadFails(p) PROVE Shape
  BY <1>19 DEF ReadFails
<1>14. ASSUME NEW p \in Proc, Timeout(p) PROVE Shape
  BY <1>14 DEF Timeout
<1>15. ASSUME NEW p \in Proc, PidReuse(p) PROVE Shape
  BY <1>15 DEF PidReuse
<1>16. CASE Tick
  BY <1>16 DEF Tick
<1>17. CASE UNCHANGED vars
  BY <1>17 DEF vars
<1> QED
  BY <1>1, <1>2, <1>3, <1>4, <1>5, <1>6, <1>7, <1>8, <1>9, <1>10, <1>11, <1>12,
     <1>13, <1>14, <1>15, <1>16, <1>17, <1>19 DEF Next, Step

\* Once is_stale may call a published lock stale it may do so for ever: stamps
\* only age and a process that has ended does not run again.
LEMMA CondemnedStays ==
  ASSUME TypeOK, TypeOK', PcInv, [Next]_vars, NEW q \in Acquirers, Condemned(q)
  PROVE  Condemned(q)'
<1>1. Published(q)' /\ (Ended(q) => Ended(q)') /\ age'[q] >= age[q]
  BY StepShape DEF Condemned
<1>2. ASSUME NEW p \in Proc, Expired(p, q) PROVE Expired(p, q)'
  <2>1. age[q] \in Int /\ age'[q] \in Int /\ Offset[p] \in Int /\ Offset[q] \in Int /\ TTL \in Int
    BY LockAssumption DEF TypeOK, Proc
  <2> QED
    BY <1>1, <1>2, <2>1 DEF Expired, SeenAge
<1> QED
  BY <1>1, <1>2 DEF Condemned

\* A lock that a process judges stale can be called stale: in particular a pid
\* that does not answer belongs to a process that has ended, not to one that
\* has not begun.
LEMMA StaleIsCondemned ==
  ASSUME TypeOK, PcInv, SeenInv, NEW p \in Proc, seen[p] \in Acquirers,
         IsStale(p, seen[p])
  PROVE  Condemned(seen[p])
<1> DEFINE q == seen[p]
<1>1. Published(q) /\ q \in Proc
  BY DEF SeenInv, Proc
<1>2. CASE ~PidAnswers(q)
  <2>1. life[q] # "unborn"
    BY <1>1 DEF PcInv, Published
  <2> QED
    BY <1>1, <1>2, <2>1 DEF PidAnswers, Condemned, Ended, TypeOK
<1>3. CASE Expired(p, q)
  BY <1>1, <1>3 DEF Condemned
<1> QED
  BY <1>2, <1>3, LockAssumption DEF IsStale, Proc

\* A process stays on the path of its role.
LEMMA PcStep == IndInv /\ TypeOK' /\ [Next]_vars => PcInv'
<1> SUFFICES ASSUME IndInv, TypeOK', [Next]_vars PROVE PcInv'
  OBVIOUS
<1> USE LockAssumption DEF IndInv, TypeOK, Proc, Content, Working, Final, Goto, At, Running, PcInv
<1>1. ASSUME NEW p \in Proc, Begin(p) PROVE PcInv'
  BY <1>1 DEF Begin
<1>2. ASSUME NEW p \in Proc, Look(p) PROVE PcInv'
  BY <1>2 DEF Look
<1>3. ASSUME NEW p \in Proc, Stage(p) PROVE PcInv'
  BY <1>3 DEF Stage
<1>4. ASSUME NEW p \in Proc, Link(p) PROVE PcInv'
  BY <1>4 DEF Link, Taken
<1>5. ASSUME NEW p \in Proc, Granted(p) PROVE PcInv'
  BY <1>5 DEF Granted
<1>6. ASSUME NEW p \in Proc, Denied(p) PROVE PcInv'
  BY <1>6 DEF Denied
<1>7. ASSUME NEW p \in Proc, Wake(p) PROVE PcInv'
  BY <1>7 DEF Wake
<1>8. ASSUME NEW p \in Proc, Read(p) PROVE PcInv'
  BY <1>8 DEF Read, IfAbsent
<1>9. ASSUME NEW p \in Proc, Judge(p) PROVE PcInv'
  BY <1>9 DEF Judge, IfStale, IfHeld
<1>10. ASSUME NEW p \in Proc, Break(p) PROVE PcInv'
  BY <1>10 DEF Break, Unlinked, IfBroken
<1>11. ASSUME NEW p \in Proc, Release(p) PROVE PcInv'
  BY <1>11 DEF Release, Unlinked
<1>12. ASSUME NEW p \in Proc, Exit(p) PROVE PcInv'
  BY <1>12 DEF Exit, Die
<1>13. ASSUME NEW p \in Proc, Crash(p) PROVE PcInv'
  BY <1>13 DEF Crash, Die
<1>14. ASSUME NEW p \in Proc, Fault(p) PROVE PcInv'
  BY <1>14 DEF Fault
<1>19. ASSUME NEW p \in Proc, ReadFails(p) PROVE PcInv'
  BY <1>19 DEF ReadFails
<1>15. ASSUME NEW p \in Proc, Timeout(p) PROVE PcInv'
  BY <1>15 DEF Timeout
<1>16. ASSUME NEW p \in Proc, PidReuse(p) PROVE PcInv'
  BY <1>16 DEF PidReuse
<1>17. CASE Tick
  BY <1>17 DEF Tick
<1>18. CASE UNCHANGED vars
  BY <1>18 DEF vars
<1> QED
  BY <1>1, <1>2, <1>3, <1>4, <1>5, <1>6, <1>7, <1>8, <1>9, <1>10, <1>11, <1>12,
     <1>13, <1>14, <1>15, <1>16, <1>17, <1>18, <1>19 DEF Next, Step

\* The path names a file that was linked there and never the file of a process
\* that has dropped or lost it.
LEMMA FileStep == IndInv /\ TypeOK' /\ [Next]_vars => FileInv'
<1> SUFFICES ASSUME IndInv, TypeOK', [Next]_vars PROVE FileInv'
  OBVIOUS
<1> USE LockAssumption DEF IndInv, TypeOK, Proc, Content, Working, Final, Goto, At, Running, FileInv, PcInv, LostInv, HeldInv, SeenInv, Published
<1>1. ASSUME NEW p \in Proc, Begin(p) PROVE FileInv'
  BY <1>1 DEF Begin
<1>2. ASSUME NEW p \in Proc, Look(p) PROVE FileInv'
  BY <1>2 DEF Look
<1>3. ASSUME NEW p \in Proc, Stage(p) PROVE FileInv'
  BY <1>3 DEF Stage
<1>4. ASSUME NEW p \in Proc, Link(p) PROVE FileInv'
  BY <1>4 DEF Link, Taken
<1>5. ASSUME NEW p \in Proc, Granted(p) PROVE FileInv'
  BY <1>5 DEF Granted
<1>6. ASSUME NEW p \in Proc, Denied(p) PROVE FileInv'
  BY <1>6 DEF Denied
<1>7. ASSUME NEW p \in Proc, Wake(p) PROVE FileInv'
  BY <1>7 DEF Wake
<1>8. ASSUME NEW p \in Proc, Read(p) PROVE FileInv'
  BY <1>8 DEF Read, IfAbsent
<1>9. ASSUME NEW p \in Proc, Judge(p) PROVE FileInv'
  BY <1>9 DEF Judge, IfStale, IfHeld
<1>10. ASSUME NEW p \in Proc, Break(p) PROVE FileInv'
  BY <1>10 DEF Break, Unlinked, IfBroken
<1>11. ASSUME NEW p \in Proc, Release(p) PROVE FileInv'
  BY <1>11 DEF Release, Unlinked
<1>12. ASSUME NEW p \in Proc, Exit(p) PROVE FileInv'
  BY <1>12 DEF Exit, Die
<1>13. ASSUME NEW p \in Proc, Crash(p) PROVE FileInv'
  BY <1>13 DEF Crash, Die
<1>14. ASSUME NEW p \in Proc, Fault(p) PROVE FileInv'
  BY <1>14 DEF Fault
<1>19. ASSUME NEW p \in Proc, ReadFails(p) PROVE FileInv'
  BY <1>19 DEF ReadFails
<1>15. ASSUME NEW p \in Proc, Timeout(p) PROVE FileInv'
  BY <1>15 DEF Timeout
<1>16. ASSUME NEW p \in Proc, PidReuse(p) PROVE FileInv'
  BY <1>16 DEF PidReuse
<1>17. CASE Tick
  BY <1>17 DEF Tick
<1>18. CASE UNCHANGED vars
  BY <1>18 DEF vars
<1> QED
  BY <1>1, <1>2, <1>3, <1>4, <1>5, <1>6, <1>7, <1>8, <1>9, <1>10, <1>11, <1>12,
     <1>13, <1>14, <1>15, <1>16, <1>17, <1>18, <1>19 DEF Next, Step

\* A holder's file is only taken away by leaving a trace in lost.
LEMMA HeldStep == IndInv /\ TypeOK' /\ [Next]_vars => HeldInv'
<1> SUFFICES ASSUME IndInv, TypeOK', [Next]_vars PROVE HeldInv'
  OBVIOUS
<1> USE LockAssumption DEF IndInv, TypeOK, Proc, Content, Working, Final, Goto, At, Running, HeldInv, PcInv, FileInv
<1>1. ASSUME NEW p \in Proc, Begin(p) PROVE HeldInv'
  BY <1>1 DEF Begin
<1>2. ASSUME NEW p \in Proc, Look(p) PROVE HeldInv'
  BY <1>2 DEF Look
<1>3. ASSUME NEW p \in Proc, Stage(p) PROVE HeldInv'
  BY <1>3 DEF Stage
<1>4. ASSUME NEW p \in Proc, Link(p) PROVE HeldInv'
  BY <1>4 DEF Link, Taken
<1>5. ASSUME NEW p \in Proc, Granted(p) PROVE HeldInv'
  BY <1>5 DEF Granted
<1>6. ASSUME NEW p \in Proc, Denied(p) PROVE HeldInv'
  BY <1>6 DEF Denied
<1>7. ASSUME NEW p \in Proc, Wake(p) PROVE HeldInv'
  BY <1>7 DEF Wake
<1>8. ASSUME NEW p \in Proc, Read(p) PROVE HeldInv'
  BY <1>8 DEF Read, IfAbsent
<1>9. ASSUME NEW p \in Proc, Judge(p) PROVE HeldInv'
  BY <1>9 DEF Judge, IfStale, IfHeld
<1>10. ASSUME NEW p \in Proc, Break(p) PROVE HeldInv'
  BY <1>10 DEF Break, Unlinked, IfBroken
<1>11. ASSUME NEW p \in Proc, Release(p) PROVE HeldInv'
  BY <1>11 DEF Release, Unlinked
<1>12. ASSUME NEW p \in Proc, Exit(p) PROVE HeldInv'
  BY <1>12 DEF Exit, Die
<1>13. ASSUME NEW p \in Proc, Crash(p) PROVE HeldInv'
  BY <1>13 DEF Crash, Die
<1>14. ASSUME NEW p \in Proc, Fault(p) PROVE HeldInv'
  BY <1>14 DEF Fault
<1>19. ASSUME NEW p \in Proc, ReadFails(p) PROVE HeldInv'
  BY <1>19 DEF ReadFails
<1>15. ASSUME NEW p \in Proc, Timeout(p) PROVE HeldInv'
  BY <1>15 DEF Timeout
<1>16. ASSUME NEW p \in Proc, PidReuse(p) PROVE HeldInv'
  BY <1>16 DEF PidReuse
<1>17. CASE Tick
  BY <1>17 DEF Tick
<1>18. CASE UNCHANGED vars
  BY <1>18 DEF vars
<1> QED
  BY <1>1, <1>2, <1>3, <1>4, <1>5, <1>6, <1>7, <1>8, <1>9, <1>10, <1>11, <1>12,
     <1>13, <1>14, <1>15, <1>16, <1>17, <1>18, <1>19 DEF Next, Step

\* What a process has read stays published, and what it is about to break stays
\* condemned, whatever the others do in the meantime.
LEMMA SeenStep == IndInv /\ TypeOK' /\ [Next]_vars => SeenInv'
<1> SUFFICES ASSUME IndInv, TypeOK', [Next]_vars PROVE SeenInv'
  OBVIOUS
<1> USE LockAssumption DEF IndInv, TypeOK, Proc, Content, Working, Final, Goto, At, Running, SeenInv
<1> DEFINE Stays == \A q \in Acquirers : /\ Published(q) => Published(q)'
                                         /\ Condemned(q) => Condemned(q)'
<1>0. Stays
  BY StepShape, CondemnedStays DEF IndInv
<1> HIDE DEF Stays
<1>1. ASSUME NEW p \in Proc, Begin(p) PROVE SeenInv'
  BY <1>1, <1>0 DEF Stays, Begin
<1>2. ASSUME NEW p \in Proc, Look(p) PROVE SeenInv'
  BY <1>2, <1>0 DEF Stays, Look
<1>3. ASSUME NEW p \in Proc, Stage(p) PROVE SeenInv'
  BY <1>3, <1>0 DEF Stays, Stage
<1>4. ASSUME NEW p \in Proc, Link(p) PROVE SeenInv'
  BY <1>4, <1>0 DEF Stays, Link, Taken
<1>5. ASSUME NEW p \in Proc, Granted(p) PROVE SeenInv'
  BY <1>5, <1>0 DEF Stays, Granted
<1>6. ASSUME NEW p \in Proc, Denied(p) PROVE SeenInv'
  BY <1>6, <1>0 DEF Stays, Denied
<1>7. ASSUME NEW p \in Proc, Wake(p) PROVE SeenInv'
  BY <1>7, <1>0 DEF Stays, Wake
<1>8. ASSUME NEW p \in Proc, Read(p) PROVE SeenInv'
  BY <1>8, <1>0 DEF Stays, Read, IfAbsent, FileInv, Published
<1>9. ASSUME NEW p \in Proc, Judge(p) PROVE SeenInv'
  <2>1. seen[p] \in Acquirers /\ IsStale(p, seen[p]) => Condemned(seen[p])
    BY StaleIsCondemned DEF SeenInv
  <2> QED
    BY <1>9, <1>0, <2>1 DEF Stays, Judge, IfStale, IfHeld
<1>10. ASSUME NEW p \in Proc, Break(p) PROVE SeenInv'
  BY <1>10, <1>0 DEF Stays, Break, Unlinked, IfBroken
<1>11. ASSUME NEW p \in Proc, Release(p) PROVE SeenInv'
  BY <1>11, <1>0 DEF Stays, Release, Unlinked
<1>12. ASSUME NEW p \in Proc, Exit(p) PROVE SeenInv'
  BY <1>12, <1>0 DEF Stays, Exit, Die
<1>13. ASSUME NEW p \in Proc, Crash(p) PROVE SeenInv'
  BY <1>13, <1>0 DEF Stays, Crash, Die
<1>14. ASSUME NEW p \in Proc, Fault(p) PROVE SeenInv'
  BY <1>14, <1>0 DEF Stays, Fault
<1>19. ASSUME NEW p \in Proc, ReadFails(p) PROVE SeenInv'
  BY <1>19, <1>0 DEF Stays, ReadFails
<1>15. ASSUME NEW p \in Proc, Timeout(p) PROVE SeenInv'
  BY <1>15, <1>0 DEF Stays, Timeout
<1>16. ASSUME NEW p \in Proc, PidReuse(p) PROVE SeenInv'
  BY <1>16, <1>0 DEF Stays, PidReuse
<1>17. CASE Tick
  BY <1>17, <1>0 DEF Stays, Tick
<1>18. CASE UNCHANGED vars
  BY <1>18, <1>0 DEF Stays, vars
<1> QED
  BY <1>1, <1>2, <1>3, <1>4, <1>5, <1>6, <1>7, <1>8, <1>9, <1>10, <1>11, <1>12,
     <1>13, <1>14, <1>15, <1>16, <1>17, <1>18, <1>19 DEF Next, Step

\* Every loss of a lock file has a condemned lock or a failed read behind it.
LEMMA LostStep == IndInv /\ TypeOK' /\ [Next]_vars => LostInv'
<1> SUFFICES ASSUME IndInv, TypeOK', [Next]_vars PROVE LostInv'
  OBVIOUS
<1> USE LockAssumption DEF IndInv, TypeOK, Proc, Content, Working, Final, Goto, At, Running, LostInv
<1> DEFINE Stays == \A q \in Acquirers : /\ Published(q) => Published(q)'
                                         /\ Condemned(q) => Condemned(q)'
<1>0. Stays
  BY StepShape, CondemnedStays DEF IndInv
<1> HIDE DEF Stays
<1>1. ASSUME NEW p \in Proc, Begin(p) PROVE LostInv'
  BY <1>1, <1>0 DEF Stays, Begin
<1>2. ASSUME NEW p \in Proc, Look(p) PROVE LostInv'
  BY <1>2, <1>0 DEF Stays, Look
<1>3. ASSUME NEW p \in Proc, Stage(p) PROVE LostInv'
  BY <1>3, <1>0 DEF Stays, Stage
<1>4. ASSUME NEW p \in Proc, Link(p) PROVE LostInv'
  BY <1>4, <1>0 DEF Stays, Link, Taken
<1>5. ASSUME NEW p \in Proc, Granted(p) PROVE LostInv'
  BY <1>5, <1>0 DEF Stays, Granted
<1>6. ASSUME NEW p \in Proc, Denied(p) PROVE LostInv'
  BY <1>6, <1>0 DEF Stays, Denied
<1>7. ASSUME NEW p \in Proc, Wake(p) PROVE LostInv'
  BY <1>7, <1>0 DEF Stays, Wake
<1>8. ASSUME NEW p \in Proc, Read(p) PROVE LostInv'
  BY <1>8, <1>0 DEF Stays, Read, IfAbsent
<1>9. ASSUME NEW p \in Proc, Judge(p) PROVE LostInv'
  BY <1>9, <1>0 DEF Stays, Judge, IfStale, IfHeld
<1>10. ASSUME NEW p \in Proc, Break(p) PROVE LostInv'
  <2>1. IF seen[p] \in Acquirers THEN Condemned(seen[p])
        ELSE IF seen[p] = Unread THEN ReadFaults ELSE StartGarbage
    <3>1. pc[p] = "break" /\ seen[p] \in Acquirers \cup {Garbage, Unread}
      BY <1>10 DEF Break, SeenInv
    <3>2. seen[p] \in Acquirers => Condemned(seen[p])
      BY <3>1 DEF SeenInv
    <3>3. (seen[p] = Garbage => StartGarbage) /\ (seen[p] = Unread => ReadFaults)
      BY DEF SeenInv
    <3> QED
      BY <3>1, <3>2, <3>3
  <2>2. file \in Acquirers => lost[file] = "no" /\ Published(file)
    BY DEF FileInv, Published
  <2>3. \A q \in Acquirers : lost'[q] = IF q # file THEN lost[q]
                                        ELSE IF seen[p] = q THEN "judged"
                                        ELSE IF seen[p] = Unread THEN "misread" ELSE "raced"
    BY <1>10 DEF Break
  <2>4. ASSUME NEW q \in Acquirers, q # file PROVE lost'[q] = lost[q]
    BY <2>3, <2>4
  <2> QED
    BY <1>0, <2>1, <2>2, <2>3, <2>4 DEF Stays
<1>11. ASSUME NEW p \in Proc, Release(p) PROVE LostInv'
  <2>1. p \in Acquirers /\ (file # p => lost[p] # "no")
    BY <1>11 DEF Release, PcInv, HeldInv
  <2>2. file \in Acquirers => lost[file] = "no" /\ Published(file)
    BY DEF FileInv, Published
  <2>3. \A q \in Acquirers :
          lost'[q] = IF q = file /\ q # p THEN "dropped" ELSE lost[q]
    BY <1>11 DEF Release
  <2>4. file \in Acquirers /\ file # p
          => \E r \in Acquirers \ {file} : lost[r] \in {"judged", "raced", "misread"}
    BY <2>1, <2>2
  <2>5. SUFFICES ASSUME NEW q \in Acquirers
        PROVE  /\ lost'[q] # "no" => Published(q)'
               /\ lost'[q] = "judged" => Condemned(q)'
               /\ lost'[q] = "raced"
                    => StartGarbage \/ \E r \in Acquirers \ {q} : Condemned(r)'
               /\ lost'[q] = "misread" => ReadFaults
               /\ lost'[q] = "dropped"
                    => \E r \in Acquirers \ {q} : lost'[r] \in {"judged", "raced", "misread"}
    OBVIOUS
  <2>6. CASE file = q /\ q # p
    BY <1>0, <2>2, <2>3, <2>4, <2>6 DEF Stays
  <2>7. CASE ~(file = q /\ q # p)
    <3>1. lost'[q] = lost[q]
      BY <2>3, <2>7
    <3>2. \A r \in Acquirers : lost[r] \in {"judged", "raced", "misread"} => lost'[r] = lost[r]
      BY <2>2, <2>3
    <3> QED
      BY <1>0, <3>1, <3>2 DEF Stays
  <2> QED
    BY <2>6, <2>7
<1>12. ASSUME NEW p \in Proc, Exit(p) PROVE LostInv'
  BY <1>12, <1>0 DEF Stays, Exit, Die
<1>13. ASSUME NEW p \in Proc, Crash(p) PROVE LostInv'
  BY <1>13, <1>0 DEF Stays, Crash, Die
<1>14. ASSUME NEW p \in Proc, Fault(p) PROVE LostInv'
  BY <1>14, <1>0 DEF Stays, Fault
<1>19. ASSUME NEW p \in Proc, ReadFails(p) PROVE LostInv'
  BY <1>19, <1>0 DEF Stays, ReadFails
<1>15. ASSUME NEW p \in Proc, Timeout(p) PROVE LostInv'
  BY <1>15, <1>0 DEF Stays, Timeout
<1>16. ASSUME NEW p \in Proc, PidReuse(p) PROVE LostInv'
  BY <1>16, <1>0 DEF Stays, PidReuse
<1>17. CASE Tick
  BY <1>17, <1>0 DEF Stays, Tick
<1>18. CASE UNCHANGED vars
  BY <1>18, <1>0 DEF Stays, vars
<1> QED
  BY <1>1, <1>2, <1>3, <1>4, <1>5, <1>6, <1>7, <1>8, <1>9, <1>10, <1>11, <1>12,
     <1>13, <1>14, <1>15, <1>16, <1>17, <1>18, <1>19 DEF Next, Step

\* The inductive invariant holds from the start, before anybody has run.
LEMMA IndInit == Init => IndInv
BY LockAssumption
   DEF Init, IndInv, TypeOK, PcInv, FileInv, SeenInv, LostInv, HeldInv, Proc, Content, At, Running

\* All parts of the invariant hold in every reachable state of any number of
\* acquirers, checkers and listers of one lock path.
THEOREM Inductive == Spec => []IndInv
<1>1. IndInv /\ [Next]_vars => IndInv'
  BY TypeStep, PcStep, FileStep, SeenStep, LostStep, HeldStep DEF IndInv
<1> QED
  BY IndInit, <1>1, PTL DEF Spec

\* Type correctness.
THEOREM TypeCorrect == Spec => []TypeOK
<1>1. IndInv => TypeOK
  BY DEF IndInv
<1> QED
  BY Inductive, <1>1, PTL

\* A running holder loses its file only for a cause: its own age, somebody
\* else's condemned lock, a read that failed, or a dropper that had lost its
\* lock before.
THEOREM LossHasCause == Spec => []LossCause
<1>1. ASSUME IndInv, NEW q \in Acquirers, Running(q), Condemned(q) PROVE Overdue(q)
  BY <1>1 DEF Condemned, Overdue, Ended, Running
<1>2. IndInv => LossCause
  <2> SUFFICES ASSUME IndInv, NEW q \in Acquirers, Running(q)
               PROVE  /\ lost[q] = "judged" => Overdue(q)
                      /\ lost[q] = "raced"
                           => StartGarbage \/ \E r \in Acquirers \ {q} : Condemned(r)
                      /\ lost[q] = "misread" => ReadFaults
                      /\ lost[q] = "dropped"
                           => \E r \in Acquirers \ {q} : lost[r] # "no"
    BY DEF LossCause
  <2>1. lost[q] = "judged" => Overdue(q)
    BY <1>1 DEF IndInv, LostInv
  <2>2. lost[q] = "raced" => StartGarbage \/ \E r \in Acquirers \ {q} : Condemned(r)
    BY DEF IndInv, LostInv
  <2>3. /\ lost[q] = "misread" => ReadFaults
        /\ lost[q] = "dropped" => \E r \in Acquirers \ {q} : lost[r] # "no"
    BY DEF IndInv, LostInv
  <2> QED
    BY <2>1, <2>2, <2>3
<1> QED
  BY Inductive, <1>2, PTL

\* Of two holders at most one can still have its file at the path; the other
\* has lost it, and lost says how.
LEMMA OneHasLost ==
  ASSUME IndInv, NEW p \in Acquirers, NEW q \in Acquirers, p # q, Held(p), Held(q)
  PROVE  \E r \in {p, q} : Running(r) /\ lost[r] \in {"judged", "raced", "misread", "dropped"}
BY DEF IndInv, TypeOK, HeldInv, Held

\* Mutual exclusion, but for holders past the TTL and files unlinked by another
\* hand: a raced break, a break upon a failed read, a drop.
THEOREM LockExclusion == Spec => []Exclusion
<1>1. ASSUME IndInv, NEW q \in Acquirers, Running(q), lost[q] = "judged"
      PROVE  Overdue(q)
  BY <1>1 DEF IndInv, LostInv, Condemned, Overdue, Ended, Running
<1>2. IndInv => Exclusion
  BY <1>1, OneHasLost DEF Exclusion
<1> QED
  BY Inductive, <1>2, PTL

\* Strict mutual exclusion while no published lock may be called stale and none
\* has been removed unread.
THEOREM LockExclusiveUntilCondemned == Spec => []ExclusiveUntilCondemned
<1>1. ASSUME IndInv, NEW q \in Acquirers, lost[q] # "no", ~StartGarbage
      PROVE  \E r \in Acquirers : Condemned(r) \/ lost[r] = "misread"
  <2>1. \A r \in Acquirers : lost[r] \in {"judged", "raced"}
                               => \E t \in Acquirers : Condemned(t)
    BY <1>1 DEF IndInv, LostInv
  <2>2. lost[q] = "dropped" => \E r \in Acquirers : lost[r] \in {"judged", "raced", "misread"}
    BY <1>1 DEF IndInv, LostInv
  <2> QED
    BY <1>1, <2>1, <2>2 DEF IndInv, TypeOK
<1>2. IndInv => ExclusiveUntilCondemned
  BY <1>1, OneHasLost DEF ExclusiveUntilCondemned
<1> QED
  BY Inductive, <1>2, PTL

\* No step leaves try_acquire with the staging file of the process still there.
LEMMA StagingStep == IndInv /\ StagingCleaned /\ [Next]_vars => StagingCleaned'
<1> SUFFICES ASSUME TypeOK, PcInv, StagingCleaned, [Next]_vars PROVE StagingCleaned'
  BY DEF IndInv
<1> USE LockAssumption DEF TypeOK, PcInv, StagingCleaned, Proc, Goto, At, Running, Ended, Final
<1>1. ASSUME NEW p \in Proc, Begin(p) PROVE StagingCleaned'
  BY <1>1 DEF Begin
<1>2. ASSUME NEW p \in Proc, Look(p) PROVE StagingCleaned'
  BY <1>2 DEF Look
<1>3. ASSUME NEW p \in Proc, Stage(p) PROVE StagingCleaned'
  BY <1>3 DEF Stage
<1>4. ASSUME NEW p \in Proc, Link(p) PROVE StagingCleaned'
  BY <1>4 DEF Link, Taken
<1>5. ASSUME NEW p \in Proc, Granted(p) PROVE StagingCleaned'
  BY <1>5 DEF Granted, Unstaged
<1>6. ASSUME NEW p \in Proc, Denied(p) PROVE StagingCleaned'
  BY <1>6 DEF Denied, Unstaged
<1>7. ASSUME NEW p \in Proc, Wake(p) PROVE StagingCleaned'
  BY <1>7 DEF Wake
<1>8. ASSUME NEW p \in Proc, Read(p) PROVE StagingCleaned'
  BY <1>8 DEF Read, IfAbsent
<1>9. ASSUME NEW p \in Proc, Judge(p) PROVE StagingCleaned'
  BY <1>9 DEF Judge, IfStale, IfHeld
<1>10. ASSUME NEW p \in Proc, Break(p) PROVE StagingCleaned'
  BY <1>10 DEF Break, IfBroken
<1>11. ASSUME NEW p \in Proc, Release(p) PROVE StagingCleaned'
  BY <1>11 DEF Release
<1>12. ASSUME NEW p \in Proc, Exit(p) PROVE StagingCleaned'
  BY <1>12 DEF Exit, Die
<1>13. ASSUME NEW p \in Proc, Crash(p) PROVE StagingCleaned'
  BY <1>13 DEF Crash, Die
<1>14. ASSUME NEW p \in Proc, Fault(p) PROVE StagingCleaned'
  BY <1>14 DEF Fault
<1>19. ASSUME NEW p \in Proc, ReadFails(p) PROVE StagingCleaned'
  BY <1>19 DEF ReadFails
<1>15. ASSUME NEW p \in Proc, Timeout(p) PROVE StagingCleaned'
  BY <1>15 DEF Timeout
<1>16. ASSUME NEW p \in Proc, PidReuse(p) PROVE StagingCleaned'
  BY <1>16 DEF PidReuse
<1>17. CASE Tick
  BY <1>17 DEF Tick
<1>18. CASE UNCHANGED vars
  BY <1>18 DEF vars
<1> QED
  BY <1>1, <1>2, <1>3, <1>4, <1>5, <1>6, <1>7, <1>8, <1>9, <1>10, <1>11, <1>12,
     <1>13, <1>14, <1>15, <1>16, <1>17, <1>18, <1>19 DEF Next, Step

\* Whichever return a process takes out of try_acquire, after however many
\* polls, only a killed one leaves a staging file behind.
THEOREM StagingIsCleaned == Spec => []StagingCleaned
<1>1. Init => StagingCleaned
  BY DEF Init, StagingCleaned
<1> QED
  BY <1>1, Inductive, StagingStep, PTL DEF Spec
=============================================================================
