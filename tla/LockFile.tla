------------------------------ MODULE LockFile ------------------------------
(***************************************************************************)
(* One advisory lock file of ezgitx (src/src/lock.rs) and every process    *)
(* that touches it: pulls that acquire it (`acquire`), pulls that only     *)
(* look at it (`check_workspace_lock`) and `ezgitx sessions`, which lists  *)
(* it (`active_sessions`).  Lock files at different paths never interact,  *)
(* so one path is enough.                                                  *)
(*                                                                         *)
(* A lock file is published by hard-linking a private, fully written       *)
(* staging file to the path, so its content appears in one step.  A        *)
(* process links at most once in its life (one `pull` takes the lock of a  *)
(* repository once), hence the file at the path is named by the process    *)
(* that linked it.                                                         *)
(***************************************************************************)
EXTENDS Integers, FiniteSets

CONSTANTS
  Acquirers,    \* processes that run lock::acquire on this path
  Checkers,     \* processes that run lock::check_workspace_lock on it
  Listers,      \* processes that run lock::active_sessions over it
  Host,         \* the host a process runs on
  Offset,       \* how far the clock of a process' host is ahead of true time
  TTL,          \* DEFAULT_TTL in ticks
  MaxAge,       \* bound: ages are counted up to here
  NoFile,       \* nothing at the path
  Garbage,      \* a file at the path that is not a LockInfo
  Unread,       \* what a read that failed leaves a process with: no content
  StartGarbage, \* may such a file be there when the system starts?
  StuckGarbage, \* ... and can it not be removed (a directory, a foreign file)?
  CanCrash,     \* may processes be killed?
  IOFaults,     \* may writing or linking the staging file fail?
  ReadFaults    \* may reading the file at the path fail?

Proc == Acquirers \cup Checkers \cup Listers

\* What the path can name: the lock of an acquirer, junk, or nothing.
Content == Acquirers \cup {NoFile, Garbage}

ASSUME LockAssumption ==
  /\ Acquirers \cap Checkers = {} /\ Acquirers \cap Listers = {}
  /\ Checkers \cap Listers = {}
  /\ {NoFile, Garbage, Unread} \cap Proc = {}
  /\ NoFile # Garbage /\ Unread \notin {NoFile, Garbage}
  /\ Offset \in [Proc -> Int]
  /\ \A p, q \in Proc : Host[p] = Host[q] => Offset[p] = Offset[q]
  /\ TTL \in Nat /\ MaxAge \in Nat
  /\ {StartGarbage, StuckGarbage, CanCrash, IOFaults, ReadFaults} \subseteq BOOLEAN

VARIABLES
  file,      \* what the path names
  pc,        \* where each process is
  seen,      \* what a process has read at the path and not yet acted upon
  age,       \* true age of the started_at stamp an acquirer staged last
  life,      \* what has become of a process and of its pid
  patience,  \* --wait: is the deadline set and still ahead?
  staged,    \* acquirers whose staging file exists
  lost       \* history: how an acquirer's file left the path, its own drop aside

vars == <<file, pc, seen, age, life, patience, staged, lost>>

Working == {"stage", "link", "read", "judge", "break", "linked", "denied",
            "sleep", "holding"}
Final   == {"done", "refused", "passed", "listed", "omitted"}

TypeOK ==
  /\ file \in Content
  /\ pc \in [Proc -> {"idle"} \cup Working \cup Final]
  /\ seen \in [Proc -> Content \cup {Unread}]
  /\ age \in [Acquirers -> 0 .. MaxAge]
  /\ life \in [Proc -> {"unborn", "running", "exited", "reused"}]
  /\ patience \in [Acquirers -> BOOLEAN]
  /\ staged \subseteq Acquirers
  /\ lost \in [Acquirers -> {"no", "judged", "raced", "misread", "dropped"}]

Init ==
  /\ file \in {NoFile, Garbage} /\ (file = Garbage => StartGarbage)
  /\ pc = [p \in Proc |-> "idle"]
  /\ seen = [p \in Proc |-> NoFile]
  /\ age = [p \in Acquirers |-> 0]
  /\ life = [p \in Proc |-> "unborn"]
  /\ patience = [p \in Acquirers |-> FALSE]
  /\ staged = {}
  /\ lost = [p \in Acquirers |-> "no"]

Running(p) == life[p] = "running"

At(p, where) == Running(p) /\ pc[p] = where

Goto(p, where) == pc' = [pc EXCEPT ![p] = where]

----------------------------------------------------------------------------
(* Staleness: lock::is_stale.                                              *)

\* Mutant: EPERM, the answer of another user's process, counts as dead.
PidAnswersNever(q) == FALSE

\* kill(pid, 0): a pid answers while its process runs, and again once the
\* kernel has given it to an unrelated process.
PidAnswers(q) == life[q] \in {"running", "reused"}

\* The age p computes for q's stamp: the clocks of two hosts may disagree.
SeenAge(p, q) == age[q] + Offset[p] - Offset[q]

\* Mutant: only the locks of one's own host expire.
ExpiredHere(p, q) == SeenAge(p, q) > TTL /\ Host[p] = Host[q]

Expired(p, q) == SeenAge(p, q) > TTL

IsStale(p, content) ==
  \/ content \in {Garbage, Unread}
  \/ /\ content \in Acquirers
     /\ \/ Host[p] = Host[content] /\ ~PidAnswers(content)
        \/ Expired(p, content)

----------------------------------------------------------------------------
(* lock::acquire and lock::try_acquire.                                    *)

\* pull_one reaches lock::acquire, with or without --wait.
Begin(p) ==
  /\ p \in Acquirers /\ life[p] = "unborn"
  /\ life' = [life EXCEPT ![p] = "running"]
  /\ \E w \in BOOLEAN : patience' = [patience EXCEPT ![p] = w]
  /\ Goto(p, "stage")
  /\ UNCHANGED <<file, seen, age, staged, lost>>

\* The LockInfo is stamped with the current time and written to a private
\* staging file.
Stage(p) ==
  /\ At(p, "stage")
  /\ age' = [age EXCEPT ![p] = 0]
  /\ staged' = staged \cup {p}
  /\ Goto(p, "link")
  /\ UNCHANGED <<file, seen, life, patience, lost>>

\* The staging file cannot be written, though a part of it may be there until
\* it is removed, or the link fails for another reason than the path being
\* taken: Err(None).
Fault(p) ==
  /\ IOFaults
  /\ \/ At(p, "stage") /\ staged' \in {staged, staged \cup {p}}
     \/ At(p, "link") /\ UNCHANGED staged
  /\ seen' = [seen EXCEPT ![p] = NoFile]
  /\ Goto(p, "denied")
  /\ UNCHANGED <<file, age, life, patience, lost>>

\* Mutant: publish by renaming over whatever is at the path.
NeverTaken == FALSE

\* hard_link reports AlreadyExists.
Taken == file # NoFile

Link(p) ==
  /\ At(p, "link")
  /\ IF Taken
       THEN Goto(p, "read") /\ UNCHANGED file
       ELSE Goto(p, "linked") /\ file' = p
  /\ UNCHANGED <<seen, age, life, patience, staged, lost>>

\* Mutant: the early returns forget the staging file.
UnstagedIfLinked(p) == IF pc[p] = "linked" THEN staged \ {p} ELSE staged

\* remove_file(&tmp), on every way out of try_acquire.
Unstaged(p) == staged \ {p}

\* try_acquire returns the guard, and acquire with it.
Granted(p) ==
  /\ At(p, "linked")
  /\ staged' = Unstaged(p)
  /\ patience' = [patience EXCEPT ![p] = FALSE]
  /\ Goto(p, "holding")
  /\ UNCHANGED <<file, seen, age, life, lost>>

\* try_acquire returns Err: acquire polls again before the deadline and fails
\* with lock_held after it, or at once without --wait.
Denied(p) ==
  /\ At(p, "denied")
  /\ staged' = Unstaged(p)
  /\ IF patience[p]
       THEN Goto(p, "sleep") /\ seen' = [seen EXCEPT ![p] = NoFile]
       ELSE Goto(p, "refused") /\ UNCHANGED seen
  /\ UNCHANGED <<file, age, life, patience, lost>>

Wake(p) ==
  /\ At(p, "sleep")
  /\ Goto(p, "stage")
  /\ UNCHANGED <<file, seen, age, life, patience, staged, lost>>

\* The deadline of --wait passes; a process looks at it only when denied.
Timeout(p) ==
  /\ p \in Acquirers /\ Running(p) /\ patience[p]
  /\ pc[p] \notin Final \cup {"linked", "holding"}
  /\ patience' = [patience EXCEPT ![p] = FALSE]
  /\ UNCHANGED <<file, pc, seen, age, life, staged, lost>>

----------------------------------------------------------------------------
(* Reading and judging the file: try_acquire, check_workspace_lock and      *)
(* active_sessions differ only in what they do next.                        *)

\* A pull enters check_workspace_lock, `sessions` enters active_sessions.
Look(p) ==
  /\ p \in Checkers \cup Listers /\ life[p] = "unborn"
  /\ life' = [life EXCEPT ![p] = "running"]
  /\ Goto(p, "read")
  /\ UNCHANGED <<file, seen, age, patience, staged, lost>>

IfAbsent(p)  == IF p \in Acquirers THEN "link"
                ELSE IF p \in Checkers THEN "passed" ELSE "omitted"
IfStale(p)   == IF p \in Listers THEN "omitted" ELSE "break"
IfHeld(p)    == IF p \in Acquirers THEN "denied"
                ELSE IF p \in Checkers THEN "refused" ELSE "listed"
IfBroken(p)  == IF p \in Acquirers THEN "link" ELSE "passed"

\* read_to_string: the content read is judged later, whatever is then there.
Read(p) ==
  /\ At(p, "read")
  /\ seen' = [seen EXCEPT ![p] = file]
  /\ Goto(p, IF file = NoFile THEN IfAbsent(p) ELSE "judge")
  /\ UNCHANGED <<file, age, life, patience, staged, lost>>

\* It fails, and not because there is no file: `sessions` leaves the lock out,
\* the others go on with an empty content, whoever's lock it was.
ReadFails(p) ==
  /\ ReadFaults /\ At(p, "read")
  /\ IF p \in Listers
       THEN Goto(p, "omitted") /\ UNCHANGED seen
       ELSE Goto(p, "judge") /\ seen' = [seen EXCEPT ![p] = Unread]
  /\ UNCHANGED <<file, age, life, patience, staged, lost>>

Judge(p) ==
  /\ At(p, "judge")
  /\ Goto(p, IF IsStale(p, seen[p]) THEN IfStale(p) ELSE IfHeld(p))
  /\ UNCHANGED <<file, seen, age, life, patience, staged, lost>>

\* Mutant: only a lock that parses is removed.
UnlinkedIfParsed == IF file = Garbage THEN file ELSE NoFile

\* remove_file(path) removes whatever the path names by now; its failure is
\* ignored.
Unlinked == IF StuckGarbage /\ file = Garbage THEN file ELSE NoFile

Break(p) ==
  /\ At(p, "break")
  /\ file' = Unlinked
  /\ lost' = [q \in Acquirers |-> IF q # file THEN lost[q]
                                  ELSE IF seen[p] = q THEN "judged"
                                  ELSE IF seen[p] = Unread THEN "misread" ELSE "raced"]
  /\ seen' = [seen EXCEPT ![p] = NoFile]
  /\ Goto(p, IfBroken(p))
  /\ UNCHANGED <<age, life, patience, staged>>

----------------------------------------------------------------------------
(* The end of a lock, of a process and of its pid; time.                    *)

\* Drop for LockGuard: remove_file(path), whoever linked the file.
Release(p) ==
  /\ At(p, "holding")
  /\ file' = Unlinked
  /\ lost' = [q \in Acquirers |-> IF q = file /\ q # p THEN "dropped" ELSE lost[q]]
  /\ Goto(p, "done")
  /\ UNCHANGED <<seen, age, life, patience, staged>>

\* What a process knew is gone with it.
Die(p) ==
  /\ life' = [life EXCEPT ![p] = "exited"]
  /\ seen' = [seen EXCEPT ![p] = NoFile]
  /\ patience' = [q \in Acquirers |-> patience[q] /\ q # p]
  /\ UNCHANGED <<file, pc, age, staged, lost>>

Exit(p) == Running(p) /\ pc[p] \in Final /\ Die(p)

\* Killed, or out of power: no destructor runs.
Crash(p) == CanCrash /\ Running(p) /\ pc[p] \in Working /\ Die(p)

\* The kernel hands a free pid to some other program, which exits in turn.
PidReuse(p) ==
  /\ life[p] \in {"exited", "reused"}
  /\ life' = [life EXCEPT ![p] = IF @ = "exited" THEN "reused" ELSE "exited"]
  /\ UNCHANGED <<file, pc, seen, age, patience, staged, lost>>

\* Time passes for every stamp that has been written; MaxAge caps the count.
Tick ==
  /\ age' = [p \in Acquirers |->
               IF pc[p] \notin {"idle", "stage"} /\ age[p] < MaxAge
                 THEN age[p] + 1 ELSE age[p]]
  /\ UNCHANGED <<file, pc, seen, life, patience, staged, lost>>

----------------------------------------------------------------------------
Step(p) ==
  \/ Stage(p) \/ Link(p) \/ Granted(p) \/ Denied(p) \/ Wake(p)
  \/ Read(p) \/ Judge(p) \/ Break(p) \/ Release(p) \/ Exit(p)

Next ==
  \/ \E p \in Proc : \/ Begin(p) \/ Look(p) \/ Step(p) \/ Fault(p)
                     \/ ReadFails(p) \/ Timeout(p) \/ Crash(p) \/ PidReuse(p)
  \/ Tick

Spec == Init /\ [][Next]_vars

\* A process that runs is scheduled, and a clock does not stop.  Nothing makes
\* a process start, fail or be killed, nothing gives a pid away, and a deadline
\* may lie beyond the horizon.
FairSpec == Spec /\ WF_vars(Tick) /\ \A p \in Proc : WF_vars(Step(p))

----------------------------------------------------------------------------
(* Properties.                                                              *)

\* p owns a guard, or is about to be handed one.
Held(p) == Running(p) /\ pc[p] \in {"linked", "holding"}

\* p has linked its file.
Published(p) == pc[p] \in {"linked", "holding", "done"}

Ended(p) == life[p] \in {"exited", "reused"}

\* Some process, judging with its own clock, sees q's lock past the TTL.
Overdue(q) == Published(q) /\ \E p \in Proc : Expired(p, q)

\* is_stale may call the lock that q published stale.
Condemned(q) == Published(q) /\ (Ended(q) \/ \E p \in Proc : Expired(p, q))

\* Two processes hold the lock at once only if one of them has outlived the
\* TTL or has lost its file to the unlink of another: a breaker acting on
\* what it had read before, or on a read that failed, or an outlived holder
\* dropping its guard.  The link, the staleness test and the order of read,
\* judge and unlink in try_acquire make it so.
Exclusion ==
  \A p, q \in Acquirers :
    p # q /\ Held(p) /\ Held(q) =>
      \E r \in {p, q} : Overdue(r) \/ lost[r] \in {"raced", "misread", "dropped"}

\* As long as no lock that was ever published could be called stale, no junk
\* lay at the path and no lock has been removed because it could not be read,
\* the lock is exclusive without exception: races and drops only ever follow
\* upon one of these.
ExclusiveUntilCondemned ==
  ~StartGarbage /\ (\A r \in Acquirers : ~Condemned(r) /\ lost[r] # "misread") =>
    \A p, q \in Acquirers : Held(p) /\ Held(q) => p = q

\* The file of a running holder leaves the path by another's hand only for a
\* cause: the holder is overdue itself, or a breaker was after another lock
\* (a condemned one, or junk), or could not read this one, where reads may
\* fail, or, when a drop took it, the dropper had lost its own file before.
LossCause ==
  \A q \in Acquirers : Running(q) =>
    /\ lost[q] = "judged" => Overdue(q)
    /\ lost[q] = "raced" =>
         StartGarbage \/ \E r \in Acquirers \ {q} : Condemned(r)
    /\ lost[q] = "misread" => ReadFaults
    /\ lost[q] = "dropped" => \E r \in Acquirers \ {q} : lost[r] # "no"

\* A process that has left try_acquire, by whichever return, has removed its
\* staging file; only a killed process leaves one behind.
StagingCleaned ==
  \A p \in staged : ~Ended(p) =>
    pc[p] \in {"link", "read", "judge", "break", "linked", "denied"}

\* acquire comes back: an acquirer whose deadline has passed, or that never had
\* one, is granted the lock or refused, however often the file changes under
\* its attempt.
AcquireEnds ==
  \A p \in Acquirers : Running(p) /\ pc[p] \in Working /\ ~patience[p] ~>
    (pc[p] \in {"holding"} \cup Final \/ ~Running(p))

\* The lock of a process that has ended does not outlive the patience of the
\* acquirers: while one of them keeps polling, the file is removed, even if
\* the dead pid lived on another host or has been given to another program.
OrphanReclaimed ==
  \A q \in Acquirers :
    (file = q /\ Ended(q)) ~>
      \/ file # q
      \/ \A p \in Acquirers : ~(patience[p] /\ Running(p) /\ pc[p] \in Working)

----------------------------------------------------------------------------
(* What the documents say and the code does not do (see the README).        *)

\* "... if we raced another breaker, hard_link decides" (lock.rs:132): two
\* holders whose locks are fresh never coexist.
FreshExclusion ==
  \A p, q \in Acquirers :
    Held(p) /\ Held(q) /\ ~Overdue(p) /\ ~Overdue(q) => p = q

\* "Held advisory lock; the file is removed on drop" (lock.rs:20): a drop
\* removes the lock of the dropping process, never that of another.
OwnDropOnly == \A q \in Acquirers : lost[q] # "dropped"

\* lock_held means that "another session holds the lock" (SKILL.md:152).
RefusedMeansHeld ==
  \A p \in Proc : At(p, "refused") => seen[p] \in Acquirers

----------------------------------------------------------------------------
(* The inductive invariant behind Exclusion, ExclusiveUntilCondemned and    *)
(* LossCause, part by part.                                                 *)

\* The program counter respects the role of a process and its life.
PcInv ==
  \A p \in Proc :
    /\ pc[p] \in {"stage", "link", "linked", "denied", "sleep", "holding", "done"}
         => p \in Acquirers
    /\ pc[p] = "idle" <=> life[p] = "unborn"

\* A file at the path is one its process has published, not dropped, not lost.
FileInv ==
  /\ file = Garbage => StartGarbage
  /\ file \in Acquirers => pc[file] \in {"linked", "holding"} /\ lost[file] = "no"

\* What has been read was published; what is to be broken was condemned.
SeenInv ==
  \A p \in Proc :
    /\ seen[p] = Garbage => StartGarbage
    /\ seen[p] = Unread => ReadFaults
    /\ seen[p] \in Acquirers => Published(seen[p])
    /\ At(p, "judge") \/ At(p, "break") => seen[p] # NoFile
    /\ pc[p] = "break" /\ seen[p] \in Acquirers => Condemned(seen[p])

\* A file that left the path by another's hand was published, and for a cause.
LostInv ==
  \A q \in Acquirers :
    /\ lost[q] # "no" => Published(q)
    /\ lost[q] = "judged" => Condemned(q)
    /\ lost[q] = "raced" => StartGarbage \/ \E r \in Acquirers \ {q} : Condemned(r)
    /\ lost[q] = "misread" => ReadFaults
    /\ lost[q] = "dropped" =>
         \E r \in Acquirers \ {q} : lost[r] \in {"judged", "raced", "misread"}

\* The file of a process between link and drop is at the path or was lost.
HeldInv ==
  \A p \in Acquirers : pc[p] \in {"linked", "holding"} => file = p \/ lost[p] # "no"

\* The state is one that the code's own steps, in any interleaving, can reach
\* as far as the properties above can tell.
IndInv == TypeOK /\ PcInv /\ FileInv /\ SeenInv /\ LostInv /\ HeldInv
============================================================================
