-------------------------------- MODULE Brief --------------------------------
(***************************************************************************)
(* One repository and the sessions that ask what has changed in it:        *)
(* `ezgitx brief` (src/src/commands/brief.rs), which lists what is newer   *)
(* than the baseline its last run recorded and advances that baseline, and *)
(* `ezgitx changed` (src/src/commands/changed.rs), which only reads it.    *)
(* Repositories do not interact: one task per repo, one baseline per repo. *)
(*                                                                         *)
(* Meanwhile the user commits, checks out and rewrites, so every look at   *)
(* HEAD is a step of its own.  No lock is involved.                        *)
(***************************************************************************)
EXTENDS Integers, FiniteSets

CONSTANTS
  Session,    \* processes running brief or changed
  MaxCommit,  \* bound: commits are 0 .. MaxCommit, in the order of creation
  None,       \* no commit: an unborn branch, no baseline
  Modes,      \* brief, with --dirty and --no-record or without; changed, since
              \* the last brief ("changed") or since a ref ("since")
  Refs,       \* commits that a ref given to `changed --since` may name
  Sidesteps,  \* may HEAD leave the line of a commit that a brief has seen and
              \* not yet compared with the baseline?
  Gc,         \* may commits that HEAD does not reach disappear?
  Faults,     \* may git calls fail, and a baseline's reading or writing?
  KillAt      \* where a process may be killed

Commit == 0 .. MaxCommit
Mode == [cmd : {"brief", "changed", "since"}, dirty : BOOLEAN, record : BOOLEAN]

ASSUME BriefAssumption ==
  /\ MaxCommit \in Nat /\ None \notin Commit
  /\ Modes \subseteq Mode /\ Refs \subseteq Commit
  /\ {Sidesteps, Gc, Faults} \subseteq BOOLEAN

VARIABLES
  head,      \* the commit HEAD is at
  anc,       \* the commits reachable from a commit; none before it is made
  known,     \* the commits whose objects exist
  dirty,     \* does git::status call the tree dirty or conflicted?
  baseline,  \* .ezgitx/state/<repo>.brief.json
  told,      \* history: commits that some brief has listed, or passed over
             \* with a notice (no baseline found, delta_unavailable)
  pc,        \* where each session is
  mode,      \* what it runs
  changes,   \* what git::status told it of them
  full,      \* the HEAD it resolved
  base,      \* the baseline it read
  list       \* the commits its line is about to tell

vars == <<head, anc, known, dirty, baseline, told, pc, mode, changes, full, base, list>>
repo == <<head, anc, known, dirty>>

TypeOK ==
  /\ head \in Commit \cup {None}
  /\ anc \in [Commit -> SUBSET Commit]
  /\ known \subseteq Commit
  /\ dirty \in BOOLEAN
  /\ baseline \in Commit \cup {None}
  /\ told \subseteq Commit
  /\ pc \in [Session -> {"idle", "status", "head", "base", "delta", "result", "print",
                         "resolve", "range", "show"}]
  /\ mode \in [Session -> Mode]
  /\ changes \in [Session -> BOOLEAN]
  /\ full \in [Session -> Commit \cup {None}]
  /\ base \in [Session -> Commit \cup {None}]
  /\ list \in [Session -> SUBSET Commit]

NoMode == [cmd |-> "brief", dirty |-> FALSE, record |-> FALSE]

Init ==
  /\ head = None /\ anc = [c \in Commit |-> {}] /\ known = {}
  /\ dirty \in BOOLEAN
  /\ baseline = None /\ told = {}
  /\ pc = [p \in Session |-> "idle"] /\ mode = [p \in Session |-> NoMode]
  /\ changes = [p \in Session |-> FALSE]
  /\ full = [p \in Session |-> None] /\ base = [p \in Session |-> None]
  /\ list = [p \in Session |-> {}]

Goto(p, where) == pc' = [pc EXCEPT ![p] = where]

\* The task of the repo is over: its line is out, or never will be.
Forget(p) ==
  /\ Goto(p, "idle")
  /\ mode' = [mode EXCEPT ![p] = NoMode]
  /\ changes' = [changes EXCEPT ![p] = FALSE]
  /\ full' = [full EXCEPT ![p] = None] /\ base' = [base EXCEPT ![p] = None]
  /\ list' = [list EXCEPT ![p] = {}]

----------------------------------------------------------------------------
(* What both commands do.                                                  *)

Begin(p) ==
  /\ pc[p] = "idle"
  /\ \E m \in Modes : mode' = [mode EXCEPT ![p] = m]
                      /\ Goto(p, IF m.cmd = "brief" THEN "status" ELSE "head")
  /\ UNCHANGED <<repo, baseline, told, changes, full, base, list>>

\* git::head_sha, or git::resolve_commit of HEAD.  An unborn branch ends a
\* `changed` with the line "unborn"; a brief has sorted it out before.
Head(p) ==
  /\ pc[p] = "head"
  /\ IF head = None THEN Forget(p)
     ELSE /\ full' = [full EXCEPT ![p] = head]
          /\ Goto(p, "base")
          /\ UNCHANGED <<mode, changes, base, list>>
  /\ UNCHANGED <<repo, baseline, told>>

\* Not a repository any more, or git fails: an error line, and no baseline.
Error(p) ==
  /\ Faults /\ pc[p] \in {"status", "head", "resolve", "range"}
  /\ Forget(p)
  /\ UNCHANGED <<repo, baseline, told>>

\* Killed, also by a closed output.
Kill(p) ==
  /\ pc[p] \in KillAt \ {"idle"}
  /\ Forget(p)
  /\ UNCHANGED <<repo, baseline, told>>

\* state::read_brief: an unreadable baseline is no baseline.
ReadBrief == {baseline} \cup {c \in {None} : Faults}

----------------------------------------------------------------------------
(* brief.                                                                  *)

\* git::status; an unborn branch has nothing to compare.
Status(p) ==
  /\ pc[p] = "status"
  /\ changes' = [changes EXCEPT ![p] = dirty]
  /\ Goto(p, IF head = None THEN "result" ELSE "head")
  /\ UNCHANGED <<repo, baseline, told, mode, full, base, list>>

Base(p) ==
  /\ pc[p] = "base" /\ mode[p].cmd = "brief"
  /\ \E c \in ReadBrief : base' = [base EXCEPT ![p] = c]
  /\ Goto(p, "delta")
  /\ UNCHANGED <<repo, baseline, told, mode, changes, full, list>>

\* Mutant: a baseline that cannot be reached gives an empty delta.
Unreachable(p) == {}

\* No baseline yet, or none that git can compare with: a notice, no list.
Notice(p) == anc[full[p]]

\* The range baseline..HEAD is taken from HEAD as it is by now.
Newer(p) == anc[head] \ anc[base[p]]

Delta(p) ==
  /\ pc[p] = "delta"
  /\ \/ base[p] = None /\ list' = [list EXCEPT ![p] = anc[full[p]]]
     \/ base[p] # None /\ base[p] = full[p] /\ UNCHANGED list
     \/ /\ base[p] \notin {None, full[p]} /\ base[p] \in known
        /\ list' = [list EXCEPT ![p] = Newer(p)]
     \/ /\ base[p] \notin {None, full[p]} /\ (Faults \/ base[p] \notin known)
        /\ list' = [list EXCEPT ![p] = Notice(p)]
  /\ Goto(p, "result")
  /\ UNCHANGED <<repo, baseline, told, mode, changes, full, base>>

\* With --dirty a repo that is not dirty is not shown.
Hidden(p) == mode[p].dirty /\ ~changes[p]

\* Mutant: the baseline advances before the filter is applied.
AdvancesAnyhow(p) == mode[p].record /\ full[p] # None

\* The baseline advances unless --no-record, or the branch is unborn.
Advances(p) == ~Hidden(p) /\ mode[p].record /\ full[p] # None

\* The callback of run_parallel: filter, write_brief, and then the line.
Result(p) ==
  /\ pc[p] = "result"
  /\ \/ Advances(p) /\ baseline' = full[p]
     \/ (~Advances(p) \/ Faults) /\ UNCHANGED baseline
  /\ IF Hidden(p) THEN Forget(p)
     ELSE Goto(p, "print") /\ UNCHANGED <<mode, changes, full, base, list>>
  /\ UNCHANGED <<repo, told>>

\* emitter.emit, or with --human emitter.finish.
Emit(p) ==
  /\ pc[p] = "print"
  /\ told' = told \cup list[p]
  /\ Forget(p)
  /\ UNCHANGED <<repo, baseline>>

----------------------------------------------------------------------------
(* changed.                                                                *)

\* --since: the last brief, without which there is no delta, or a ref.
From(p) ==
  /\ pc[p] = "base" /\ mode[p].cmd # "brief"
  /\ \E c \in IF mode[p].cmd = "changed" THEN ReadBrief ELSE Refs :
       IF c = None THEN Forget(p)
       ELSE /\ base' = [base EXCEPT ![p] = c]
            /\ Goto(p, "resolve")
            /\ UNCHANGED <<mode, changes, full, list>>
  /\ UNCHANGED <<repo, baseline, told>>

\* git::resolve_commit: baseline_unreachable or ref_not_found ends it.
Resolve(p) ==
  /\ pc[p] = "resolve"
  /\ IF base[p] \in known
       THEN Goto(p, "range") /\ UNCHANGED <<mode, changes, full, base, list>>
       ELSE Forget(p)
  /\ UNCHANGED <<repo, baseline, told>>

\* Mutant: the range ends at HEAD, as it does in brief.
Moving(p) == anc[head] \ anc[base[p]]

\* The range is taken between the commits that the line names.
Between(p) == anc[full[p]] \ anc[base[p]]

\* commit_range and changed_files; either fails if a commit is gone.
Range(p) ==
  /\ pc[p] = "range"
  /\ IF {base[p], full[p]} \subseteq known
       THEN /\ list' = [list EXCEPT ![p] = Between(p)]
            /\ Goto(p, "show") /\ UNCHANGED <<mode, changes, full, base>>
       ELSE Forget(p)
  /\ UNCHANGED <<repo, baseline, told>>

Show(p) ==
  /\ pc[p] = "show"
  /\ Forget(p)
  /\ UNCHANGED <<repo, baseline, told>>

----------------------------------------------------------------------------
(* The user and git.                                                       *)

Reached == IF head = None THEN {} ELSE anc[head]

\* A brief has resolved HEAD and not yet compared it.
Looking(p) == mode[p].cmd = "brief" /\ pc[p] \in {"base", "delta"}

\* A new commit, here or after a checkout: on top of any commit there is.
NewCommit ==
  /\ \E c \in Commit : \E on \in known \cup {None} :
       /\ anc[c] = {} /\ \A d \in Commit : d < c => anc[d] # {}
       /\ on = None => known = {}
       /\ anc' = [anc EXCEPT ![c] = {c} \cup IF on = None THEN {} ELSE anc[on]]
       /\ known' = known \cup {c}
       /\ head' = c
       /\ \A p \in Session : Looking(p) => Sidesteps \/ full[p] \in anc'[c]
  /\ dirty' \in BOOLEAN
  /\ UNCHANGED <<baseline, told, pc, mode, changes, full, base, list>>

\* git checkout, reset, pull.
Checkout ==
  /\ head' \in known \ {head}
  /\ \A p \in Session : Looking(p) => Sidesteps \/ full[p] \in anc[head']
  /\ dirty' \in BOOLEAN
  /\ UNCHANGED <<anc, known, baseline, told, pc, mode, changes, full, base, list>>

Edit ==
  /\ dirty' = ~dirty
  /\ UNCHANGED <<head, anc, known, baseline, told, pc, mode, changes, full, base, list>>

Collect ==
  /\ Gc /\ known' = Reached
  /\ UNCHANGED <<head, anc, dirty, baseline, told, pc, mode, changes, full, base, list>>

Step(p) ==
  \/ Begin(p) \/ Head(p) \/ Error(p) \/ Kill(p)
  \/ Status(p) \/ Base(p) \/ Delta(p) \/ Result(p) \/ Emit(p)
  \/ From(p) \/ Resolve(p) \/ Range(p) \/ Show(p)

Next == NewCommit \/ Checkout \/ Edit \/ Collect \/ \E p \in Session : Step(p)

Spec == Init /\ [][Next]_vars

----------------------------------------------------------------------------
(* Properties.                                                             *)

\* What the lines that are about to be printed tell.
Telling == UNION {list[p] : p \in {q \in Session : pc[q] = "print"}}

Covered(S) == S \subseteq told \cup Telling

\* "You only consume a delta you were shown" (brief.rs:211): whatever lies
\* behind the baseline has been told by some brief, or is in a line that is
\* about to be printed, with two sessions advancing the baseline in any order,
\* with filters and peeks, failing git and rewritten history.
NoneSkipped == baseline # None => Covered(anc[baseline])

\* A `changed` since the last brief hides nothing (changed.rs:112-134): behind
\* the commit that it names as HEAD, whatever it leaves out has been told by some
\* brief, or is in a line about to be printed, though HEAD and the baseline move
\* while it looks at one after the other.
ChangedHidesNone ==
  \A p \in Session :
    pc[p] = "show" /\ mode[p].cmd = "changed" => Covered(anc[full[p]] \ list[p])

----------------------------------------------------------------------------
(* The inductive invariant, part by part.                                  *)

Made == {c \in Commit : c \in anc[c]}

\* Ancestry is reflexive and transitive on the commits that have been made;
\* only a ref that has not been resolved yet may name no commit.
AncInv ==
  /\ \A c \in Commit : anc[c] = {} \/ c \in Made
  /\ \A c \in Commit : \A d \in anc[c] : d \in Made /\ anc[d] \subseteq anc[c]
  /\ known \subseteq Made /\ {head, baseline} \subseteq Made \cup {None}
  /\ \A p \in Session : full[p] \in Made \cup {None}
  /\ \A p \in Session : full[p] # None => head # None
  /\ \A p \in Session :
       pc[p] # "resolve" \/ mode[p].cmd = "changed" => base[p] \in Made \cup {None}

\* A session is where its command leads.
ModeInv ==
  \A p \in Session :
    /\ pc[p] \in {"status", "delta", "result", "print"} => mode[p].cmd = "brief"
    /\ pc[p] \in {"resolve", "range", "show"} => mode[p].cmd # "brief"
    /\ pc[p] \in {"base", "delta", "resolve", "range", "show"} => full[p] # None
    /\ pc[p] \in {"resolve", "range", "show"} => base[p] # None

\* HEAD has stayed on the line of the commits that a brief is about to compare.
LookInv == \A p \in Session : Looking(p) => head # None /\ full[p] \in anc[head]

\* A baseline that has been read was covered, and a line is about to cover
\* what its session will record.
CoverInv ==
  \A p \in Session :
    /\ pc[p] = "delta" /\ base[p] # None => Covered(anc[base[p]])
    /\ pc[p] \in {"resolve", "range"} /\ mode[p].cmd = "changed" => Covered(anc[base[p]])
    /\ pc[p] = "result" /\ full[p] # None => Covered(anc[full[p]] \ list[p])

\* Inductive as long as HEAD does not sidestep and nobody is killed between
\* recording a baseline and printing the line.
IndInv ==
  TypeOK /\ AncInv /\ ModeInv /\ LookInv /\ CoverInv /\ NoneSkipped /\ ChangedHidesNone
==============================================================================
