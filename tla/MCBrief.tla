------------------------------- MODULE MCBrief -------------------------------
(***************************************************************************)
(* Small instances of Brief.                                               *)
(***************************************************************************)
EXTENDS Brief, TLC

CONSTANTS s1, s2

M(c, d, r) == [cmd |-> c, dirty |-> d, record |-> r]
Full       == M("brief", FALSE, TRUE)
DirtyOnly  == M("brief", TRUE, TRUE)
Peek       == M("brief", FALSE, FALSE)
Changed    == M("changed", FALSE, FALSE)
Since      == M("since", FALSE, FALSE)
AllModes   == {Full, DirtyOnly, Peek, Changed, Since}
JustBrief  == {Full}

\* Everywhere but between recording the baseline and printing the line.
BeforeRecording == {"status", "head", "base", "delta", "result", "resolve", "range", "show"}
Anywhere        == BeforeRecording \cup {"print"}

AnySession == Permutations(Session)
==============================================================================
