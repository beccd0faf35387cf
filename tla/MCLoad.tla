------------------------------- MODULE MCLoad -------------------------------
(***************************************************************************)
(* Small instances of Load.                                                *)
(***************************************************************************)
EXTENDS Load, TLC

CONSTANTS make, test

\* Repos are numbered in the order of their names.  Repo n is at path n; path 4
\* is another directory with the name of repo 1; repo 3 lies in repo 1; path 5
\* has no name.
ThePaths == 1 .. 5
TheNames == <<1, 2, 3, 1, NotSet>>
Nesting == <<{1}, {2}, {1, 3}, {4}, {5}>>
InOrder == [r \in Repo |-> r]

Says(g, p, cmd, deps) ==
  [group |-> g, path |-> p,
   fields |-> [f \in Field |-> IF f = "depends_on" THEN deps
                               ELSE IF f = "default_cmd" THEN cmd ELSE NotSet]]

\* A command and none, short lists of dependencies and none; two orders of one
\* list, and one that repeats itself; the other directory, and the path without
\* a name.
TheEntries ==
  {Says(g, p, c, d) : g \in Group, p \in {1, 2}, c \in {make, NotSet},
                      d \in {NotSet, <<>>, <<1>>, <<2>>, <<3>>}}
  \cup {Says(g, 3, c, d) : g \in Group, c \in {make, test}, d \in {NotSet, <<1, 2>>, <<2, 1>>, <<1, 1>>}}
  \cup {Says(g, p, NotSet, NotSet) : g \in Group, p \in {4, 5}}

\* From the root no repo encloses: path 2 of a workspace without repo 2.
TheTargetings ==
  [all : {FALSE}, groups : {{}, {2}}, repos : {{}, {3}}, cwd : {2, 3}]
  \cup [all : {TRUE}, groups : {{}}, repos : {{}}, cwd : {3}]
=============================================================================
