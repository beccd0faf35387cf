-------------------------------- MODULE Load --------------------------------
(***************************************************************************)
(* What every command begins with: load and select (src/src/workspace.rs). *)
(* The entries of the configuration are merged one after the other, a repo *)
(* may be an entry of several groups; then dependencies are resolved, the  *)
(* graph is checked for cycles, and the targeting flags pick repos.        *)
(*                                                                         *)
(* The YAML is parsed already, and paths are normalized: a Path is what    *)
(* normalize returns.                                                      *)
(***************************************************************************)
EXTENDS FiniteSets, Functions, CycleCheck

CONSTANTS
  Path,        \* where repos may be
  Name,        \* the directory name of each path that has one
  Within,      \* the paths each path lies in, itself included
  Rank,        \* the order of repo names, that of a BTreeMap
  Group,       \* group names, as numbers in their order
  Command,     \* what default_cmd and check_cmd may say
  NotSet,      \* a field that an entry does not have, a name that a path has not
  Entries,     \* the entries a configuration may have
  MaxEntries,  \* bound: how many it has
  Targetings   \* the targeting flags and working directories of commands

Field == {"default_cmd", "check_cmd", "depends_on"}
Values == [Field -> {NotSet} \cup Command \cup Seq(Repo)]

ASSUME LoadAssumption ==
  /\ NotSet \notin Repo /\ Name \in [Path -> Repo \cup {NotSet}]
  /\ Within \in [Path -> SUBSET Path]
  /\ Rank \in [Repo -> Nat] /\ \A r, s \in Repo : Rank[r] = Rank[s] => r = s
  /\ Group \subseteq Nat /\ MaxEntries \in Nat
  /\ Entries \subseteq [group : Group, path : Path, fields : Values]
  /\ \A e \in Entries : e.fields["depends_on"] \in {NotSet} \cup Seq(Repo)
  /\ Targetings \subseteq [all : BOOLEAN, groups : SUBSET Group, repos : SUBSET Repo, cwd : Path]

VARIABLES
  config,   \* the entries, group after group
  present,  \* the groups, those without entries included
  at,       \* how many of them have been merged
  pending,  \* what they say of each repo so far
  groups,   \* the members of each group so far
  phase,    \* merging, checking, loaded, or how it ended
  picked    \* the repos the command works on

vars == <<config, present, at, pending, groups, phase, picked, D, repos, mark, left, stack, cycle>>

\* How load, or select after it, may end.
Ended == {"config_invalid", "dependency_cycle", "unknown_target", "done"}

Absent == [path |-> NotSet]
Pending == [path : Path, fields : Values] \cup {Absent}

TypeOK ==
  /\ config \in Seq(Entries) /\ present \subseteq Group /\ at \in 0 .. Len(config)
  /\ pending \in [Repo -> Pending]
  /\ groups \in [Group -> SUBSET Repo]
  /\ phase \in {"merging", "checking"} \cup Ended \cup {"loaded"}
  /\ picked \subseteq Repo

\* Groups are a BTreeMap: they come in the order of their names.
Init ==
  /\ \E n \in 0 .. MaxEntries : config \in [1 .. n -> Entries]
  /\ \A i \in 1 .. Len(config) - 1 : config[i].group <= config[i + 1].group
  /\ present \in SUBSET Group /\ \A i \in 1 .. Len(config) : config[i].group \in present
  /\ at = 0
  /\ pending = [r \in Repo |-> Absent]
  /\ groups = [g \in Group |-> {}]
  /\ phase = "merging" /\ picked = {}
  /\ D = [r \in Repo |-> {}] /\ repos = {}
  /\ mark = [r \in Repo |-> "white"] /\ left = D
  /\ stack = <<>> /\ cycle = <<>>

----------------------------------------------------------------------------
(* load: merging.                                                          *)

EntryName(e) == Name[e.path]

\* A path that ends in no name, as .. does.
Nameless ==
  /\ phase = "merging" /\ at < Len(config)
  /\ EntryName(config[at + 1]) = NotSet
  /\ phase' = "config_invalid"
  /\ UNCHANGED <<config, present, at, pending, groups, picked, walk>>

\* merge_field, of each field: absent stays, missing fills in.
Merged(old, new) == [f \in Field |-> IF old[f] = NotSet THEN new[f] ELSE old[f]]

\* Mutant: in the first entry, no dependencies are the same as none given.
ConflictLate(old, new) ==
  \E f \in Field : old[f] \notin {NotSet, <<>>} /\ new[f] # NotSet /\ old[f] # new[f]

\* merge_field: both say something, and not the same.  Lists are compared as
\* they are written: their order counts, and what they repeat.
Conflict(old, new) ==
  \E f \in Field : old[f] # NotSet /\ new[f] # NotSet /\ old[f] # new[f]

\* The first entry for a repo is taken as it is, others are merged into it.
Merge ==
  /\ phase = "merging" /\ at < Len(config)
  /\ LET e == config[at + 1]
         n == EntryName(e)
         known == pending[n]
     IN  /\ n # NotSet
         /\ \/ /\ known = Absent
               /\ pending' = [pending EXCEPT ![n] =
                    [path |-> e.path, fields |-> e.fields]]
            \/ /\ known # Absent /\ known.path = e.path /\ ~Conflict(known.fields, e.fields)
               /\ pending' = [pending EXCEPT ![n] =
                    [path |-> e.path, fields |-> Merged(known.fields, e.fields)]]
         /\ groups' = [groups EXCEPT ![e.group] = @ \cup {n}]
  /\ at' = at + 1
  /\ UNCHANGED <<config, present, phase, picked, walk>>

\* Two directories of one name, or two values of one field.
Clash ==
  /\ phase = "merging" /\ at < Len(config)
  /\ LET e == config[at + 1]
         known == pending[EntryName(e)]
     IN  /\ EntryName(e) # NotSet /\ known # Absent
         /\ known.path # e.path \/ Conflict(known.fields, e.fields)
  /\ phase' = "config_invalid"
  /\ UNCHANGED <<config, present, at, pending, groups, picked, walk>>

Known == {r \in Repo : pending[r] # Absent}

\* depends_on, of which nothing said is the same as nothing.
DependsOn(r) ==
  IF r \in Known /\ pending[r].fields["depends_on"] # NotSet
  THEN Range(pending[r].fields["depends_on"]) ELSE {}

\* Mutant: dependencies are not looked up.
Resolves == TRUE

Resolved == \A r \in Repo : DependsOn(r) \subseteq Known

\* All entries are merged; every dependency must be the name of a repo.
Resolve ==
  /\ phase = "merging" /\ at = Len(config)
  /\ \/ /\ Resolved /\ phase' = "checking"
        /\ StartCheck(Known, [r \in Repo |-> DependsOn(r)])
     \/ /\ ~Resolved /\ phase' = "config_invalid"
        /\ UNCHANGED walk
  /\ UNCHANGED <<config, present, at, pending, groups, picked>>

----------------------------------------------------------------------------
(* load: check_cycles, and what it says.                                   *)

Check ==
  /\ phase = "checking" /\ CheckStep
  /\ UNCHANGED <<config, present, at, pending, groups, phase, picked>>

Verdict ==
  /\ phase = "checking"
  /\ \/ Accepts /\ phase' = "loaded"
     \/ Rejects /\ phase' = "dependency_cycle"
  /\ UNCHANGED <<config, present, at, pending, groups, picked, walk>>

----------------------------------------------------------------------------
(* select.                                                                 *)

\* The repos that the working directory lies in.
Enclosing(cwd) == {r \in repos : pending[r].path \in Within[cwd]}

\* current_repo finds the first in the order of names.
CurrentRepo(cwd) ==
  {r \in Enclosing(cwd) : \A s \in Enclosing(cwd) : Rank[r] <= Rank[s]}

\* A group without entries is known, and selects nothing.
Unknown(t) == ~(t.groups \subseteq present) \/ ~(t.repos \subseteq repos)

Selection(t) ==
  IF t.all THEN repos
  ELSE IF t.groups # {} \/ t.repos # {} THEN t.repos \cup UNION {groups[g] : g \in t.groups}
  ELSE IF CurrentRepo(t.cwd) # {} THEN CurrentRepo(t.cwd)
  ELSE repos

\* An unknown group or repo has the code of an invalid configuration, too.
Select ==
  /\ phase = "loaded"
  /\ \E t \in Targetings :
       \/ Unknown(t) /\ phase' = "unknown_target" /\ UNCHANGED picked
       \/ ~Unknown(t) /\ phase' = "done" /\ picked' = Selection(t)
  /\ UNCHANGED <<config, present, at, pending, groups, walk>>

Next == Nameless \/ Merge \/ Clash \/ Resolve \/ Check \/ Verdict \/ Select

Spec == Init /\ [][Next]_vars

\* One process, which runs.
FairSpec == Spec /\ WF_vars(Next)

----------------------------------------------------------------------------
(* Properties.                                                             *)

\* What the entries say, in whatever order they come.
EntriesOf(r) == {config[i] : i \in {i \in 1 .. Len(config) : EntryName(config[i]) = r}}

Given(r, f) == {e.fields[f] : e \in EntriesOf(r)} \ {NotSet}

Named == \A i \in 1 .. Len(config) : EntryName(config[i]) # NotSet

Consistent ==
  \A r \in Repo : \A e, o \in EntriesOf(r) :
    /\ e.path = o.path
    /\ \A f \in Field : NotSet \in {e.fields[f], o.fields[f]} \/ e.fields[f] = o.fields[f]

AllKnown ==
  \A r \in Repo : \A l \in Given(r, "depends_on") : \A d \in Range(l) : EntriesOf(d) # {}

\* "collapsing early makes conflict detection depend on group order"
\* (workspace.rs:87): what is loaded, and whether anything is, is a matter of
\* what the entries say and not of the order of groups; an entry of one group
\* neither hides nor overrides one of another.
MergeExact ==
  /\ phase = "config_invalid" => ~(Named /\ Consistent /\ AllKnown)
  /\ phase \notin {"merging", "config_invalid"} =>
       /\ Named /\ Consistent /\ AllKnown
       /\ \A r \in Repo : pending[r] = Absent <=> EntriesOf(r) = {}
       /\ \A r \in Known : \A f \in Field :
            \/ Given(r, f) = {} /\ pending[r].fields[f] = NotSet
            \/ Given(r, f) = {pending[r].fields[f]}

\* Nothing is loaded with a cycle in it, and no sound graph is refused; and the
\* lookups that would panic all succeed: a dependency in check_cycles
\* (graph.rs:31), the member of a group in select (workspace.rs:245).
LoadedSound ==
  /\ phase \in {"loaded", "unknown_target", "done"} => Acyclic(D)
  /\ phase = "dependency_cycle" => ~Acyclic(D)
  /\ \A r \in Repo : D[r] \subseteq repos
  /\ phase \notin {"merging", "config_invalid"} => \A g \in Group : groups[g] \subseteq repos
  /\ picked \subseteq repos

\* Every command gets past loading and selecting.
LoadEnds == <>(phase \in Ended)

\* "just the enclosing repo when inside one" (README.md:294): of repos that lie
\* in one another, the inner one.
InnermostPicked ==
  phase = "done" => \A r, s \in picked :
    picked = {r} => \A o \in Known : pending[r].path \in Within[pending[o].path]
                                   \/ pending[o].path \notin Within[pending[r].path]

----------------------------------------------------------------------------
(* The inductive invariant, part by part.                                  *)

\* The entries that have been merged, and nothing else, are in what is pending.
MergeInv ==
  /\ \A i \in 1 .. at : EntryName(config[i]) # NotSet
  /\ \A i \in 1 .. at :
       LET e == config[i]
           p == pending[EntryName(e)]
       IN  /\ p # Absent /\ p.path = e.path
           /\ \A f \in Field : e.fields[f] \in {NotSet, p.fields[f]}
           /\ EntryName(e) \in groups[e.group]
  /\ \A r \in Known : \E i \in 1 .. at : EntryName(config[i]) = r
  /\ \A r \in Known : \A f \in Field :
       pending[r].fields[f] # NotSet =>
         \E i \in 1 .. at : /\ EntryName(config[i]) = r
                           /\ config[i].fields[f] = pending[r].fields[f]
  /\ \A g \in Group : groups[g] \subseteq Known

\* From when the check begins it works on what has been merged.
PhaseInv ==
  /\ phase = "config_invalid" => ~(Named /\ Consistent /\ AllKnown)
  /\ phase \notin {"merging", "config_invalid"} =>
       /\ at = Len(config) /\ Resolved
       /\ repos = Known /\ D = [r \in Repo |-> DependsOn(r)]
  /\ phase \in {"loaded", "unknown_target", "done"} => Acyclic(D)
  /\ phase = "dependency_cycle" => ~Acyclic(D)
  /\ picked \subseteq repos /\ (phase # "done" => picked = {})

IndInv == TypeOK /\ MergeInv /\ PhaseInv /\ CheckInv
==============================================================================
