------------------------------- MODULE Listing -------------------------------
(***************************************************************************)
(* How ezgitx reads what git prints (src/src/git.rs): parse_commit_log and *)
(* parse_name_status list commits and changed files under two caps,        *)
(* parse_porcelain_v2 judges a working tree and keeps a sample of its      *)
(* entries.  One step is one turn of the loop of a parser.  A cap may cut  *)
(* a list short; it must not change what is said about the whole of it.    *)
(*                                                                         *)
(* The output is a sequence of tokens, NUL-separated or lines, that are    *)
(* nothing but words: a file may be called R, or M.  Beside it stands what *)
(* git meant, which the parsers do not see.                                *)
(***************************************************************************)
EXTENDS Integers, Sequences

CONSTANT
  Output  \* what git may print, with the caps for the parser

Renames == {"R", "C"}       \* status codes with an old and a new path
Unmerged == {"u"}           \* first words of porcelain entries
Changes == {"1", "2", "?"}

\* Where git's entries end, and how many bytes the sizes of the first of them
\* add up to.  A commit is one token; a change has a code and one path or two,
\* and the last one may be incomplete; a porcelain entry is one of the lines.
Meant(g) ==
  LET n == Len(g.at)
      First(i) == IF i = 1 THEN 1 ELSE g.at[i - 1] + 1
  IN
  /\ g.at \in Seq(1 .. Len(g.tokens))
  /\ g.sum \in [0 .. n -> Nat] /\ g.sum[0] = 0
  /\ \A i \in 1 .. n : g.sum[i] = g.sum[i - 1] + g.tokens[g.at[i]].size
  /\ \A i, j \in 1 .. n : i < j => g.at[i] < g.at[j]
  /\ g.parser = "log" => n = Len(g.tokens) /\ \A i \in 1 .. n : g.at[i] = i
  /\ g.parser = "names" =>
       /\ \A i \in 1 .. n :
            g.at[i] = First(i) + (IF g.tokens[First(i)].word \in Renames THEN 2 ELSE 1)
       /\ First(n + 1) \in 1 .. Len(g.tokens) =>
            First(n + 1) + (IF g.tokens[First(n + 1)].word \in Renames THEN 2 ELSE 1)
              > Len(g.tokens)
  /\ g.parser = "status" =>
       \A k \in 1 .. Len(g.tokens) :
         g.tokens[k].word \in Unmerged \cup Changes <=> \E i \in 1 .. n : g.at[i] = k

IsOutput(g) ==
  /\ g.parser \in {"log", "names", "status"}
  /\ g.tokens \in Seq([word : STRING, size : Nat])
  /\ g.max_count \in Nat \ {0} /\ g.max_bytes \in Nat
  /\ Meant(g)

ASSUME ListingAssumption == \A g \in Output : IsOutput(g)

VARIABLES
  git,        \* the output
  pos,        \* tokens taken from it
  total, kept, bytes, stop,         \* the list and its counters
  conflicted, detached, changed,    \* what porcelain lines have shown
  ended

list == <<total, kept, bytes, stop>>
flags == <<conflicted, detached, changed>>
vars == <<git, pos, list, flags, ended>>

Init ==
  /\ git \in Output /\ pos = 0
  /\ total = 0 /\ kept = <<>> /\ bytes = 0 /\ stop = FALSE
  /\ conflicted = FALSE /\ detached = FALSE /\ changed = FALSE
  /\ ended = FALSE

\* Mutant: a porcelain parser that has its sample stops reading.
MoreWanted ==
  pos < Len(git.tokens) /\ (git.parser = "status" => Len(kept) < git.max_count)

More == pos < Len(git.tokens)

Word == git.tokens[pos + 1].word

-----------------------------------------------------------------------------
(* Lists under caps: commits and changed files.                            *)

\* Mutants: a cap closes the list for the entry that met it only; the byte cap
\* holds for the first entry too.
RoomAgain(size) ==
  Len(kept) < git.max_count /\ (kept = <<>> \/ bytes + size <= git.max_bytes)
RoomCapped(size) ==
  ~stop /\ Len(kept) < git.max_count /\ bytes + size <= git.max_bytes

\* One entry is always kept; the first that is not closes the list.
Room(size) ==
  ~stop /\ Len(kept) < git.max_count /\ (kept = <<>> \/ bytes + size <= git.max_bytes)

\* The entry that ends at token k is counted, and kept if there is room.
Include(k) ==
  LET size == git.tokens[k].size IN
  /\ total' = total + 1
  /\ IF Room(size) THEN kept' = Append(kept, k) /\ bytes' = bytes + size /\ UNCHANGED stop
                   ELSE stop' = TRUE /\ UNCHANGED <<kept, bytes>>

\* A record of git log; its size is that of the subject behind the separator.
TakeCommit ==
  /\ ~ended /\ git.parser = "log" /\ More
  /\ Include(pos + 1) /\ pos' = pos + 1
  /\ UNCHANGED <<git, flags, ended>>

\* Mutant: the old path of a rename is taken for the path.
PathsOne == 1

\* Renames and copies have two paths.
Paths == IF Word \in Renames THEN 2 ELSE 1

\* A code with its path or paths, of which the last is reported.
TakeChange ==
  /\ ~ended /\ git.parser = "names" /\ More /\ pos + 1 + Paths <= Len(git.tokens)
  /\ Include(pos + 1 + Paths) /\ pos' = pos + 1 + Paths
  /\ UNCHANGED <<git, flags, ended>>

\* A code without its paths ends the list.
MalformedTail ==
  /\ ~ended /\ git.parser = "names" /\ More /\ pos + 1 + Paths > Len(git.tokens)
  /\ ended' = TRUE /\ pos' = Len(git.tokens)
  /\ UNCHANGED <<git, list, flags>>

-----------------------------------------------------------------------------
(* Judging a working tree.                                                 *)

\* One line of git status; the first max_count entries are the sample.
TakeLine ==
  /\ ~ended /\ git.parser = "status" /\ More
  /\ pos' = pos + 1
  /\ conflicted' = (conflicted \/ Word \in Unmerged)
  /\ detached' = (detached \/ Word = "detached")
  /\ changed' = (changed \/ Word \in Changes)
  /\ kept' = IF Word \in Unmerged \cup Changes /\ Len(kept) < git.max_count
             THEN Append(kept, pos + 1) ELSE kept
  /\ UNCHANGED <<git, total, bytes, stop, ended>>

\* The precedence of states.
State ==
  IF conflicted THEN "conflicted"
  ELSE IF detached THEN "detached"
  ELSE IF changed THEN "dirty"
  ELSE "clean"

End == ~ended /\ ~More /\ ended' = TRUE /\ UNCHANGED <<git, pos, list, flags>>

Next == TakeCommit \/ TakeChange \/ MalformedTail \/ TakeLine \/ End

Spec == Init /\ [][Next]_vars

Truncated == total > Len(kept)

-----------------------------------------------------------------------------
(* Properties.                                                             *)

Listed == git.parser \in {"log", "names"}

\* "the full count plus a capped, newest-first sample" (git.rs:64): the total
\* counts every entry git meant and nothing else, whatever files are called
\* and however much the caps cut; the sample is the first entries, without a
\* gap; and it is called truncated exactly when an entry is missing.
CountsAll ==
  ended /\ Listed =>
    /\ total = Len(git.at)
    /\ Len(kept) <= total /\ \A i \in 1 .. Len(kept) : kept[i] = git.at[i]
    /\ Truncated <=> \E i \in 1 .. Len(git.at) : \A j \in 1 .. Len(kept) : kept[j] # git.at[i]

\* The sample is as long as the caps allow, and no longer: one entry at least,
\* at most max_count, more than one only up to max_bytes, and one more would be
\* one too many.
FillsCaps ==
  ended /\ Listed =>
    LET n == Len(kept) IN
    /\ git.at # <<>> => n > 0
    /\ n <= git.max_count
    /\ n > 1 => git.sum[n] <= git.max_bytes
    /\ n < Len(git.at) => n = git.max_count \/ git.sum[n + 1] > git.max_bytes

\* Conflicts and changes count wherever in the output they stand, also behind
\* the last line of the sample; and whoever is told of a dirty tree is shown an
\* entry of it (the snippet of dirty_tree).
JudgesAll ==
  ended /\ git.parser = "status" =>
    LET words == {git.tokens[k].word : k \in 1 .. Len(git.tokens)} IN
    /\ State = "conflicted" <=> words \cap Unmerged # {}
    /\ State = "detached" <=> "detached" \in words /\ words \cap Unmerged = {}
    /\ State = "dirty" <=> words \cap Changes # {} /\ words \cap (Unmerged \cup {"detached"}) = {}
    /\ State \in {"dirty", "conflicted"} => kept # <<>>

-----------------------------------------------------------------------------
(* The inductive invariant.                                                *)

TypeOK ==
  /\ IsOutput(git) /\ pos \in 0 .. Len(git.tokens)
  /\ total \in Nat /\ kept \in Seq(Nat) /\ bytes \in Nat
  /\ stop \in BOOLEAN /\ ended \in BOOLEAN
  /\ conflicted \in BOOLEAN /\ detached \in BOOLEAN /\ changed \in BOOLEAN

\* Every entry up to pos is counted, nothing else; they are the beginning of
\* what git meant, and so is the sample; the list is closed for a reason.
ListInv ==
  Listed =>
    /\ total <= Len(git.at)
    /\ ~ended => pos = IF total = 0 THEN 0 ELSE git.at[total]
    /\ ended => total = Len(git.at)
    /\ Len(kept) <= total /\ \A i \in 1 .. Len(kept) : kept[i] = git.at[i]
    /\ bytes = git.sum[Len(kept)]
    /\ total > 0 => kept # <<>>
    /\ Len(kept) <= git.max_count
    /\ Len(kept) > 1 => bytes <= git.max_bytes
    /\ ~stop => Len(kept) = total
    /\ stop => Len(kept) < total /\ (\/ Len(kept) = git.max_count
                                      \/ git.sum[Len(kept) + 1] > git.max_bytes)

\* The flags and the sample tell of the lines up to pos.
LineInv ==
  git.parser = "status" =>
    /\ ended => pos = Len(git.tokens)
    /\ conflicted <=> \E k \in 1 .. pos : git.tokens[k].word \in Unmerged
    /\ detached <=> \E k \in 1 .. pos : git.tokens[k].word = "detached"
    /\ changed <=> \E k \in 1 .. pos : git.tokens[k].word \in Changes
    /\ conflicted \/ changed => kept # <<>>

IndInv == TypeOK /\ ListInv /\ LineInv
=============================================================================
