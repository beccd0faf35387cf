------------------------------ MODULE MCListing ------------------------------
(***************************************************************************)
(* Small instances of Listing.                                             *)
(***************************************************************************)
EXTENDS Listing, SequencesExt

CONSTANT MaxEntries  \* bound: entries of an output

Token(w, s) == [word |-> w, size |-> s]

\* Entries, each a sequence of tokens.  Subjects may be empty, paths are not;
\* a path may look like a code.
Commits == {<<Token("commit", s)>> : s \in 0 .. 2}
PathTokens == {Token(w, s) : w \in {"M", "R"}, s \in 1 .. 2}
Names ==
  {<<Token("M", 1), p>> : p \in PathTokens}
    \cup {<<Token("R", 4), Token(w, 1), p>> : w \in {"M", "R"}, p \in PathTokens}
Lines == {<<Token(w, 0)>> : w \in {"u", "1", "?", "detached", "#"}}

\* The sum of the sizes of the last tokens of the first i entries.
Sums(es) ==
  [i \in 0 .. Len(es) |-> FoldSeq(LAMBDA e, n : n + Last(e).size, 0, SubSeq(es, 1, i))]
Ends(es) ==
  [i \in 1 .. Len(es) |-> FoldSeq(LAMBDA e, n : n + Len(e), 0, SubSeq(es, 1, i))]

Printed(parser, es, rest, count, size) ==
  [parser |-> parser, tokens |-> FlattenSeq(es) \o rest, at |-> Ends(es), sum |-> Sums(es),
   max_count |-> count, max_bytes |-> size]

Tails == {<<>>, <<Token("M", 1)>>, <<Token("R", 4), Token("M", 1)>>}

\* Porcelain output: the entries are some of its lines.
Porcelain(ls, count) ==
  LET tokens == FlattenSeq(ls)
      at == SelectSeq([k \in 1 .. Len(tokens) |-> k],
                      LAMBDA k : tokens[k].word \in Unmerged \cup Changes)
  IN [parser |-> "status", tokens |-> tokens, at |-> at,
      sum |-> [i \in 0 .. Len(at) |-> 0], max_count |-> count, max_bytes |-> 0]

Outputs ==
  {Printed("log", es, <<>>, c, b) :
     es \in BoundedSeq(Commits, MaxEntries + 1), c \in 1 .. 3, b \in 0 .. 3}
  \cup {Printed("names", es, rest, c, b) :
     es \in BoundedSeq(Names, MaxEntries), rest \in Tails, c \in 1 .. 2, b \in 1 .. 3}
  \cup {Porcelain(ls, c) : ls \in BoundedSeq(Lines, MaxEntries + 1), c \in 1 .. 2}
=============================================================================
