---------------------------- MODULE ListingProofs ----------------------------
(***************************************************************************)
(* For every output and all caps: the counts of Listing are those of what  *)
(* git meant, the samples fill their caps, and working trees are judged by *)
(* all that git said of them.                                              *)
(***************************************************************************)
EXTENDS Listing, SequenceTheorems, TLAPS

\* What every output of git has.
LEMMA Shape ==
  ASSUME NEW g, IsOutput(g)
  PROVE  /\ Len(g.at) \in Nat /\ Len(g.tokens) \in Nat
         /\ \A i \in 1 .. Len(g.at) : g.at[i] \in 1 .. Len(g.tokens)
         /\ \A k \in 1 .. Len(g.tokens) : g.tokens[k].size \in Nat
         /\ g.max_count \in Nat \ {0} /\ g.max_bytes \in Nat
<1>1. g.at \in Seq(1 .. Len(g.tokens)) /\ g.tokens \in Seq([word : STRING, size : Nat])
  BY DEF IsOutput, Meant
<1>2. \A i \in 1 .. Len(g.at) : g.at[i] \in 1 .. Len(g.tokens)
  BY <1>1, ElementOfSeq
<1>3. \A k \in 1 .. Len(g.tokens) : g.tokens[k] \in [word : STRING, size : Nat]
  BY <1>1, ElementOfSeq
<1> QED BY <1>1, <1>2, <1>3 DEF IsOutput

\* The token at which the next entry of a list begins.
LEMMA NextEntry ==
  ASSUME IndInv, Listed, ~ended, total < Len(git.at)
  PROVE  /\ git.at[total + 1] \in 1 .. Len(git.tokens)
         /\ git.parser = "log" => git.at[total + 1] = pos + 1
         /\ git.parser = "names" =>
              /\ pos + 1 \in 1 .. Len(git.tokens)
              /\ git.at[total + 1] = pos + 1 + Paths
<1>1. /\ IsOutput(git) /\ total \in Nat /\ pos \in Nat
      /\ pos = IF total = 0 THEN 0 ELSE git.at[total]
  BY DEF IndInv, TypeOK, ListInv
<1>2. Len(git.at) \in Nat /\ Len(git.tokens) \in Nat
  BY <1>1 DEF IsOutput, Meant
<1>3. \A i \in 1 .. Len(git.at) : git.at[i] \in 1 .. Len(git.tokens)
  BY <1>1, Shape
<1>4. total + 1 \in 1 .. Len(git.at)
  BY <1>1, <1>2
<1>5. CASE git.parser = "log"
  <2>1. \A i \in 1 .. Len(git.at) : git.at[i] = i
    BY <1>1, <1>5 DEF IsOutput, Meant
  <2> QED BY <1>1, <1>2, <1>3, <1>4, <1>5, <2>1
<1>6. CASE git.parser = "names"
  <2> DEFINE First(i) == IF i = 1 THEN 1 ELSE git.at[i - 1] + 1
  <2>1. \A i \in 1 .. Len(git.at) :
          git.at[i] = First(i) + (IF git.tokens[First(i)].word \in Renames THEN 2 ELSE 1)
    BY <1>1, <1>6 DEF IsOutput, Meant
  <2>2. First(total + 1) = pos + 1
    BY <1>1, <1>2, <1>3, <1>4
  <2>3. git.at[total + 1] = pos + 1 + Paths
    BY <1>4, <2>1, <2>2 DEF Paths, Word
  <2>4. Paths \in {1, 2}
    BY DEF Paths
  <2> HIDE DEF First
  <2>5. pos + 1 \in 1 .. Len(git.tokens)
    BY <1>1, <1>2, <1>3, <1>4, <2>3, <2>4
  <2> QED BY <1>3, <1>4, <1>6, <2>3, <2>5
<1> QED BY <1>5, <1>6 DEF Listed

\* A change that git meant is complete: where none is left, none can be taken.
LEMMA NoChangeLeft ==
  ASSUME IndInv, git.parser = "names", ~ended, total = Len(git.at), More
  PROVE  pos + 1 + Paths > Len(git.tokens)
<1>1. /\ IsOutput(git) /\ total \in Nat /\ pos \in 0 .. Len(git.tokens)
      /\ pos = IF total = 0 THEN 0 ELSE git.at[total]
  BY DEF IndInv, TypeOK, ListInv, Listed
<1>2. Len(git.tokens) \in Nat
  BY <1>1 DEF IsOutput
<1> DEFINE First(i) == IF i = 1 THEN 1 ELSE git.at[i - 1] + 1
<1>3. First(total + 1) \in 1 .. Len(git.tokens) =>
        First(total + 1) + (IF git.tokens[First(total + 1)].word \in Renames THEN 2 ELSE 1)
          > Len(git.tokens)
  BY <1>1 DEF IsOutput, Meant
<1>4. First(total + 1) = pos + 1
  BY <1>1
<1>5. pos + 1 \in 1 .. Len(git.tokens)
  BY <1>1, <1>2 DEF More
<1> HIDE DEF First
<1> QED BY <1>3, <1>4, <1>5 DEF Paths, Word

\* What Include does to the list, wherever the entry ends.
LEMMA Included ==
  ASSUME IndInv, Listed, ~ended, total < Len(git.at), Include(git.at[total + 1]),
         UNCHANGED <<git, flags, ended>>, pos' = git.at[total + 1]
  PROVE  IndInv'
<1> DEFINE k == git.at[total + 1]
           size == git.tokens[k].size
<1>1. /\ IsOutput(git) /\ total \in Nat /\ kept \in Seq(Nat) /\ bytes \in Nat
      /\ stop \in BOOLEAN /\ ended \in BOOLEAN
      /\ conflicted \in BOOLEAN /\ detached \in BOOLEAN /\ changed \in BOOLEAN
  BY DEF IndInv, TypeOK
<1>2. /\ Len(kept) <= total /\ \A i \in 1 .. Len(kept) : kept[i] = git.at[i]
      /\ bytes = git.sum[Len(kept)]
      /\ total > 0 => kept # <<>>
      /\ Len(kept) <= git.max_count
      /\ Len(kept) > 1 => bytes <= git.max_bytes
      /\ ~stop => Len(kept) = total
      /\ stop => Len(kept) < total /\ (\/ Len(kept) = git.max_count
                                       \/ git.sum[Len(kept) + 1] > git.max_bytes)
  BY DEF IndInv, ListInv
<1>3. /\ k \in 1 .. Len(git.tokens)
      /\ Len(git.at) \in Nat /\ Len(git.tokens) \in Nat /\ Len(kept) \in Nat
      /\ git.max_count \in Nat \ {0} /\ git.max_bytes \in Nat
  BY <1>1, NextEntry DEF IsOutput, Meant
<1>4. size \in Nat
  BY <1>1, <1>3, Shape
<1>5. Len(kept) = total => git.sum[Len(kept) + 1] = bytes + size
  <2>1. \A i \in 1 .. Len(git.at) : git.sum[i] = git.sum[i - 1] + git.tokens[git.at[i]].size
    BY <1>1 DEF IsOutput, Meant
  <2>2. total + 1 \in 1 .. Len(git.at) /\ (total + 1) - 1 = total
    BY <1>1, <1>3
  <2> QED BY <1>2, <2>1, <2>2
<1>6. total' = total + 1 /\ pos' = k /\ git' = git
  BY DEF Include
<1>7. UNCHANGED <<conflicted, detached, changed, ended>>
  BY DEF flags
<1>8. LineInv'
  BY <1>6 DEF LineInv, Listed
<1>9. CASE Room(size)
  <2>1. /\ kept' = Append(kept, k) /\ bytes' = bytes + size /\ stop' = stop
        /\ ~stop /\ Len(kept) < git.max_count /\ (kept = <<>> \/ bytes + size <= git.max_bytes)
    BY <1>9 DEF Include, Room
  <2>2. /\ kept' \in Seq(Nat) /\ Len(kept') = Len(kept) + 1 /\ kept' # <<>>
        /\ \A i \in 1 .. Len(kept) : kept'[i] = kept[i]
        /\ kept'[Len(kept) + 1] = k
    BY <1>1, <1>3, <2>1
  <2>3. TypeOK'
    <3>1. IsOutput(git)'
      BY <1>1, <1>6
    <3>2. pos' \in 0 .. Len(git'.tokens)
      <4> HIDE DEF k
      <4> QED BY <1>3, <1>6
    <3>3. total' \in Nat
      BY <1>1, <1>6
    <3>4. bytes' \in Nat
      <4> HIDE DEF size
      <4> QED BY <1>1, <1>4, <2>1
    <3> QED BY <1>1, <1>7, <2>1, <2>2, <3>1, <3>2, <3>3, <3>4 DEF TypeOK
  <2>4. \A i \in 1 .. Len(kept') : kept'[i] = git.at[i]
    BY <1>2, <1>3, <2>1, <2>2
  <2>5. kept = <<>> \/ Len(kept) > 0
    BY <1>1
  <2>6. Len(kept') > 1 => bytes' <= git.max_bytes
    BY <1>3, <2>1, <2>2, <2>5
  <2> QED BY <1>1, <1>2, <1>3, <1>4, <1>5, <1>6, <1>7, <1>8, <2>1, <2>2, <2>3, <2>4, <2>6
          DEF IndInv, ListInv, Listed
<1>10. CASE ~Room(size)
  <2>1. kept' = kept /\ bytes' = bytes /\ stop' = TRUE
    BY <1>10 DEF Include
  <2>2. TypeOK'
    BY <1>1, <1>3, <1>6, <1>7, <2>1 DEF TypeOK
  <2>3. kept # <<>>
    BY <1>2, <1>3, <1>10 DEF Room
  <2>4. \/ Len(kept) = git.max_count
        \/ git.sum[Len(kept) + 1] > git.max_bytes
    BY <1>1, <1>2, <1>3, <1>4, <1>5, <1>10 DEF Room
  <2> QED BY <1>1, <1>2, <1>3, <1>6, <1>7, <1>8, <2>1, <2>2, <2>3, <2>4
          DEF IndInv, ListInv, Listed
<1> QED BY <1>9, <1>10

LEMMA InitInv == Init => IndInv
<1> SUFFICES ASSUME Init PROVE IndInv
  OBVIOUS
<1>1. IsOutput(git)
  BY ListingAssumption DEF Init
<1>2. /\ Len(git.tokens) \in Nat /\ Len(git.at) \in Nat /\ git.sum[0] = 0
      /\ git.max_count \in Nat \ {0}
  BY <1>1 DEF IsOutput, Meant
<1>3. TypeOK
  <2>1. <<>> \in Seq(Nat)
    OBVIOUS
  <2>2. pos = 0 /\ total = 0 /\ bytes = 0 /\ kept \in Seq(Nat)
    BY <2>1 DEF Init
  <2>3. pos \in 0 .. Len(git.tokens) /\ total \in Nat /\ bytes \in Nat
    BY <1>2, <2>2
  <2>4. /\ stop \in BOOLEAN /\ ended \in BOOLEAN
        /\ conflicted \in BOOLEAN /\ detached \in BOOLEAN /\ changed \in BOOLEAN
    BY DEF Init
  <2> QED BY <1>1, <2>2, <2>3, <2>4, Zenon DEF TypeOK
<1>4. ListInv
  BY <1>2 DEF Init, ListInv
<1>5. LineInv
  BY DEF Init, LineInv
<1> QED BY <1>3, <1>4, <1>5 DEF IndInv

LEMMA TakeCommitInv == ASSUME IndInv, TakeCommit PROVE IndInv'
<1>1. Listed /\ ~ended /\ git.parser = "log" /\ More
  BY DEF TakeCommit, Listed
<1>2. IsOutput(git) /\ total \in Nat /\ pos \in Nat /\ total <= Len(git.at)
      /\ pos = IF total = 0 THEN 0 ELSE git.at[total]
  BY <1>1 DEF IndInv, TypeOK, ListInv
<1>3. /\ Len(git.at) = Len(git.tokens) /\ Len(git.at) \in Nat
      /\ \A i \in 1 .. Len(git.at) : git.at[i] = i
  BY <1>1, <1>2 DEF IsOutput, Meant
<1>4. pos = total
  BY <1>2, <1>3
<1>5. total < Len(git.at)
  BY <1>1, <1>2, <1>3, <1>4 DEF More
<1>6. git.at[total + 1] = pos + 1
  BY <1>1, <1>5, NextEntry
<1> QED BY <1>1, <1>5, <1>6, Included DEF TakeCommit

LEMMA TakeChangeInv == ASSUME IndInv, TakeChange PROVE IndInv'
<1>1. Listed /\ ~ended /\ git.parser = "names" /\ More /\ pos + 1 + Paths <= Len(git.tokens)
  BY DEF TakeChange, Listed
<1>2. /\ total \in Nat /\ Len(git.at) \in Nat /\ total <= Len(git.at)
      /\ pos \in Nat /\ Len(git.tokens) \in Nat /\ Paths \in {1, 2}
  BY <1>1 DEF IndInv, TypeOK, ListInv, IsOutput, Meant, Paths
<1>3. total < Len(git.at)
  BY <1>1, <1>2, NoChangeLeft
<1>4. git.at[total + 1] = pos + 1 + Paths
  BY <1>1, <1>3, NextEntry
<1> QED BY <1>1, <1>3, <1>4, Included DEF TakeChange

LEMMA EndsInv == ASSUME IndInv, MalformedTail \/ End PROVE IndInv'
<1>1. /\ ~ended /\ ended' = TRUE /\ UNCHANGED <<git, list, flags>>
      /\ pos' = Len(git.tokens)
  BY DEF MalformedTail, End, More, IndInv, TypeOK, IsOutput
<1>2. UNCHANGED <<git, total, kept, bytes, stop, conflicted, detached, changed>>
  BY <1>1 DEF list, flags
<1>3. /\ IsOutput(git) /\ Len(git.tokens) \in Nat /\ Len(git.at) \in Nat
      /\ total \in Nat /\ pos \in 0 .. Len(git.tokens)
  BY DEF IndInv, TypeOK, IsOutput, Meant
<1>4. TypeOK'
  BY <1>1, <1>2, <1>3 DEF IndInv, TypeOK
<1>5. LineInv'
  <2>1. CASE git.parser = "status"
    <3>1. pos = Len(git.tokens)
      BY <1>3, <2>1 DEF MalformedTail, End, More
    <3> QED BY <1>1, <1>2, <3>1 DEF IndInv, LineInv
  <2> QED BY <1>2, <2>1 DEF LineInv
<1>6. ListInv'
  <2>1. CASE Listed
    <3>1. total <= Len(git.at)
      BY <2>1 DEF IndInv, ListInv
    <3>2. Paths \in {1, 2}
      BY DEF Paths
    <3>3. total = Len(git.at)
      BY <1>1, <1>3, <2>1, <3>1, <3>2, NextEntry DEF MalformedTail, End, More, Listed
    <3> QED BY <1>1, <1>2, <2>1, <3>3 DEF IndInv, ListInv, Listed
  <2> QED BY <1>2, <2>1 DEF ListInv, Listed
<1> QED BY <1>4, <1>5, <1>6 DEF IndInv

LEMMA TakeLineInv == ASSUME IndInv, TakeLine PROVE IndInv'
<1>1. /\ ~ended /\ git.parser = "status" /\ pos < Len(git.tokens) /\ pos' = pos + 1
      /\ UNCHANGED <<git, total, bytes, stop, ended>>
  BY DEF TakeLine, More
<1>2. /\ IsOutput(git) /\ Len(git.tokens) \in Nat /\ pos \in Nat /\ kept \in Seq(Nat)
      /\ git.max_count \in Nat \ {0}
  BY DEF IndInv, TypeOK, IsOutput
<1>3. kept' \in Seq(Nat) /\ (kept # <<>> => kept' # <<>>)
  BY <1>2 DEF TakeLine
<1>4. TypeOK'
  <2>1. conflicted' \in BOOLEAN /\ detached' \in BOOLEAN /\ changed' \in BOOLEAN
    BY DEF TakeLine, IndInv, TypeOK
  <2> QED BY <1>1, <1>2, <1>3, <2>1 DEF IndInv, TypeOK
<1>5. LineInv'
  <2>1. \A k : k \in 1 .. pos' <=> k \in 1 .. pos \/ k = pos + 1
    BY <1>1, <1>2
  <2>2. /\ conflicted <=> \E k \in 1 .. pos : git.tokens[k].word \in Unmerged
        /\ detached <=> \E k \in 1 .. pos : git.tokens[k].word = "detached"
        /\ changed <=> \E k \in 1 .. pos : git.tokens[k].word \in Changes
        /\ conflicted \/ changed => kept # <<>>
    BY <1>1 DEF IndInv, LineInv
  <2>3. /\ conflicted' = (conflicted \/ git.tokens[pos + 1].word \in Unmerged)
        /\ detached' = (detached \/ git.tokens[pos + 1].word = "detached")
        /\ changed' = (changed \/ git.tokens[pos + 1].word \in Changes)
    BY DEF TakeLine, Word
  <2>4. git.tokens[pos + 1].word \in Unmerged \cup Changes => kept' # <<>>
    <3> SUFFICES ASSUME git.tokens[pos + 1].word \in Unmerged \cup Changes PROVE kept' # <<>>
      OBVIOUS
    <3>1. CASE kept = <<>>
      <4>1. Len(kept) = 0 /\ 0 < git.max_count
        BY <1>2, <3>1
      <4>2. kept' = Append(kept, pos + 1)
        BY <4>1 DEF TakeLine, Word
      <4> QED BY <1>2, <4>2
    <3> QED BY <1>3, <3>1
  <2>5. conflicted' <=> \E k \in 1 .. pos' : git.tokens[k].word \in Unmerged
    BY <2>1, <2>2, <2>3
  <2>6. detached' <=> \E k \in 1 .. pos' : git.tokens[k].word = "detached"
    BY <2>1, <2>2, <2>3
  <2>7. changed' <=> \E k \in 1 .. pos' : git.tokens[k].word \in Changes
    BY <2>1, <2>2, <2>3
  <2>8. conflicted' \/ changed' => kept' # <<>>
    BY <1>3, <2>2, <2>3, <2>4
  <2> QED BY <1>1, <2>5, <2>6, <2>7, <2>8 DEF LineInv
<1>6. ListInv'
  BY <1>1 DEF ListInv, Listed
<1> QED BY <1>4, <1>5, <1>6 DEF IndInv

\* The inductive invariant holds for every output of git and all caps.
THEOREM Inductive == Spec => []IndInv
<1>1. IndInv /\ [Next]_vars => IndInv'
  <2>1. ASSUME IndInv, Next PROVE IndInv'
    BY <2>1, TakeCommitInv, TakeChangeInv, TakeLineInv, EndsInv DEF Next
  <2>2. ASSUME IndInv, UNCHANGED vars PROVE IndInv'
    BY <2>2 DEF vars, list, flags, IndInv, TypeOK, ListInv, LineInv, Listed
  <2> QED BY <2>1, <2>2
<1> QED BY <1>1, InitInv, PTL DEF Spec

\* parse_commit_log and parse_name_status count every entry that git meant, show
\* the first of them without a gap, and say truncated when one is missing.
THEOREM AllAreCounted == Spec => []CountsAll
<1>1. IndInv => CountsAll
  <2> SUFFICES ASSUME IndInv, ended, Listed PROVE CountsAll
    BY DEF CountsAll
  <2>1. /\ total = Len(git.at) /\ Len(kept) <= total
        /\ \A i \in 1 .. Len(kept) : kept[i] = git.at[i]
    BY DEF IndInv, ListInv
  <2>2. /\ Len(git.at) \in Nat /\ Len(kept) \in Nat
        /\ \A i, j \in 1 .. Len(git.at) : i < j => git.at[i] < git.at[j]
    BY DEF IndInv, TypeOK, IsOutput, Meant
  <2>3. \A i \in 1 .. Len(git.at) : git.at[i] \in Nat
    BY Shape DEF IndInv, TypeOK
  <2>4. ASSUME Truncated
        PROVE  \E i \in 1 .. Len(git.at) : \A j \in 1 .. Len(kept) : kept[j] # git.at[i]
    <3>1. Len(kept) + 1 \in 1 .. Len(git.at)
      BY <2>1, <2>2, <2>4 DEF Truncated
    <3>2. \A j \in 1 .. Len(kept) : kept[j] # git.at[Len(kept) + 1]
      BY <2>1, <2>2, <2>3, <3>1
    <3> QED BY <3>1, <3>2
  <2>5. ASSUME ~Truncated, NEW i \in 1 .. Len(git.at)
        PROVE  \E j \in 1 .. Len(kept) : kept[j] = git.at[i]
    BY <2>1, <2>2, <2>5 DEF Truncated
  <2> QED BY <2>1, <2>4, <2>5 DEF CountsAll
<1> QED BY <1>1, Inductive, PTL

\* Their samples are as long as the caps allow, and no longer.
THEOREM SamplesFillCaps == Spec => []FillsCaps
<1>1. IndInv => FillsCaps
  <2> SUFFICES ASSUME IndInv, ended, Listed PROVE FillsCaps
    BY DEF FillsCaps
  <2>1. /\ Len(git.at) \in Nat /\ Len(kept) \in Nat /\ kept \in Seq(Nat)
        /\ git.at = <<>> \/ Len(git.at) > 0
    BY DEF IndInv, TypeOK, IsOutput, Meant
  <2>2. kept # <<>> => Len(kept) > 0
    BY <2>1
  <2> QED BY <2>1, <2>2 DEF FillsCaps, IndInv, ListInv
<1> QED BY <1>1, Inductive, PTL

\* parse_porcelain_v2 judges by every line, and shows an entry of a dirty tree.
THEOREM AllIsJudged == Spec => []JudgesAll
<1>1. IndInv => JudgesAll
  <2> SUFFICES ASSUME IndInv, ended, git.parser = "status" PROVE JudgesAll
    BY DEF JudgesAll
  <2> DEFINE words == {git.tokens[k].word : k \in 1 .. Len(git.tokens)}
  <2>1. /\ conflicted <=> words \cap Unmerged # {}
        /\ detached <=> "detached" \in words
        /\ changed <=> words \cap Changes # {}
        /\ conflicted \/ changed => kept # <<>>
    BY DEF IndInv, LineInv
  <2>2. "detached" \notin Unmerged \cup Changes /\ Unmerged \cap Changes = {}
    BY DEF Unmerged, Changes
  <2>3. words \cap (Unmerged \cup {"detached"}) = {} <=> ~conflicted /\ ~detached
    BY <2>1
  <2> HIDE DEF words
  <2>4. /\ State = "conflicted" <=> conflicted
        /\ State = "detached" <=> detached /\ ~conflicted
        /\ State = "dirty" <=> changed /\ ~detached /\ ~conflicted
    BY DEF State
  <2>5. /\ State = "conflicted" <=> words \cap Unmerged # {}
        /\ State = "detached" <=> "detached" \in words /\ words \cap Unmerged = {}
        /\ State = "dirty" <=> words \cap Changes # {} /\ words \cap (Unmerged \cup {"detached"}) = {}
        /\ State \in {"dirty", "conflicted"} => kept # <<>>
    BY <2>1, <2>3, <2>4
  <2> QED BY <2>5 DEF JudgesAll, words
<1> QED BY <1>1, Inductive, PTL
=============================================================================
