----------------------------- MODULE MCFreshness -----------------------------
(***************************************************************************)
(* Small instances of Freshness.                                           *)
(***************************************************************************)
EXTENDS Freshness

CONSTANTS s1, s2

\* 3 depends on 2, 2 on 1: 1 is an upstream of 3 only through 2.
Chain == <<{}, {1}, {2}>>
\* 3 depends on 1 and 2.
Join == <<{}, {}, {1, 2}>>
\* 2 depends on 1.
Pair == <<{}, {1}>>

Plain      == {[deps |-> FALSE, dependents |-> FALSE]}
WithDeps   == {[deps |-> TRUE, dependents |-> FALSE]}
WithBoth   == {[deps |-> TRUE, dependents |-> TRUE]}
WithDepsToo == [deps : {TRUE}, dependents : BOOLEAN]

\* Bound: the repo at the top of Chain, which nobody consumes, moves to one
\* other commit at most.
TopMovesOnce == head[3] <= 1
==============================================================================
