------------------------------- MODULE MCGate -------------------------------
(***************************************************************************)
(* Small instances of Gate.                                                *)
(***************************************************************************)
EXTENDS Gate

InOrder == [r \in Repo |-> r]

On(edges) == [r \in Repo |-> {d \in Repo : <<r, d>> \in edges}]

\* A diamond, one with a shortcut whose names run against the order, a chain
\* beside a repo of its own, and a repo that all depend on.
TheGraphs ==
  {On({<<2, 1>>, <<3, 1>>, <<4, 2>>, <<4, 3>>}),
   On({<<3, 4>>, <<2, 3>>, <<1, 2>>, <<1, 4>>}),
   On({<<2, 1>>, <<3, 2>>}),
   On({<<1, 2>>, <<3, 2>>, <<4, 2>>})}

TheTree ==
  {{}, {"changed"}, {"changed", "detached"}, {"conflicted", "detached"}, {"unreadable"}}

\* At most two repos are not clean.
TheTrees == {T \in [Repo -> TheTree] : Cardinality({r \in Repo : T[r] # {}}) <= 2}

TheTargets == {Repo, {1, 3}}
=============================================================================
