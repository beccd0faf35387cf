------------------------------- MODULE MCWaves -------------------------------
(***************************************************************************)
(* Small instances of Waves.  Repos are numbers, so that their names have  *)
(* an order; every set of repos and every mode is tried by Init.           *)
(***************************************************************************)
EXTENDS Waves

InOrder == [r \in Repo |-> r]

\* Every graph; Init keeps the acyclic ones.
AllGraphs == Graph
==============================================================================
