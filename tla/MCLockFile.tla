----------------------------- MODULE MCLockFile -----------------------------
(***************************************************************************)
(* Small instances of LockFile.  Values of the constants that a .cfg cannot *)
(* write; the .cfg of each run picks among them.                            *)
(***************************************************************************)
EXTENDS LockFile

CONSTANTS a1, a2, c1, l1, here, there

\* Everybody on one host and one clock.
OneHost == [p \in Proc |-> here]
NoSkew  == [p \in Proc |-> 0]

\* a2 and the processes that only look share a host whose clock is one tick
\* ahead of a1's: a2 ages the lock of a1 too much, a1 ages its lock too little.
TwoHosts == [p \in Proc |-> IF p = a1 THEN here ELSE there]
Skewed   == [p \in Proc |-> IF p = a1 THEN 0 ELSE 1]
============================================================================
