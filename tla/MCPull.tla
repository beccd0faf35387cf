-------------------------------- MODULE MCPull --------------------------------
(***************************************************************************)
(* Small instances of Pull.                                                *)
(***************************************************************************)
EXTENDS Pull, TLC

CONSTANTS p1, p2, p3, r1, r2

LockLeft == [r \in Repo |-> IF r = r1 THEN p3 ELSE None]

OneJob == [p \in Puller |-> 0]
==============================================================================
