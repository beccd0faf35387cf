SPECIFICATION Spec
CONSTANTS
  Output <- Outputs
  MaxEntries = 3
INVARIANTS IndInv CountsAll FillsCaps JudgesAll
CHECK_DEADLOCK FALSE
