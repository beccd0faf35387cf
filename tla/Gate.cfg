SPECIFICATION FairSpec
CONSTANTS
  Repo = {1, 2, 3, 4}
  Rank <- InOrder
  Graphs <- TheGraphs
  Trees <- TheTrees
  Tree <- TheTree
  Targets <- TheTargets
  MaxEdits = 1
INVARIANTS IndInv ClosureExact VerdictSound ImpactSound FilterSound
PROPERTY GateEnds
CHECK_DEADLOCK FALSE
