SPECIFICATION FairSpec
CONSTANTS
  Repo = {1, 2, 3, 4}
  Rank <- InOrder
  Graphs <- TheGraphs
  Trees <- TheTrees
  Tree <- TheTree
  Targets <- TheTargets
  MaxEdits = 0
INVARIANT AllUncommittedChecked
CHECK_DEADLOCK FALSE
