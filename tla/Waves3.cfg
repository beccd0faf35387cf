SPECIFICATION FairSpec
CONSTANTS
  Repo = {1, 2, 3}
  Graphs <- AllGraphs
  Rank <- InOrder
  Jobs = {0, 2}
  Modes = {TRUE, FALSE}
INVARIANTS IndInv TallyAgrees
PROPERTIES Ends ImplementsPromise
CHECK_DEADLOCK FALSE
