SPECIFICATION FairSpec
CONSTANTS
  NotSet = NotSet
  make = make
  test = test
  Repo = {1, 2, 3}
  Path <- ThePaths
  Name <- TheNames
  Within <- Nesting
  Rank <- InOrder
  Group = {1, 2}
  Command = {make, test}
  Entries <- TheEntries
  MaxEntries = 3
  Targetings <- TheTargetings
INVARIANTS IndInv MergeExact LoadedSound VerdictRight
PROPERTY LoadEnds
CHECK_DEADLOCK FALSE
