SPECIFICATION Spec
CONSTANTS
  NoFile = NoFile
  Garbage = Garbage
  Unread = Unread
  a1 = a1
  a2 = a2
  c1 = c1
  l1 = l1
  here = here
  there = there
  Acquirers = {a1, a2}
  Checkers = {c1}
  Listers = {l1}
  Host <- TwoHosts
  Offset <- Skewed
  TTL = 1
  MaxAge = 2
  StartGarbage = FALSE
  StuckGarbage = FALSE
  CanCrash = TRUE
  IOFaults = TRUE
  ReadFaults = TRUE
INVARIANTS IndInv Exclusion ExclusiveUntilCondemned LossCause StagingCleaned
