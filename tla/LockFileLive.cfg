SPECIFICATION FairSpec
CONSTANTS
  NoFile = NoFile
  Garbage = Garbage
  Unread = Unread
  a1 = a1
  a2 = a2
  c1 = c1
  l1 = l1
  here = here
  there = there
  Acquirers = {a1, a2}
  Checkers = {}
  Listers = {}
  Host <- TwoHosts
  Offset <- Skewed
  TTL = 1
  MaxAge = 3
  StartGarbage = TRUE
  StuckGarbage = FALSE
  CanCrash = TRUE
  IOFaults = FALSE
  ReadFaults = TRUE
PROPERTIES AcquireEnds OrphanReclaimed
