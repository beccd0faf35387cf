SPECIFICATION FairSpec
CONSTANTS
  None = None
  p1 = p1
  p2 = p2
  p3 = p3
  r1 = r1
  r2 = r2
  Puller = {p1, p2, p3}
  Repo = {r1, r2}
  Jobs <- OneJob
  Busy = {r1}
  Misjudged = {r2}
  Left <- LockLeft
  MaxUp = 2
  MaxOwn = 1
  Faults = TRUE
INVARIANT IndInv
PROPERTIES LineIsTrue BrokenOnlyInRace PullEnds
