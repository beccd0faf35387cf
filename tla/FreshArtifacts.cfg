SPECIFICATION Spec
CONSTANTS
  Absent = Absent
  s1 = s1
  s2 = s2
  Repo = {1, 2, 3}
  D <- Chain
  Session = {s1}
  MaxHead = 2
  Consumes = "artifacts"
  Flags <- WithDepsToo
  MoveWhile = "others"
  Returns = FALSE
  DryRuns = FALSE
  Blind = FALSE
  Kills = TRUE
  Views = FALSE
INVARIANTS IndInv FreshIsCurrent ConsumesCurrent DepsRunFreshens
CONSTRAINT TopMovesOnce
