SPECIFICATION Spec
CONSTANTS
  Absent = Absent
  s1 = s1
  s2 = s2
  Repo = {1, 2}
  D <- Pair
  Session = {s1, s2}
  MaxHead = 1
  Consumes = "artifacts"
  Flags <- WithDeps
  MoveWhile = "idle"
  Returns = FALSE
  DryRuns = FALSE
  Blind = TRUE
  Kills = TRUE
  Views = TRUE
INVARIANTS IndInv FreshWhereRead StatusTruthful
