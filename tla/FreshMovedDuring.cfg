SPECIFICATION Spec
CONSTANTS
  Absent = Absent
  s1 = s1
  s2 = s2
  Repo = {1, 2}
  D <- Pair
  Session = {s1}
  MaxHead = 1
  Consumes = "sources"
  Flags <- Plain
  MoveWhile = "any"
  Returns = FALSE
  DryRuns = FALSE
  Blind = FALSE
  Kills = FALSE
  Views = FALSE
INVARIANTS FreshIsCurrentAtRest
