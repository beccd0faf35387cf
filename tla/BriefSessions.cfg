SPECIFICATION Spec
CONSTANTS
  None = None
  s1 = s1
  s2 = s2
  Session = {s1, s2}
  MaxCommit = 2
  Modes <- AllModes
  Refs = {0}
  Sidesteps = FALSE
  Gc = TRUE
  Faults = TRUE
  KillAt <- BeforeRecording
SYMMETRY AnySession
INVARIANTS IndInv NoneSkipped ChangedHidesNone
