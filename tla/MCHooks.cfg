SPECIFICATION Spec
CONSTANTS
  w1 = w1
  w2 = w2
  Windows <- MCWindows
  Lines = {"l1", "l2"}
  Trees = {"t1", "t2"}
  Families <- MCFamilies
CHECK_DEADLOCK FALSE
INVARIANTS
  CallsAreJudgedTruly
  CaptureIsFaithful
  HeldForStaleEvidence
