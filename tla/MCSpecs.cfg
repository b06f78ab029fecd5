SPECIFICATION Spec
CONSTANTS
  agent = agent
  person = person
  s1 = s1
  s2 = s2
  x = x
  y = y
  Procs <- MCProcs
  Deciders <- MCDeciders
  Specs <- MCSpecIds
  Texts <- MCTexts
  MayCrash = TRUE
  UsedCalls = {"add", "approve", "supersede", "revise"}
  MaxCalls = 6
SYMMETRY MCSymmetry
INVARIANTS
  TypeOK
  HistoryIsWhole
  ApprovedTextIsVouched
PROPERTY ImplementsRows
