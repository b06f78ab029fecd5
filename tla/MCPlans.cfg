SPECIFICATION Spec
CONSTANTS
  agent = agent
  person = person
  s1 = s1
  s2 = s2
  x = x
  y = y
  i1 = i1
  i2 = i2
  w1 = w1
  w2 = w2
  Procs <- MCProcs
  Agents <- MCAgents
  Deciders <- MCHolders
  Specs <- MCSpecIds
  Texts <- MCTexts
  Refs <- MCRefs
  Wordings <- MCWording
  UsedCalls = {"propose", "revise", "edit", "approve", "reject", "spec"}
  MaxCalls = 7
SYMMETRY MCSymmetry
INVARIANTS
  TypeOK
  OneDraftPerSpec
  VersionsGrow
  CarriedOutOnce
  PlansRestOnApprovedText
