SPECIFICATION Spec
CONSTANTS
  p1 = p1
  p2 = p2
  Procs <- ProcsValue
  Items <- ItemsValue
  Specs <- SpecsValue
  Notes <- NotesValue
  Models = {"m1", "m2"}
  MaxText = 3
  Families <- FamiliesValue
  MaxKills = 2
CHECK_DEADLOCK FALSE
INVARIANTS
  SchemaIsWhole
  SearchIsCurrent
