SPECIFICATION Spec
CONSTANTS
  agent = agent
  person = person
  t1 = t1
  t2 = t2
  Procs <- MCProcs
  Agents <- MCAgents
  Holders <- MCHolders
  Trees <- MCTrees
  SameSecond = TRUE
  TaskRisks = {"low", "high"}
  TaskAutonomies = {"hotl"}
  RecordKinds = {"human_review", "test"}
  RecordStatuses = {"pass", "fail"}
  UsedStatuses = {"todo", "cancelled", "done"}
  Scenarios <- MCScenarios
SYMMETRY MCSymmetry
INVARIANTS
  TypeOK
  OnlyPeopleVouch
PROPERTIES
  ImplementsAtomic
