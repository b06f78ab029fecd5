SPECIFICATION Spec
CONSTANTS
  o1 = o1
  person = person
  outsider = outsider
  Launchers <- OneLauncher
  People <- MCPeople
  Outsiders <- MCOutsiders
  Holders <- MCPeople
  Projects = {"A", "B"}
  Tasks = {1, 2}
  TaskRows <- MCRows
  Here <- MCHere
  Modes = {"run", "research"}
  Trees = {"t0", "t1"}
  Details = {"d1"}
  MaxSteps = 2
  MaxCost = 1
  StepBudget = 1
  UsedCalls = {"start", "end", "status", "approve", "denied", "fault"}
  MaxActs = 1
  MaxCalls = 2
  MaxSessions = 3
CHECK_DEADLOCK FALSE
INVARIANTS
  RunsKeepTheirLimits
  SessionsInOrder
PROPERTIES
  ConfinedUntilAllowed
