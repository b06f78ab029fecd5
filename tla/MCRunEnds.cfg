SPECIFICATION Spec
CONSTANTS
  o1 = o1
  person = person
  outsider = outsider
  Launchers <- OneLauncher
  People <- MCPeople
  Outsiders <- NoOutsiders
  Holders <- MCPeople
  Projects = {"A", "B"}
  Tasks = {1, 2}
  TaskRows <- EndRows
  Here <- HomeHere
  Modes = {"run", "step", "spec", "plan", "research"}
  Trees = {"t0", "t1"}
  Details = {"d1", "d2"}
  MaxSteps = 0
  MaxCost = 0
  StepBudget = 0
  UsedCalls = {"start", "end", "status", "decide", "stop", "interrupt", "fault"}
  MaxActs = 1
  MaxCalls = 1
  MaxSessions = 3
CHECK_DEADLOCK FALSE
PROPERTIES
  RunsEndCleanly
