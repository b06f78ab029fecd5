SPECIFICATION Spec
CONSTANTS
  agent = agent
  person = person
  Procs <- MCProcs
  Agents <- MCAgents
  Deciders <- MCDeciders
  Tasks = {1}
  Families <- MCFamilies
CHECK_DEADLOCK FALSE
INVARIANTS
  TrustIsTold
  TrustIsAPersonsCall
  MadeOnce
