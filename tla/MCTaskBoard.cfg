SPECIFICATION BoardSpec
CONSTANTS
  agent = agent
  person = person
  Procs <- MCProcs
  Agents <- MCAgents
  Deciders <- MCDeciders
  Dirs <- MCDirs
  Real <- MCReal
  Home <- HomeDir
  Names = {"a", "b"}
  Rates = {50, 95}
  Milestones = {"m1"}
  Families <- MCFamilies
CHECK_DEADLOCK FALSE
INVARIANTS
  BoardInOrder
  LevelsAreGiven
PROPERTIES
  UpdatesAreWhole
  DirectoriesMeanProjects
