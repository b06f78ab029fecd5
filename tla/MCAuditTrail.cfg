SPECIFICATION TrailSpec
CONSTANTS
  agent = agent
  person = person
  Processes <- MCProcs
  Agents <- MCAgents
  Holders <- MCPeople
  Stores = {"work", "copy"}
  Old = "work"
  Contents = {"a"}
  Roles = {"none"}
  OldUnhashed = {0, 1}
  OldHashed = {0, 2}
  OldRecords = {1}
  UsedCalls = {"log", "record", "enable", "rotate", "disable", "seal", "checkseal", "verify", "reseal", "export", "import"}
  MaxCalls = 3
INVARIANTS
  VerifyTellsTheTruth
  AlterationsAreFound
