SPECIFICATION ShellSpec
CONSTANTS
    ItemCount = 2
    LineCap = 1
    MaxLines = 2
    MaxCommits = 2
    Setups <- SetupsValue
CHECK_DEADLOCK FALSE
INVARIANTS
  ScreensAgree
  RunsAreKept
PROPERTIES
  NothingMovesUnseen
