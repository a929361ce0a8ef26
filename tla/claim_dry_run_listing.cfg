SPECIFICATION ASpec
CONSTANTS
  Tokens <- MCTokens
  Numerals <- MCNumerals
  Documents <- MCDocuments
  InitIds <- MCInitIds
  InitDirs <- MCInitDirs
  Output <- MCOutput
  UserPaths <- MCUserPaths
  MaxCommands = 2
  MaxEdits = 1
INVARIANT ListedAreWritten
CHECK_DEADLOCK FALSE
