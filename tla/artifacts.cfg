SPECIFICATION ASpec
CONSTANTS
  Tokens <- MCTokens
  Numerals <- MCNumerals
  Documents <- MCDocuments
  InitIds <- MCInitIds
  InitDirs <- MCInitDirs
  Output <- MCOutput
  UserPaths <- MCUserPaths
  MaxCommands = 2
  MaxEdits = 1
INVARIANTS
  ExistingKept
  WrittenAsListed
  FilesAccountedFor
  RefusedIsInert
  ScaffoldIsComplete
CHECK_DEADLOCK FALSE
