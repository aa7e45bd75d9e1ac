CONSTANTS
  Files <- MCFiles
  Paths <- MCPaths
  Missing <- MCMissing
  Canonical <- MCCanonical
  Projects <- MCProjects
  MaxErrors = 3
  Sought <- MCSought
  SoughtNames <- MCSoughtNames
  Unseen <- MCUnseen
  Unnoticed <- MCUnnoticed
SPECIFICATION FSpec
INVARIANTS LoadedOnce EntriesWin MergedExactly NamesMean
PROPERTIES LoadFinishes RecoveryCovers
CHECK_DEADLOCK FALSE
