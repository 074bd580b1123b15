SPECIFICATION Spec
CONSTANTS
  Files <- MCFiles
  Root = "main"
  Projects <- MCProjects
  Edited = {"a", "b"}
  MaxTime = 2
  MaxStarts = 2
INVARIANT ModulesSound
PROPERTIES
  ChangeReachesImporters
  StopReturns
CHECK_DEADLOCK FALSE
