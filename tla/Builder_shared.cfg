SPECIFICATION BuildSpec
CONSTANTS
  MaxProcs = 2
  Given <- EveryCommand
  Mishaps = {"io", "kill"}
  RuntimeMain = "runtime"
  Publishes <- NewBases
INVARIANTS RepositorySound
PROPERTIES BuildTells
CHECK_DEADLOCK FALSE
