SPECIFICATION FairSpec
CONSTANTS
  Runs = {1, 2}
  Struck = {1}
  MaxPacks = 2
  Faults = {"kill", "signal", "io", "gen"}
INVARIANTS PackTells  StaysMounted
PROPERTIES RunEnds
CHECK_DEADLOCK FALSE
