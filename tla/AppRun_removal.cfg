SPECIFICATION FairSpec
CONSTANTS
  MaxProcs = 2
  Versions = {1, 2}
  Faults = {"kill", "io", "reuse"}
INVARIANTS NoAppLosesVersion
PROPERTIES LeftOnlyByKill MarkedGoesAway
CHECK_DEADLOCK FALSE
