SPECIFICATION FairSpec
CONSTANTS
  Versions = {1, 2}
  Kinds = {"install", "layer", "uab"}
  UabModules = {{"binary"}, {"binary", "develop"}}
  Forces = {FALSE}
  MayFail = TRUE
  MayCancel = FALSE
  Others = {0}
  Reports = {}
PROPERTIES MarkedIsRemoved
CHECK_DEADLOCK FALSE
