SPECIFICATION Spec
CONSTANTS
  Versions = {1, 2}
  Kinds = {"install", "update", "uninstall", "layer", "uab"}
  UabModules = {{"binary"}}
  Forces = {TRUE, FALSE}
  MayFail = TRUE
  MayCancel = TRUE
  Others = {0, 1}
  Reports = {2}
INVARIANTS ResultIsTrue UpgradeKeepsAVersion PercentageBounded
PROPERTIES LauncherKept JobSparesOthers
CHECK_DEADLOCK FALSE
