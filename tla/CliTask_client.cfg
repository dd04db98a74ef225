SPECIFICATION FairSpec
CONSTANTS
  Commands = {"install", "file", "upgrade", "uninstall", "search", "prune"}
  Notifiers = {"terminal", "dbus", "dummy"}
  Faults = {"signal", "kill", "stop", "cancel", "reply"}
INVARIANTS ExitCodeTells LeavesClean
PROPERTIES ConsentIsOwn NobodyWaits
CHECK_DEADLOCK FALSE
