SPECIFICATION ContainerSpec
CONSTANTS
  Cmds = {q1}
  ReadOnly = {"layer"}
  Writable = {}
  Faults = {"kill", "io", "reuse", "nochildren"}
  Hosts <- AllHosts
  MaxSkips = 2
INVARIANTS NoOrphans StartIsSound MountsCompose
PROPERTIES RecordsTell EverythingEnds
CHECK_DEADLOCK FALSE
