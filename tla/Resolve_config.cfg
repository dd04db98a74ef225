SPECIFICATION Spec
CONSTANTS
  Names = {"stable", "next"}
  Urls = {"u1", "u2"}
  Shipped <- MCShipped
  Saved <- MCSaved
  Clients = {c1, c2}
  Ops <- MCOps
  Layers = {l1, l2, l3}
  Homeless = {l3}
  WrittenBy <- MCWrittenBy
  ThisVersion <- MCThisVersion
  Faults = {"crash", "disk", "ostree", "link", "rebuild", "bus"}
  MaxFaults = 2
  HostArch = "x86_64"
  MaxPart = 99
  Locals <- MCLocals
  Asked <- MCAsked
  Records <- MCRecords
  Files <- MCFiles
  Slow <- MCSlow
  MaxAsks = 1
INVARIANTS ConfigKept VersionsChosen
PROPERTIES  PulledWhereFound
SYMMETRY Symmetry
CHECK_DEADLOCK FALSE
