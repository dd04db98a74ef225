SPECIFICATION Spec
CONSTANTS
  Layers = {l1, l2}
  Faults = {"write", "short", "checkout", "rmdir", "crash", "upgrade"}
INVARIANTS ListedIsComplete AddedIsNew InstalledSurvives
PROPERTIES LayerStoreSpec
