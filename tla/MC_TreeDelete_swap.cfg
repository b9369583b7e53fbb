\* Another process replaces an empty subdirectory by a link to a directory
\* outside the tree while the call runs.
CONSTANTS
  Nodes <- MCNodes
  Root = "root"
  Parent <- MCParent
  Kind <- MCKind
  Target <- MCTarget
  InnerClearEvery = 2
  MiddleClearEvery = 2
  Faults = {}
  Races = {"swap"}
  MaxRaces = 1
  IntBits = 8
  MaxGen = 40
SPECIFICATION Spec
\* The C function returns: the final state has no successor.
CHECK_DEADLOCK FALSE
INVARIANTS
  NoDeletionOutsideTree
