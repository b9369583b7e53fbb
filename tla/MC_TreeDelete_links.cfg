\* The tree holds a link to a directory outside it; every APR call may fail
\* and another process may remove or create one entry.
CONSTANTS
  Nodes <- MCNodes
  Root = "root"
  Parent <- MCParent
  Kind <- MCKind
  Target <- MCTarget
  InnerClearEvery = 2
  MiddleClearEvery = 2
  Faults <- AllFaults
  Races = {"remove", "create"}
  MaxRaces = 1
  IntBits = 8
  MaxGen = 40
SPECIFICATION Spec
\* The C function returns: the final state has no successor.
CHECK_DEADLOCK FALSE
INVARIANTS
  NoDeletionOutsideTree
