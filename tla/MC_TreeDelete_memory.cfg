\* A directory with seven entries (with "." and "..") and no failures or races.
CONSTANTS
  Nodes <- MCNodes
  Root = "root"
  Parent <- MCParent
  Kind <- MCKind
  Target <- MCTarget
  InnerClearEvery = 2
  MiddleClearEvery = 2
  Faults = {}
  Races = {}
  MaxRaces = 0
  IntBits = 8
  MaxGen = 40
SPECIFICATION Spec
\* The C function returns: the final state has no successor.
CHECK_DEADLOCK FALSE
INVARIANTS
  ScratchArenasBounded
