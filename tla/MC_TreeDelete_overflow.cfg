\* A directory of ten files with allocation_counter scaled to a 4-bit int
\* and the inner clear to every 3rd allocation: as with 32 bits and 1000,
\* the width is not a multiple of the period, and the count runs through
\* INT_MAX within one call.  No failure, no race.
CONSTANTS
  Nodes <- MCFlatNodes
  Root = "root"
  Parent <- MCFlatParent
  Kind <- MCFlatKind
  Target <- MCFlatTarget
  InnerClearEvery = 3
  MiddleClearEvery = 3
  Faults = {}
  Races = {}
  MaxRaces = 0
  IntBits = 4
  MaxGen = 40
SPECIFICATION Spec
\* The C function returns: the final state has no successor.
CHECK_DEADLOCK FALSE
INVARIANT
  InnerArenaBounded
