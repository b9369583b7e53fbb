\* apr.dir_remove_recursive with every APR call allowed to fail and one
\* change of the tree by another process: a removal, a creation, or an
\* empty directory replaced by a symbolic link.
CONSTANTS
  Nodes <- MCNodes
  Root = "root"
  Parent <- MCParent
  Kind <- MCKind
  Target <- MCTarget
  InnerClearEvery = 2
  MiddleClearEvery = 2
  Faults <- AllFaults
  Races = {"remove", "create", "swap"}
  MaxRaces = 1
  IntBits = 8
  MaxGen = 40
SPECIFICATION Spec
\* The C function returns: the final state has no successor.
CHECK_DEADLOCK FALSE
INVARIANTS
  TypeOK
  CleanRunRemovesTree
  NoDanglingPath
  InnerArenaBounded
  ReleasedOnReturn
PROPERTIES
  Termination
