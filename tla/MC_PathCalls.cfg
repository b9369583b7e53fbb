\* Every path wrapper called with every pair of Lua arguments.
CONSTANTS
  Paths <- MCPaths
  Parent <- MCParent
  Blocks = {"x", "y"}
  DiskBlocks = 5
  InitNode <- MCInitNode
  InitData <- MCInitData
  Calls <- MCAllCalls
  AttrKeys <- MCAttrKeys
  NonString = NonString
SPECIFICATION Spec
INVARIANT
  CallKeepsDocumentedContract
\* A process killed in a call calls nothing more.
CHECK_DEADLOCK FALSE
