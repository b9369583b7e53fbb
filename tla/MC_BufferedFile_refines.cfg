\* The same calls, checked against Lua's file cursor (FileCursor).
CONSTANTS
  Content <- MCContent
  BufSize = 2
  MaxRead = 2
  Offsets <- MCOffsets
  MaxPos = 4
SPECIFICATION Spec
PROPERTIES
  ImplementsFileCursor
