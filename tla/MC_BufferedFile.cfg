\* Reads of one or two bytes and seeks by -1, 0 or +1 from each base, on a
\* three-byte file with a two-byte buffer, positions up to one past the end.
CONSTANTS
  Content <- MCContent
  BufSize = 2
  MaxRead = 2
  Offsets <- MCOffsets
  MaxPos = 4
SPECIFICATION Spec
INVARIANTS
  TypeOK
  WindowWithinBuffer
PROPERTIES
  ConsistentWindowAnswersLikeLua
