\* Two bytes to write, a buffer of two, files of up to three bytes: a full
\* buffer is written out twice and a seek can land inside or outside the
\* pending bytes.
CONSTANTS
  Bytes = {"p", "q"}
  BufSize = 2
  Offsets <- MCOffsets
  MaxPos = 3
SPECIFICATION Spec
INVARIANTS
  TypeOK
\* The file closed: nothing is left to call.
CHECK_DEADLOCK FALSE
