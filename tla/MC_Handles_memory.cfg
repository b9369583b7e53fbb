\* Lua-side life of a directory object and a file object, every APR
\* failure enabled.
CONSTANTS
  Entries <- MCEntries
  Faults <- AllFaults
  Chars <- MCChars
  MaxLen = 3
SPECIFICATION Spec
INVARIANT
  ObjectMemorySound
\* Both objects collected: the program has nothing left to call.
CHECK_DEADLOCK FALSE
