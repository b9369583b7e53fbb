\* Lua-side life of a directory object and a file object, every APR
\* failure enabled, the file opened with every mode string of up to three
\* characters (the longest fopen modes, "r+b" and "rb+", have three).
CONSTANTS
  Entries <- MCEntries
  Faults <- AllFaults
  Chars <- MCChars
  MaxLen = 3
SPECIFICATION Spec
INVARIANTS
  TypeOK
  NoCallOnClosedHandle
  ModeMatchesFopen
\* Both objects collected: the program has nothing left to call.
CHECK_DEADLOCK FALSE
