------------------------------ MODULE FileMode ------------------------------
(***************************************************************************)
(* The mode string of apr.file_open (lua_apr_file_open, lines 253-278 of   *)
(* src/src/io_file.c) and the APR open flags it becomes.  The parser reads *)
(* a letter r, w or a, then an optional '+', an optional 'b' and another   *)
(* optional '+'; a file opened without APR_FOPEN_WRITE is opened for       *)
(* reading.  Handles uses Flags for the file objects it opens.             *)
(***************************************************************************)
EXTENDS Naturals, Sequences, Functions

CONSTANTS
  Chars,   \* the characters mode strings are made of
  MaxLen   \* the longest mode string explored

\* Every mode string Lua can pass, up to MaxLen characters.
Modes == UNION {[1..n -> Chars] : n \in 0..MaxLen}

\* *mode after i - 1 increments: the NUL terminator past the end.
At(m, i) == IF i <= Len(m) THEN m[i] ELSE "NUL"

\* Fault: the second '+' test of lines 263, 268 and 273 left out.
SuffixNoTrailingPlus(m, extra) ==
  LET plus == At(m, 2) = "+"
      bin  == At(m, IF plus THEN 3 ELSE 2) = "b"
  IN (IF plus THEN extra ELSE {}) \cup (IF bin THEN {"BINARY"} ELSE {})

\* Lines 260-263 (and 265-268, 270-273) after the letter: a '+' adds the
\* other access, a 'b' APR_FOPEN_BINARY, and a '+' after the 'b' the
\* other access again.
Suffix(m, extra) ==
  LET plus1 == At(m, 2) = "+"
      p2    == IF plus1 THEN 3 ELSE 2
      bin   == At(m, p2) = "b"
      plus2 == At(m, IF bin THEN p2 + 1 ELSE p2) = "+"
  IN (IF plus1 \/ plus2 THEN extra ELSE {}) \cup (IF bin THEN {"BINARY"} ELSE {})

\* Fault: the default of lines 276-278 left out.
WithDefaultNone(f) == f

\* Lines 276-278: "Default to read mode just like Lua".
WithDefault(f) == IF "WRITE" \notin f THEN f \cup {"READ"} ELSE f

\* Lines 253-278: the flags for the mode string m.
Flags(m) ==
  WithDefault(CASE At(m, 1) = "r" -> {"READ"} \cup Suffix(m, {"WRITE"})
                [] At(m, 1) = "w" -> {"WRITE", "CREATE", "TRUNCATE"} \cup Suffix(m, {"READ"})
                [] At(m, 1) = "a" -> {"WRITE", "CREATE", "APPEND"} \cup Suffix(m, {"READ"})
                [] OTHER          -> {})

-----------------------------------------------------------------------------
(* The reference: the modes of fopen in the C standard (7.21.5.3), which   *)
(* lines 241-242 say the mode string is exactly, and what each one means.  *)
\* A letter, then "", "b", "+", "+b" or "b+".
FopenModes ==
  {<<l>> \o s : l \in {"r", "w", "a"},
                s \in {<<>>, <<"b">>, <<"+">>, <<"+", "b">>, <<"b", "+">>}}

FopenFlags(m) ==
  LET base == CASE m[1] = "r" -> {"READ"}
                [] m[1] = "w" -> {"WRITE", "CREATE", "TRUNCATE"}
                [] m[1] = "a" -> {"WRITE", "CREATE", "APPEND"}
  IN base \cup (IF "+" \in Range(m) THEN {"READ", "WRITE"} ELSE {})
          \cup (IF "b" \in Range(m) THEN {"BINARY"} ELSE {})

=============================================================================
