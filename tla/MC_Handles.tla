----------------------------- MODULE MC_Handles -----------------------------
EXTENDS Handles

\* A directory with its two symbolic entries and two real ones.
MCEntries == {".", "..", "a", "b"}

AllFaults == {"pool_create", "open", "read", "new_object"}

\* The letters and modifiers of fopen, and one character fopen does not know.
MCChars == {"r", "w", "a", "+", "b", "x"}
=============================================================================
