--------------------------- MODULE MC_WriteBehind ---------------------------
EXTENDS WriteBehind

\* Seek offsets one back, none and one ahead.
MCOffsets == {-1, 0, 1}
=============================================================================
