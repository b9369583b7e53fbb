-------------------------- MODULE MC_BufferedFile --------------------------
(* A three-byte file read through a two-byte buffer. *)
EXTENDS BufferedFile

MCContent == <<"x", "y", "z">>

MCOffsets == {-1, 0, 1}
=============================================================================
