----------------------------- MODULE WriteBehind -----------------------------
(***************************************************************************)
(* A file opened by apr.file_open for writing, written through the buffer  *)
(* of the file object (file_write, file_flush, file_seek, file_close in    *)
(* src/src/io_file.c).  The buffer holds write-behind data: limit bytes    *)
(* not yet written, to go to the descriptor's offset `os'; index is the    *)
(* cursor within them (spec section 3).  write_buffer and free_buffer live *)
(* in buffer.c, outside src/, and are modelled from spec sections 3 and    *)
(* 4.2: a write appends to the buffer and a full buffer is written out.    *)
(* `want' and `cursor' are the file and the position Lua's io would have   *)
(* after the same calls: a history of what the program asked for.         *)
(***************************************************************************)
EXTENDS Integers, Sequences

CONSTANTS
  Bytes,    \* the bytes the program writes
  BufSize,  \* the capacity of the buffer
  Offsets,  \* the offsets passed to file:seek
  MaxPos    \* files are explored up to this length

ASSUME BufSize \in Nat \ {0} /\ Offsets \subseteq Int

VARIABLES disk, os, buf, want, cursor, call, open

vars == <<disk, os, buf, want, cursor, call, open>>

Empty == [index |-> 0, limit |-> 0, data |-> <<>>]

MaxOf(a, b) == IF a > b THEN a ELSE b

\* The file d with the bytes s written at offset p; a gap reads as zeros.
Overlay(d, p, s) ==
  [i \in 1..MaxOf(Len(d), p + Len(s)) |->
     IF i > p /\ i <= p + Len(s) THEN s[i - p]
     ELSE IF i <= Len(d) THEN d[i] ELSE "0"]

\* Lines 280-294: apr.file_open(path, "w") truncates the file and starts
\* with an empty buffer.
Init ==
  /\ disk = <<>> /\ os = 0 /\ buf = Empty
  /\ want = <<>> /\ cursor = 0
  /\ call = "open" /\ open = TRUE

\* write_buffer (spec_modelled): the byte is appended to the pending ones;
\* a full buffer is written at the descriptor's offset and emptied.
Buffered(b) ==
  LET data == Append(buf.data, b) IN
  IF Len(data) = BufSize
    THEN [disk |-> Overlay(disk, os, data), os |-> os + BufSize, buf |-> Empty]
    ELSE [disk |-> disk, os |-> os, buf |-> [index |-> Len(data), limit |-> Len(data), data |-> data]]

\* Lines 364-368: file:write(b).  Writing behind a cursor moved back into
\* the pending bytes (index < limit) is left to buffer.c and not explored.
Write(b) ==
  /\ open /\ buf.index = buf.limit /\ cursor < MaxPos
  /\ LET r == Buffered(b) IN disk' = r.disk /\ os' = r.os /\ buf' = r.buf
  /\ want' = Overlay(want, cursor, <<b>>) /\ cursor' = cursor + 1
  /\ call' = "write"
  /\ UNCHANGED open

\* Lines 447-455: file:flush() calls apr_file_flush on the descriptor,
\* which was opened without APR_FOPEN_BUFFERED and has nothing of its own
\* to flush; the file object's buffer is not touched.
Flush ==
  /\ open
  /\ call' = "flush"
  /\ UNCHANGED <<disk, os, buf, want, cursor, open>>

\* Fault: the status check after the seek of line 424 left out.
RefusedNever(t) == FALSE

\* Lines 424-426: the descriptor refuses a negative offset.
Refused(t) == t < 0

\* Lines 396-439: file:seek(whence, offset), as for a read buffer: the
\* window [os - limit, os] and the 'cur' base os - limit + index.  Lua's
\* io writes the pending bytes out before it moves the cursor.
Seek(whence, offset) ==
  LET start == os - buf.limit
      t     == CASE whence = "set" -> offset
                 [] whence = "cur" -> start + buf.index + offset
                 [] whence = "end" -> Len(disk) + offset
      lua   == CASE whence = "set" -> offset
                 [] whence = "cur" -> cursor + offset
                 [] whence = "end" -> Len(want) + offset
  IN /\ open /\ t <= MaxPos
     /\ call' = "seek"
     /\ IF Refused(t)
          THEN UNCHANGED <<os, buf>>
          ELSE /\ os' = t
               /\ buf' = IF t >= start /\ t <= os
                           THEN [buf EXCEPT !.index = t - start]
                           ELSE Empty
     /\ cursor' = IF lua < 0 THEN cursor ELSE lua
     /\ UNCHANGED <<disk, want, open>>

\* free_buffer (spec_modelled): the buffer's memory is released.
Freed == Empty

\* Lines 523-532 and 542-552: file:close() closes the descriptor, destroys
\* the pool and frees the buffer.
Close ==
  /\ open
  /\ open' = FALSE /\ buf' = Freed /\ call' = "close"
  /\ UNCHANGED <<disk, os, want, cursor>>

Next ==
  \/ \E b \in Bytes : Write(b)
  \/ Flush
  \/ \E w \in {"set", "cur", "end"}, o \in Offsets : Seek(w, o)
  \/ Close

Spec == Init /\ [][Next]_vars

-----------------------------------------------------------------------------
TypeOK ==
  /\ disk \in Seq(Bytes \cup {"0"}) /\ want \in Seq(Bytes \cup {"0"})
  /\ os \in Nat /\ cursor \in Nat
  /\ buf.index \in 0..buf.limit /\ buf.data \in Seq(Bytes) /\ Len(buf.data) = buf.limit
  /\ call \in {"open", "write", "flush", "seek", "close"}
  /\ open \in BOOLEAN

\* The bytes on the file are the bytes the program wrote there.
DiskHoldsWrites == \A i \in DOMAIN disk : i \in DOMAIN want /\ disk[i] = want[i]

\* The file agrees with what Lua's io gives after the same calls: no byte
\* is ever put where the program did not write it, whatever file_seek
\* (lines 396-439) does with the pending bytes, and every written byte is
\* on the file once file:flush() returns (line 443: it "saves any written
\* data to @file") and once file:close() has run file_close_real (lines
\* 542-552).
FileAgreesWithLuaIo ==
  /\ DiskHoldsWrites
  /\ call \in {"flush", "close"} => disk = want
=============================================================================
