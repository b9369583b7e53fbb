---------------------------- MODULE BufferedFile ----------------------------
(***************************************************************************)
(* A file opened by apr.file_open for reading, read through its buffer     *)
(* and repositioned by file:seek (file_read and file_seek in             *)
(* src/src/io_file.c).  `os' is the offset of the APR file descriptor;    *)
(* the buffer holds `data', of which buf.index bytes were consumed and    *)
(* buf.limit are valid.  read_buffer itself lives in buffer.c, outside    *)
(* src/, and is modelled from the spec (section 4.2): it serves bytes     *)
(* from the buffer and, when too few are left, moves the unread ones to   *)
(* the front and refills the rest from the descriptor.                     *)
(***************************************************************************)
EXTENDS Integers, Sequences

CONSTANTS
  Content,  \* the bytes of the file
  BufSize,  \* the capacity of the buffer
  MaxRead,  \* the largest n of file:read(n) explored
  Offsets,  \* the offsets passed to file:seek
  MaxPos    \* seeks are explored up to this file position

ASSUME BufSize \in Nat \ {0} /\ MaxRead \in 1..BufSize /\ Offsets \subseteq Int

VARIABLES os, buf, call, result

vars == <<os, buf, call, result>>

Cursor == INSTANCE FileCursor WITH cursor <- os - buf.limit + buf.index

MinOf(a, b) == IF a < b THEN a ELSE b

\* Lines 281-294: file_open creates the buffer empty; the descriptor is at 0.
Init ==
  /\ os = 0
  /\ buf = [index |-> 0, limit |-> 0, data |-> <<>>]
  /\ call = <<"open">> /\ result = Cursor!Answer("none", <<>>)

\* read_buffer(L, &file->buffer) for the format n (spec_modelled): if fewer
\* than n unread bytes are buffered, keep the unread ones and append what
\* apr_file_read returns from the descriptor's offset, up to BufSize.
Refilled(n) ==
  LET unread == SubSeq(buf.data, buf.index + 1, buf.limit)
      fresh  == SubSeq(Content, os + 1,
                       MinOf(os + BufSize - Len(unread), Len(Content)))
  IN IF Len(unread) >= n THEN [data |-> buf.data, from |-> buf.index, got |-> 0]
                         ELSE [data |-> unread \o fresh, from |-> 0, got |-> Len(fresh)]

\* Lines 346-350: file:read(n).
Read(n) ==
  LET r     == Refilled(n)
      k     == MinOf(n, Len(r.data) - r.from)
  IN /\ os' = os + r.got
     /\ buf' = [index |-> r.from + k, limit |-> Len(r.data), data |-> r.data]
     /\ call' = <<"read", n>>
     /\ result' = IF k = 0 THEN Cursor!Answer("nil", <<>>)
                   ELSE Cursor!Answer("bytes", SubSeq(r.data, r.from + 1, r.from + k))

\* Fault: the base of a 'cur' seek taken from the descriptor, end_of_buf.
CurBaseNaive == os

\* Lines 415-421: the base of a 'cur' seek is the position of the next
\* buffered byte, start_of_buf + index.
CurBase == os - buf.limit + buf.index

\* Fault: the upper bound of line 429 left out.
InWindowNoUpperBound(t, start) == t >= start

\* Line 429: the new offset lies in the buffered window.
InWindow(t, start) == t >= start /\ t <= os

\* Fault: the status check after the seek of line 424 left out.
RefusedNever(t) == FALSE

\* Lines 424-426: apr_file_seek fails, the descriptor refusing a
\* negative offset, and file:seek returns nil, msg.
Refused(t) == t < 0

\* Lines 396-439: file:seek(whence, offset).  The 'cur' seek becomes an
\* APR_SET seek to CurBase + offset; every seek is then issued to the
\* descriptor, which refuses a negative offset (lines 424-426).  If the
\* new offset lies in the window the buffer is kept and re-indexed,
\* otherwise it is emptied.
Seek(whence, offset) ==
  LET start == os - buf.limit
      t     == CASE whence = "set" -> offset
                 [] whence = "cur" -> CurBase + offset
                 [] whence = "end" -> Len(Content) + offset
  IN /\ t <= MaxPos
     /\ call' = <<"seek", whence, offset>>
     /\ IF Refused(t)
          THEN result' = Cursor!Answer("error", <<>>) /\ UNCHANGED <<os, buf>>
          ELSE /\ os' = t
               /\ buf' = IF InWindow(t, start)
                           THEN [buf EXCEPT !.index = t - start]
                           ELSE [index |-> 0, limit |-> 0, data |-> <<>>]
               /\ result' = Cursor!Answer("pos", <<t>>)

Next ==
  \/ \E n \in 1..MaxRead : Read(n)
  \/ \E w \in Cursor!Bases, o \in Offsets : Seek(w, o)

Spec == Init /\ [][Next]_vars

-----------------------------------------------------------------------------
Bytes == {Content[i] : i \in DOMAIN Content}

TypeOK ==
  /\ os \in Nat
  /\ buf.index \in Nat /\ buf.limit \in Nat /\ buf.data \in Seq(Bytes)
  /\ result.tag \in {"none", "nil", "error", "pos", "bytes"}
  /\ result.val \in IF result.tag = "pos" THEN Seq(Nat) ELSE Seq(Bytes)

\* The index never leaves the valid bytes and the valid bytes never exceed
\* the buffer: a seek only re-indexes into [start_of_buf, end_of_buf]
\* (line 429) and a refill never reads past the free space.
WindowWithinBuffer ==
  /\ buf.index <= buf.limit /\ buf.limit <= BufSize
  /\ Len(buf.data) = buf.limit

\* Spec section 3: the buffer holds exactly the limit bytes of the file
\* that end at the descriptor's offset.
Consistent ==
  /\ buf.limit <= os
  /\ buf.data = SubSeq(Content, os - buf.limit + 1, MinOf(os, Len(Content)))

\* What Lua's io returns for the call c at position p.
LuaResult(c, p) ==
  LET bytes  == Cursor!BytesAt(p, c[2])
      target == Cursor!SeekTarget(p, c[2], c[3])
  IN CASE c[1] = "read" /\ bytes = <<>> -> Cursor!Answer("nil", <<>>)
       [] c[1] = "read"                 -> Cursor!Answer("bytes", bytes)
       [] target < 0                    -> Cursor!Answer("error", <<>>)
       [] OTHER                         -> Cursor!Answer("pos", <<target>>)

\* From a consistent window, read and seek answer as Lua's io does at the
\* position start_of_buf + index: the 'cur' translation of lines 418-421
\* and the refill of the buffer (spec section 4.2, steps 1-3).
ConsistentWindowAnswersLikeLua ==
  [][Consistent => result' = LuaResult(call', CurBase)]_vars

\* file:read and file:seek implement Lua's file cursor, the cursor being
\* start_of_buf + index = os - limit + index (spec section 4.2, step 3).
ImplementsFileCursor == Cursor!Spec
=============================================================================
