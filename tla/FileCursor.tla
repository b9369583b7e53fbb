----------------------------- MODULE FileCursor -----------------------------
(***************************************************************************)
(* What file:read(n) and file:seek(whence, offset) promise (the doc       *)
(* comments of file_read and file_seek in src/src/io_file.c, which follow *)
(* Lua's io library): a file is a fixed sequence of bytes and a cursor.    *)
(* read(n) returns up to n bytes at the cursor, or nil at end of file;    *)
(* seek moves the cursor to base + offset and returns it, and fails       *)
(* without moving it when that position would be negative.                 *)
(***************************************************************************)
EXTENDS Integers, Sequences

CONSTANTS Content, MaxRead, Offsets

VARIABLES
  cursor,  \* the position the next read starts at
  call,    \* the last call made and its arguments
  result   \* what the last call returned

Bases == {"set", "cur", "end"}

\* The bytes read(n) returns at position p (empty at end of file).
BytesAt(p, n) == SubSeq(Content, p + 1, IF p + n < Len(Content) THEN p + n ELSE Len(Content))

\* The position seek(whence, offset) asks for at position p.
SeekTarget(p, whence, offset) ==
  offset + CASE whence = "set" -> 0 [] whence = "cur" -> p [] whence = "end" -> Len(Content)

\* A result: a tag and the bytes read or the position returned.
Answer(tag, val) == [tag |-> tag, val |-> val]

Init == cursor = 0 /\ call = <<"open">> /\ result = Answer("none", <<>>)

Read(n) ==
  LET bytes == BytesAt(cursor, n) IN
  /\ call' = <<"read", n>>
  /\ cursor' = cursor + Len(bytes)
  /\ result' = IF bytes = <<>> THEN Answer("nil", <<>>) ELSE Answer("bytes", bytes)

Seek(whence, offset) ==
  LET t == SeekTarget(cursor, whence, offset) IN
  /\ call' = <<"seek", whence, offset>>
  /\ IF t < 0 THEN result' = Answer("error", <<>>) /\ UNCHANGED cursor
              ELSE cursor' = t /\ result' = Answer("pos", <<t>>)

Next == \/ \E n \in 1..MaxRead : Read(n)
        \/ \E w \in Bases, o \in Offsets : Seek(w, o)

Spec == Init /\ [][Next]_<<cursor, call, result>>
=============================================================================
