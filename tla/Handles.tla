------------------------------ MODULE Handles ------------------------------
(***************************************************************************)
(* The life of one directory object (lua_apr_dir_open, checkdir and the   *)
(* directory methods in src/src/io_dir.c) and one file object             *)
(* (lua_apr_file_open, file_check, file_close_real and the file methods   *)
(* in src/src/io_file.c) as Lua drives them: a method may be called on an  *)
(* object as long as the program holds it, and the garbage collector      *)
(* runs __gc once the program drops it.  Each object owns a root APR pool *)
(* and an APR handle; `closes' counts the APR close calls on the handle,  *)
(* `misuse' records an APR call on a handle that is not open.             *)
(***************************************************************************)
EXTENDS Naturals, FileMode

CONSTANTS
  Entries,  \* the names in the directory, "." and ".." among them
  Faults    \* the calls that may fail: "pool_create", "open", "read" (APR)
            \* and "new_object" (a Lua memory error raised by the allocation)

Symbolic == {".", ".."}

ASSUME Symbolic \subseteq Entries
       /\ Faults \subseteq {"pool_create", "open", "read", "new_object"}

VARIABLES
  dir,      \* the lua_apr_dir object: state, pool, handle closes, entries left
  path,     \* the Lua string passed to apr.dir_open
  returned, \* the name the last dir:read returned
  file,     \* the lua_apr_file object: state, pool, handle closes, mode, flags
  misuse,   \* history: an APR call was made on a handle that is not open
  stale     \* history: directory->filepath was read after Lua freed it

vars == <<dir, path, returned, file, misuse, stale>>

\* state: "none" before the open call; "failed" when it returned no
\* object; "orphan" when it built an object but returned nil, msg, so
\* only the collector can reach it; "open" or "closed" as the handle is
\* set or NULL; "collected" once __gc ran.  pool: the object's root pool.
States == {"none", "failed", "orphan", "open", "closed", "collected"}
Held   == {"open", "closed"}

Init ==
  /\ dir = [state |-> "none", pool |-> "none", closes |-> 0, left |-> {}]
  /\ path = "none" /\ returned = "none"
  /\ file = [state |-> "none", pool |-> "none", closes |-> 0, mode |-> <<>>, flags |-> {}]
  /\ misuse = FALSE /\ stale = FALSE

\* Fault: the check_open / open argument ignored.
UsableUnchecked(o) == o.state \in Held

\* checkdir(L, 1, 1), lines 265-273 of io_dir.c, and file_check(L, 1, 1),
\* lines 534-540 of io_file.c: the method goes on only with a handle;
\* otherwise luaL_error raises "attempt to use a closed ...".
Usable(o) == o.state = "open"

\* An APR call on the object's handle, recorded if the handle is not open.
Call(o) == misuse' = (misuse \/ o.state # "open")

\* Lines 234-263: apr.dir_open(path).  new_object (line 257) runs after
\* the pool and the handle exist; a memory error it raises unwinds past
\* them, and no object is left that could release them.
DirOpen ==
  /\ dir.state = "none"
  /\ \/ /\ "pool_create" \in Faults
        /\ dir' = [dir EXCEPT !.state = "failed"]
        /\ UNCHANGED path
     \/ /\ "open" \in Faults
        /\ dir' = [dir EXCEPT !.state = "failed", !.pool = "destroyed"]
        /\ UNCHANGED path
     \/ /\ "new_object" \in Faults
        /\ dir' = [dir EXCEPT !.state = "failed", !.pool = "live"]
        /\ UNCHANGED path
     \/ /\ dir' = [dir EXCEPT !.state = "open", !.pool = "live", !.left = Entries]
        /\ path' = "alive"
  /\ UNCHANGED <<returned, file, misuse, stale>>

\* Fault: the filename_symbolic test of lines 330-331 left out.
SkippedNone(e) == FALSE

\* Lines 330-331: filename_symbolic, the entries dir:read passes over.
Skipped(e) == e \in Symbolic

\* Lines 308-339 (and the iterator of dir:entries, lines 282-300): read
\* entries until one that is not skipped, end of directory or an error.
DirRead ==
  /\ dir.state \in Held
  /\ IF Usable(dir)
       THEN /\ Call(dir)
            /\ \E skip \in SUBSET {e \in dir.left : Skipped(e)} :
                 LET rest == dir.left \ skip IN
                 \/ \E e \in {x \in rest : ~Skipped(x)} :
                      dir' = [dir EXCEPT !.left = rest \ {e}] /\ returned' = e
                 \/ rest = {} /\ dir' = [dir EXCEPT !.left = {}] /\ returned' = "none"
                 \/ "read" \in Faults /\ dir' = [dir EXCEPT !.left = rest] /\ UNCHANGED returned
       ELSE UNCHANGED <<dir, returned, misuse>>
  /\ UNCHANGED <<path, file, stale>>

\* Lines 346-355: directory:rewind().
DirRewind ==
  /\ dir.state \in Held
  /\ IF Usable(dir) THEN Call(dir) /\ dir' = [dir EXCEPT !.left = Entries]
                    ELSE UNCHANGED <<dir, misuse>>
  /\ UNCHANGED <<path, returned, file, stale>>

\* Lines 362-372: directory:close() closes the handle and sets it NULL;
\* the pool is left as it is.
DirClose ==
  /\ dir.state \in Held
  /\ IF Usable(dir)
       THEN Call(dir) /\ dir' = [dir EXCEPT !.state = "closed", !.closes = @ + 1]
       ELSE UNCHANGED <<dir, misuse>>
  /\ UNCHANGED <<path, returned, file, stale>>

\* Lines 374-384: tostring(directory) formats directory->filepath.
DirToString ==
  /\ dir.state \in Held
  /\ stale' = (stale \/ path = "freed")
  /\ UNCHANGED <<dir, path, returned, file, misuse>>

\* Lines 386-399: __gc closes the handle and destroys the pool only if
\* the handle is still set.
DirGC ==
  /\ dir.state \in Held
  /\ IF dir.state = "open"
       THEN /\ Call(dir)
            /\ dir' = [dir EXCEPT !.state = "collected", !.pool = "destroyed",
                                   !.closes = @ + 1]
       ELSE UNCHANGED misuse /\ dir' = [dir EXCEPT !.state = "collected"]
  /\ UNCHANGED <<path, returned, file, stale>>

\* Line 242: filepath points into the Lua string argument, which nothing
\* anchors once dir_open returned; Lua may free it when the caller drops it.
LuaFreesPath ==
  /\ path = "alive"
  /\ path' = "freed"
  /\ UNCHANGED <<dir, returned, file, misuse, stale>>

\* Lines 245-297 of io_file.c: apr.file_open(path, m) parses the mode
\* into the flags for apr_file_open.  new_object returns a zeroed object,
\* so the handle is NULL until apr_file_open sets it.  A failed pool
\* creation raises; a failed open returns nil, msg; in both cases the
\* object is left on the stack for the collector.
FileOpen ==
  /\ file.state = "none"
  /\ \E m \in Modes :
       LET parsed == [file EXCEPT !.mode = m, !.flags = Flags(m)] IN
       \/ "pool_create" \in Faults /\ file' = [parsed EXCEPT !.state = "orphan"]
       \/ "open" \in Faults /\ file' = [parsed EXCEPT !.state = "orphan", !.pool = "live"]
       \/ file' = [parsed EXCEPT !.state = "open", !.pool = "live"]
  /\ UNCHANGED <<dir, path, returned, misuse, stale>>

\* Line 545: file_close_real does its work only while the handle is set.
HasHandle(f) == f.state = "open"

\* Lines 542-552: file_close_real closes the handle, destroys the pool,
\* frees the buffer and sets the handle NULL.
CloseReal(f) ==
  IF HasHandle(f)
    THEN [f EXCEPT !.state = "closed", !.pool = "destroyed", !.closes = @ + 1]
    ELSE f

\* Every method that needs an open file (read, write, seek, flush, lock,
\* unlock, stat, ...; their first line is file_check(L, 1, 1)) and then
\* calls APR on the handle.
FileCall ==
  /\ file.state \in Held
  /\ IF Usable(file) THEN Call(file) ELSE UNCHANGED misuse
  /\ UNCHANGED <<dir, path, returned, file, stale>>

\* Lines 523-532: file:close().
FileClose ==
  /\ file.state \in Held
  /\ IF Usable(file)
       THEN Call(file) /\ file' = CloseReal(file)
       ELSE UNCHANGED <<file, misuse>>
  /\ UNCHANGED <<dir, path, returned, stale>>

\* Lines 564-568: __gc runs file_close_real on the object, held or orphaned.
FileGC ==
  /\ file.state \in Held \cup {"orphan"}
  /\ file' = [CloseReal(file) EXCEPT !.state = "collected"]
  /\ IF HasHandle(file) THEN Call(file) ELSE UNCHANGED misuse
  /\ UNCHANGED <<dir, path, returned, stale>>

Next ==
  \/ DirOpen \/ DirRead \/ DirRewind \/ DirClose \/ DirToString \/ DirGC
  \/ LuaFreesPath
  \/ FileOpen \/ FileCall \/ FileClose \/ FileGC

Spec == Init /\ [][Next]_vars

-----------------------------------------------------------------------------
TypeOK ==
  /\ dir.state \in States /\ file.state \in States
  /\ dir.pool \in {"none", "live", "destroyed"}
  /\ file.pool \in {"none", "live", "destroyed"}
  /\ dir.closes \in Nat /\ file.closes \in Nat
  /\ dir.left \subseteq Entries
  /\ path \in {"none", "alive", "freed"}
  /\ returned \in (Entries \ Symbolic) \cup {"none"}
  /\ misuse \in BOOLEAN /\ stale \in BOOLEAN
  /\ file.mode \in Modes

\* The file is opened with the flags fopen gives its mode string (lines
\* 241-242; the TODO of line 258): access, creation, truncation, append
\* and binary alike; and a string fopen does not know still opens it for
\* reading or writing, never for neither (lines 276-278).
ModeMatchesFopen ==
  file.state # "none" =>
    /\ file.mode \in FopenModes => file.flags = FopenFlags(file.mode)
    /\ file.flags \cap {"READ", "WRITE"} # {}

\* No APR call is ever made on a handle that is closed or NULL: checkdir
\* and file_check stop every method on a closed object, dir_gc and
\* file_close_real close only a handle that is still set, so neither
\* close followed by __gc nor a second close reaches APR twice.
NoCallOnClosedHandle == ~misuse /\ dir.closes <= 1 /\ file.closes <= 1

\* Spec section 5: the memory an object owns or points into lives exactly
\* as long as the object.  Each handle releases its pool by the time
\* nothing can reach its object, however it got there: a directory closed
\* by dir_close (lines 362-372) before dir_gc, a directory whose object was
\* never made (line 257), a file whose apr_file_open failed (line 287)
\* before file_gc.  And tostring(directory) (line 381) reads
\* directory->filepath only while the Lua string it points into (line 242)
\* is alive.
ObjectMemorySound ==
  /\ dir.state \in {"failed", "collected"} => dir.pool \in {"none", "destroyed"}
  /\ file.state = "collected" => file.pool \in {"none", "destroyed"}
  /\ ~stale
=============================================================================
