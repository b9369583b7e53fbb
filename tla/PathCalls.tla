------------------------------ MODULE PathCalls ------------------------------
(***************************************************************************)
(* The single-call wrappers of the binding that change the file system:   *)
(* apr.dir_make, apr.dir_make_recursive, apr.dir_remove (src/src/io_dir.c) *)
(* and apr.file_copy, apr.file_append, apr.file_rename, apr.file_remove   *)
(* (src/src/io_file.c).  Each wrapper reads its Lua arguments, makes one  *)
(* APR call and pushes its status; one action models one wrapper call.    *)
(*                                                                         *)
(* The file system is a function from a small set of Paths to what is     *)
(* there, and the contents of a file are a sequence of Blocks.  The APR   *)
(* calls are modelled by the POSIX calls they make.  Paths whose Parent   *)
(* is themselves lie in a directory that always exists.  A file system    *)
(* holds at most DiskBlocks blocks; a write beyond that fails (ENOSPC).   *)
(***************************************************************************)
EXTENDS Naturals, Sequences, FiniteSetsExt

CONSTANTS
  Paths,      \* the path strings a program passes
  Parent,     \* Parent[p]: the directory p lies in; p itself at the top
  Blocks,     \* what a block of a file may hold
  DiskBlocks, \* how many blocks the file system has room for
  InitNode,   \* what each path is when the program starts
  InitData,   \* the contents of each file when the program starts
  Calls,      \* the wrappers the program calls
  AttrKeys,   \* the keys an attributes table of file_attrs_set may have
  NonString   \* stands for a table key that is neither a string nor a number

Kinds == {"none", "dir", "file"}

ASSUME /\ Parent \in [Paths -> Paths]
       /\ DiskBlocks \in Nat
       /\ InitNode \in [Paths -> Kinds] /\ InitData \in [Paths -> Seq(Blocks)]
       /\ Calls \subseteq {"dir_make", "dir_make_recursive", "dir_remove",
                           "file_remove", "file_copy", "file_append", "file_rename",
                           "file_attrs_set"}
       /\ NonString \in AttrKeys

VARIABLES
  node,  \* node[p]: what exists at path p
  data,  \* data[p]: the contents of the file at p (<<>> for anything else)
  attr,    \* attr[p]: the attributes APR reads from the permission bits of p
  crashed, \* the process died in a call
  last     \* history: the last call, its Lua arguments, its status and the
           \* file system before it

vars == <<node, data, attr, crashed, last>>

\* The attributes apr_file_attrs_set changes on Unix; it ignores "hidden".
UnixAttrs == {"readonly", "executable"}

Top(p) == Parent[p] = p
Used(d) == MapThenSumSet(LAMBDA p : Len(d[p]), Paths)

\* What the wrapper leaves behind: its status and the new file system.
Result(st, n, d) == [status |-> st, node |-> n, data |-> d]

\* apr_dir_make: mkdir(2).
Mkdir(p, n) ==
  LET st == CASE n[p] # "none"                       -> "EEXIST"
              [] ~Top(p) /\ n[Parent[p]] = "none"    -> "ENOENT"
              [] ~Top(p) /\ n[Parent[p]] = "file"    -> "ENOTDIR"
              [] OTHER                               -> "SUCCESS"
  IN [status |-> st, node |-> IF st = "SUCCESS" THEN [n EXCEPT ![p] = "dir"] ELSE n]

\* apr_dir_make_recursive: try mkdir; on ENOENT make the parent the same
\* way and try again; EEXIST, whatever exists at the path, is success.
RECURSIVE MakeRecursive(_, _)
MakeRecursive(p, n) ==
  LET first == Mkdir(p, n)
      r == IF first.status = "ENOENT" /\ ~Top(p)
           THEN LET up == MakeRecursive(Parent[p], n)
                IN IF up.status = "SUCCESS" THEN Mkdir(p, up.node) ELSE up
           ELSE first
  IN IF r.status = "EEXIST" THEN [r EXCEPT !.status = "SUCCESS"] ELSE r

\* apr_dir_remove: rmdir(2).
Rmdir(p) ==
  CASE node[p] = "none"                          -> "ENOENT"
    [] node[p] = "file"                          -> "ENOTDIR"
    [] \E c \in Paths : c # p /\ Parent[c] = p /\ node[c] # "none" -> "ENOTEMPTY"
    [] OTHER                                     -> "SUCCESS"

\* apr_file_remove: unlink(2); Linux refuses a directory with EISDIR.
Unlink(p) == CASE node[p] = "none" -> "ENOENT"
               [] node[p] = "dir"  -> "EISDIR"
               [] OTHER            -> "SUCCESS"

\* apr_file_copy and apr_file_append with one path for both arguments
\* (apr_file_transfer_contents): open it for reading, open it again for
\* writing, then read and write until read() reports end of file.
\* Truncating empties the file before the first read; appending keeps
\* the end of file ahead of the reader, so the loop stops only when the
\* file system is full, leaving the file cyclically repeated.
TransferOntoItself(p, truncate) ==
  LET d    == data[p]
      room == DiskBlocks - Used(data) + Len(d)
  IN CASE node[p] = "none"     -> Result("ENOENT", node, data)
       [] node[p] = "dir"      -> Result("EISDIR", node, data)
       [] truncate             -> Result("SUCCESS", node, [data EXCEPT ![p] = <<>>])
       [] d = <<>>             -> Result("SUCCESS", node, data)
       [] OTHER -> Result("ENOSPC", node,
                          [data EXCEPT ![p] = [i \in 1..room |-> d[((i - 1) % Len(d)) + 1]]])

\* apr_file_rename with one path for both arguments: rename(2) of a file
\* onto itself succeeds and does nothing.
RenameOntoItself(p) == IF node[p] = "none" THEN "ENOENT" ELSE "SUCCESS"

\* apr_file_attrs_set on Unix: a mask with neither readonly nor executable
\* returns at once; otherwise stat the path, then turn the permission bits
\* of every attribute in the mask on or off.
AttrsSet(p, attributes, valid) ==
  CASE valid \cap UnixAttrs = {} -> [status |-> "SUCCESS", attr |-> attr]
    [] node[p] = "none"          -> [status |-> "ENOENT", attr |-> attr]
    [] OTHER -> [status |-> "SUCCESS",
                 attr |-> [attr EXCEPT ![p] = (@ \ (valid \cap UnixAttrs))
                                             \cup (attributes \cap UnixAttrs)]]

Init == node = InitNode /\ data = InitData
        /\ attr = [p \in Paths |-> IF InitNode[p] = "dir" THEN {"executable"} ELSE {}]
        /\ crashed = FALSE
        /\ last = [call |-> "none", source |-> CHOOSE p \in Paths : TRUE,
                   target |-> CHOOSE p \in Paths : TRUE, status |-> "SUCCESS",
                   node |-> InitNode, data |-> InitData]

\* One call from Lua with arguments arg1 and arg2, its status r.status.
Called(c, arg1, arg2, r) ==
  /\ c \in Calls /\ ~crashed
  /\ node' = r.node /\ data' = r.data
  /\ last' = [call |-> c, source |-> arg1, target |-> arg2, status |-> r.status,
              node |-> node, data |-> data]
  \* A new directory is searchable; a removed path takes its bits along.
  /\ attr' = [p \in Paths |-> CASE r.node[p] = "none" -> {}
                                [] node[p] = "none"   -> {"executable"}
                                [] OTHER              -> attr[p]]
  /\ UNCHANGED crashed

\* io_dir.c lines 45-58: filepath is argument 1.
DirMake(arg1, arg2) ==
  LET filepath == arg1
      r == Mkdir(filepath, node)
  IN Called("dir_make", arg1, arg2, Result(r.status, r.node, data))

\* io_dir.c lines 68-81.
DirMakeRecursive(arg1, arg2) ==
  LET filepath == arg1
      r == MakeRecursive(filepath, node)
  IN Called("dir_make_recursive", arg1, arg2, Result(r.status, r.node, data))

\* io_dir.c lines 89-100.
DirRemove(arg1, arg2) ==
  LET filepath == arg1
      st == Rmdir(filepath)
  IN Called("dir_remove", arg1, arg2,
            Result(st, IF st = "SUCCESS" THEN [node EXCEPT ![filepath] = "none"] ELSE node, data))

\* io_file.c lines 91-100.
FileRemove(arg1, arg2) ==
  LET path == arg1
      st == Unlink(path)
  IN Called("file_remove", arg1, arg2,
            IF st = "SUCCESS"
            THEN Result(st, [node EXCEPT ![path] = "none"], [data EXCEPT ![path] = <<>>])
            ELSE Result(st, node, data))

\* io_file.c lines 28-40: source and target are both read from argument 1.
FileCopy(arg1, arg2) ==
  LET source == arg1
      target == arg1
  IN Called("file_copy", arg1, arg2, TransferOntoItself(source, TRUE))

\* io_file.c lines 50-62: source and target are both read from argument 1.
FileAppend(arg1, arg2) ==
  LET source == arg1
      target == arg1
  IN Called("file_append", arg1, arg2, TransferOntoItself(source, FALSE))

\* io_file.c lines 72-82: source and target are both read from argument 1.
FileRename(arg1, arg2) ==
  LET source == arg1
      target == arg1
  IN Called("file_rename", arg1, arg2, Result(RenameOntoItself(source), node, data))

\* io_file.c lines 135-168: walk the table with lua_next, collecting the
\* attribute bits and the mask of the keys present; any other key raises
\* "invalid key".  lua_next visits the keys in no fixed order.  For a key
\* that is neither a string nor a number lua_tostring returns NULL and
\* strcmp dereferences it: the process dies.
FileAttrsSet(arg1, table) ==
  LET path       == arg1
      keys       == DOMAIN table
      attributes == {k \in keys \cap {"readonly", "hidden", "executable"} : table[k]}
      valid      == keys \cap {"readonly", "hidden", "executable"}
      stops      == (IF NonString \in keys THEN {"crash"} ELSE {})
                    \cup (IF keys \ {"readonly", "hidden", "executable", NonString} # {}
                         THEN {"raise"} ELSE {})
  IN /\ "file_attrs_set" \in Calls /\ ~crashed
     /\ IF stops = {}
        THEN LET r == AttrsSet(path, attributes, valid) IN
             /\ attr' = r.attr
             /\ last' = [call |-> "file_attrs_set", source |-> arg1, target |-> arg1,
                         status |-> r.status, node |-> node, data |-> data]
             /\ UNCHANGED crashed
        ELSE \E stop \in stops :
               /\ crashed' = (stop = "crash")
               /\ UNCHANGED <<attr, last>>
     /\ UNCHANGED <<node, data>>

Next == \/ \E arg1 \in Paths, table \in UNION {[K -> BOOLEAN] : K \in SUBSET AttrKeys} :
             FileAttrsSet(arg1, table)
        \/ \E arg1, arg2 \in Paths :
          \/ DirMake(arg1, arg2) \/ DirMakeRecursive(arg1, arg2) \/ DirRemove(arg1, arg2)
          \/ FileRemove(arg1, arg2) \/ FileCopy(arg1, arg2) \/ FileAppend(arg1, arg2)
          \/ FileRename(arg1, arg2)

Spec == Init /\ [][Next]_vars

-----------------------------------------------------------------------------
TypeOK ==
  /\ node \in [Paths -> Kinds] /\ data \in [Paths -> Seq(Blocks)]
  /\ Used(data) <= DiskBlocks
  /\ attr \in [Paths -> SUBSET UnixAttrs] /\ crashed \in BOOLEAN

\* What the documentation comments of the wrappers promise of a call that
\* returns true, and that copy and append only read their source:
\* apr.file_copy(source, target) leaves target holding what source held,
\* apr.file_append(source, target) adds it to the end of target,
\* apr.file_rename(source, target) moves it to target, and
\* apr.dir_make_recursive(path) leaves a directory at path; and that no
\* call kills the process: apr.file_attrs_set raises "invalid key" for a
\* key it does not know (io_file.c line 160).
CallKeepsDocumentedContract ==
  LET s == last.source
      t == last.target
      ok == last.status = "SUCCESS"
  IN /\ last.call \in {"file_copy", "file_append"} /\ s # t =>
          node[s] = last.node[s] /\ data[s] = last.data[s]
     /\ last.call = "file_copy" /\ s # t /\ ok =>
          node[t] = "file" /\ data[t] = last.data[s]
     /\ last.call = "file_append" /\ s # t /\ ok =>
          node[t] = "file" /\ data[t] = last.data[t] \o last.data[s]
     /\ last.call = "file_rename" /\ s # t /\ ok =>
          node[s] = "none" /\ node[t] = last.node[s] /\ data[t] = last.data[s]
     /\ last.call = "dir_make_recursive" /\ ok => node[s] = "dir"
     /\ ~crashed
=============================================================================
