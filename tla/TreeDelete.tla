----------------------------- MODULE TreeDelete -----------------------------
(***************************************************************************)
(* apr.dir_remove_recursive(path): lua_apr_dir_remove_recursive in        *)
(* src/src/io_dir.c.  One call of the C function: phase 1 pops directory  *)
(* paths off the `todo' stack, enumerates each one, deletes its files and *)
(* pushes its subdirectories; phase 2 pops the `done' stack and removes   *)
(* the emptied directories; `cleanup' closes the handle and destroys the  *)
(* three pools on every exit path.                                        *)
(*                                                                         *)
(* The file system is a fixed tree of Nodes (Parent, Kind, Target) of     *)
(* which the set `fs' still exists.  A path string is abstracted to the   *)
(* node it names plus the pool and pool generation it was allocated in,  *)
(* so that a path read after its pool was cleared can be recognised.     *)
(* Every APR call named in Faults may fail at any call.                   *)
(***************************************************************************)
EXTENDS Integers, Sequences, SequencesExt, FiniteSets

CONSTANTS
  Nodes,            \* files, directories and symbolic links
  Root,             \* the directory passed from Lua
  Parent,           \* Parent[n]; the top directory is its own parent
  Kind,             \* Kind[n] \in {"dir", "file", "link"} as lstat() sees it
  Target,           \* Target[n]: the node a link points to
  InnerClearEvery,  \* the 1000 of line 169
  MiddleClearEvery, \* the 100 of line 207
  Faults,           \* the APR calls that may return an error status
  Races,            \* what another process may do to the tree meanwhile
  MaxRaces,         \* how many times it may do so
  IntBits,          \* the width of the C int allocation_counter
  MaxGen            \* model bound: clears of one pool in one call

ASSUME /\ Root \in Nodes /\ Kind[Root] = "dir"
       /\ InnerClearEvery \in Nat \ {0} /\ MiddleClearEvery \in Nat \ {0}
       /\ Faults \subseteq {"pool_create", "alloc", "dir_open", "dir_read",
                            "merge", "file_remove", "dir_close", "dir_remove"}
       /\ Races \subseteq {"remove", "create", "swap"} /\ MaxRaces \in Nat
       /\ IntBits \in Nat \ {0} /\ MaxGen \in Nat

VARIABLES
  fs,         \* the nodes that exist on disk
  kind,       \* kind[n]: what lstat() reports for n now
  pc,         \* the point of the C function that executes next
  todo,       \* the `todo' array used as a stack (line 150)
  done,       \* the `done' array used as a stack (line 151)
  filepath,   \* the C variable `filepath' (line 124)
  entries,    \* the entries the open directory handle has still to return
  directory,  \* what the C variable `directory' points to
  arena,      \* per pool: its state, how often it was cleared, live allocations
  counter,    \* allocation_counter (line 125)
  status,     \* the C variable `status' returned to Lua
  faulted,    \* history: an APR call named in Faults has failed
  badClose,   \* history: apr_dir_close was called on a handle that is not open
  deleted,    \* history: the nodes this call unlinked or rmdir()ed
  races       \* history: how often another process changed the tree

vars == <<fs, kind, pc, todo, done, filepath, entries, directory, arena,
          counter, status, faulted, badClose, deleted, races>>

\* What the other process changes; the C function leaves it alone.
raceVars == <<kind, races>>

Pools == {"outer", "middle", "inner"}

IntMin == -(2^(IntBits - 1))
IntMax == 2^(IntBits - 1) - 1

\* Lines 188 and 207: allocation_counter++ on a signed int.  Overflow is
\* undefined; the build wraps it in two's complement.
Incremented(c) == ((c + 1 - IntMin) % 2^IntBits) + IntMin
PoolOrder == <<"outer", "middle", "inner">>
Symbolic == {".", ".."}

RECURSIVE IsBelow(_, _)
\* n is a or lies in the directory tree below a (links are not followed).
IsBelow(n, a) == n = a \/ (Parent[n] # n /\ IsBelow(Parent[n], a))

Subtree == {n \in Nodes : IsBelow(n, Root)}

\* A path allocated in pool p now; Lua owns the string of the argument.
Alloc(n, p) == [node |-> n, pool |-> p, gen |-> arena[p].gen]
RootPath == [node |-> Root, pool |-> "lua", gen |-> 0]
Valid(path) == \/ path.pool = "lua"
               \/ arena[path.pool].state = "live" /\ arena[path.pool].gen = path.gen

Cleared(a, p) == [a EXCEPT ![p].gen = @ + 1, ![p].live = 0]
Allocated(a, p) == [a EXCEPT ![p].live = @ + 1]

\* opendir() follows a symbolic link.
Resolve(n) == IF kind[n] = "link" THEN Target[n] ELSE n
Children(d) == {c \in fs : Parent[c] = d /\ c # d}

\* Fault: without APR_FINFO_LINK a link reports the type of its target.
EntryTypeFollowingLinks(e) == CASE e \in Symbolic   -> "dir"
                                 [] kind[e] = "link" -> kind[Target[e]]
                                 [] OTHER            -> kind[e]

\* apr_dir_read with APR_FINFO_LINK reports the lstat() type of an entry;
\* "." and ".." are directories.
EntryType(e) == IF e \in Symbolic THEN "dir" ELSE kind[e]

\* Lines 172-179: the types the branch of line 179 may see for entry e.
\* When e is gone by the time apr_dir_read lstat()s it, the read returns
\* APR_INCOMPLETE, which the code accepts, and info.filetype is not valid:
\* it holds the d_type of readdir() or what the previous read left there.
ReadType(e) == IF e \in fs \/ e \in Symbolic THEN {EntryType(e)} ELSE {"dir", "file"}

\* Fault: the arrays taken from the front, as queues.
PopFront(s) == [top |-> Head(s), rest |-> Tail(s)]

\* Fault: the top element read but left on the array.
PopKeep(s) == [top |-> Last(s), rest |-> s]

\* apr_array_pop: the last element pushed, and the array without it.
Pop(s) == [top |-> Last(s), rest |-> Front(s)]

\* Fault: the subdirectory path merged in the pool of line 187.
SubdirPoolInner == "inner"

\* Line 181: a subdirectory's path must outlive the handle, so it is
\* merged in the outer pool.
SubdirPool == "outer"

Fail(call, code) == /\ call \in Faults
                    /\ status' = code /\ faulted' = TRUE /\ pc' = "cleanup"

Init ==
  /\ fs = Nodes /\ kind = Kind
  /\ pc = "start"
  /\ todo = <<>> /\ done = <<>>
  /\ filepath = RootPath
  /\ entries = {}
  /\ directory = "NULL"
  /\ arena = [p \in Pools |-> [state |-> "null", gen |-> 0, live |-> 0]]
  /\ counter = 0
  /\ status = "SUCCESS"
  /\ faulted = FALSE /\ badClose = FALSE
  /\ deleted = {} /\ races = 0

\* Lines 132-155: create the three pools in order, make the two arrays and
\* push the argument.  The first failure jumps to cleanup.
Start ==
  /\ pc = "start"
  /\ \E k \in 0..3 :
       /\ arena' = [p \in Pools |->
                     [state |-> IF \E i \in 1..k : PoolOrder[i] = p
                                THEN "live" ELSE "null", gen |-> 0, live |-> 0]]
       /\ IF k < 3
            THEN Fail("pool_create", "ENOMEM") /\ UNCHANGED todo
            ELSE \/ Fail("alloc", "ENOMEM") /\ UNCHANGED todo
                 \/ todo' = <<RootPath>> /\ pc' = "pop" /\ UNCHANGED <<status, faulted>>
  /\ UNCHANGED <<fs, done, filepath, entries, directory, counter, badClose,
                 deleted, raceVars>>

\* What a failed apr_dir_open leaves in `directory': APR releases that
\* allocate the handle before calling opendir() leave it half built, the
\* others leave the previous value.
AprDirOpenLeft == {directory, "HALF"}

\* Fault: line 162 dropped, the handle variable kept as APR left it.
AfterFailedOpenKept(d) == d

\* Line 162: after a failed apr_dir_open the handle is forgotten.
AfterFailedOpen(d) == "NULL"

\* Lines 157-164: pop a path, clear the middle pool and open the directory
\* in it; apr_dir_open allocates the handle before it calls opendir().
OpenNext ==
  /\ pc = "pop" /\ todo # <<>>
  /\ LET fp == Pop(todo).top
         n  == fp.node
         ok == n \in fs /\ Resolve(n) \in fs /\ kind[Resolve(n)] = "dir"
     IN /\ filepath' = fp
        /\ todo' = Pop(todo).rest
        /\ arena' = Allocated(Cleared(arena, "middle"), "middle")
        /\ \/ /\ ok
              /\ entries' = Symbolic \cup Children(Resolve(n))
              /\ directory' = "OPEN" /\ pc' = "read"
              /\ UNCHANGED <<status, faulted>>
           \/ /\ ~ok
              /\ status' = IF n \in fs THEN "ENOTDIR" ELSE "ENOENT"
              /\ \E d \in AprDirOpenLeft : directory' = AfterFailedOpen(d)
              /\ pc' = "cleanup"
              /\ UNCHANGED <<entries, faulted>>
           \/ /\ Fail("dir_open", "EIO")
              /\ \E d \in AprDirOpenLeft : directory' = AfterFailedOpen(d)
              /\ UNCHANGED entries
  /\ UNCHANGED <<fs, done, counter, badClose, deleted, raceVars>>

\* Line 157: the work list is empty, phase 1 ends.
EndPhase1 ==
  /\ pc = "pop" /\ todo = <<>>
  /\ pc' = "rmdirs"
  /\ UNCHANGED <<fs, todo, done, filepath, entries, directory, arena, counter,
                 status, faulted, badClose, deleted, raceVars>>

\* Fault: the inner pool cleared only before the first file is counted.
InnerClearedOnce == IF counter = 0 THEN Cleared(arena, "inner") ELSE arena

\* Lines 166-170: at the head of every iteration the inner pool is cleared
\* when allocation_counter is a multiple of the period.
InnerChecked == IF counter % InnerClearEvery = 0 THEN Cleared(arena, "inner") ELSE arena

\* Lines 172-174: apr_dir_read reports that no entries are left.
ReadEnd ==
  /\ pc = "read" /\ entries = {}
  /\ arena' = InnerChecked /\ pc' = "close"
  /\ UNCHANGED <<fs, todo, done, filepath, entries, directory, counter,
                 status, faulted, badClose, deleted, raceVars>>

\* Lines 175-176: apr_dir_read fails.
ReadFails ==
  /\ pc = "read"
  /\ arena' = InnerChecked /\ Fail("dir_read", "EIO")
  /\ UNCHANGED <<fs, todo, done, filepath, entries, directory, counter, badClose,
                 deleted, raceVars>>

\* Line 171 (the FIXME): apr_dir_read copies every entry name into the pool
\* of the handle, the middle pool.
Returned(e) == /\ e \in entries /\ entries' = entries \ {e}

\* Fault: the filename_symbolic test of lines 177-178 left out.
SkippedNone(e) == FALSE

\* Lines 177-178: a named entry for which filename_symbolic holds.
Skipped(e) == e \in Symbolic

\* Lines 177-178: "." and ".." are skipped.
ReadSymbolic ==
  /\ pc = "read"
  /\ \E e \in entries : Skipped(e) /\ Returned(e)
  /\ arena' = Allocated(InnerChecked, "middle")
  /\ UNCHANGED <<fs, pc, todo, done, filepath, directory, counter, status,
                 faulted, badClose, deleted, raceVars>>

\* Lines 179-184: a subdirectory's path is merged in the outer pool and
\* pushed on the work list.
ReadSubdir ==
  /\ pc = "read"
  /\ \E e \in entries :
       /\ ~Skipped(e) /\ "dir" \in ReadType(e) /\ Returned(e)
       /\ LET a == Allocated(InnerChecked, "middle") IN
          \/ Fail("merge", "EIO") /\ arena' = a /\ UNCHANGED todo
          \/ Fail("alloc", "ENOMEM") /\ arena' = Allocated(a, SubdirPool) /\ UNCHANGED todo
          \/ /\ todo' = Append(todo, Alloc(e, SubdirPool))
             /\ arena' = Allocated(a, SubdirPool)
             /\ UNCHANGED <<pc, status, faulted>>
  /\ UNCHANGED <<fs, done, filepath, directory, counter, badClose, deleted,
                 raceVars>>

\* Lines 185-193: any other entry's path is merged in the inner pool,
\* counted, and the entry is unlinked; it fails if the entry is gone.
ReadFile ==
  /\ pc = "read"
  /\ \E e \in entries :
       /\ ~Skipped(e) /\ \E t \in ReadType(e) : t # "dir"
       /\ Returned(e)
       /\ counter' = Incremented(counter)
       /\ LET a == Allocated(InnerChecked, "middle") IN
          \/ Fail("merge", "EIO") /\ arena' = a /\ UNCHANGED <<fs, deleted>>
          \/ /\ arena' = Allocated(a, "inner")
             /\ \/ Fail("file_remove", "EIO") /\ UNCHANGED <<fs, deleted>>
                \/ /\ e \notin fs
                   /\ status' = "ENOENT" /\ pc' = "cleanup"
                   /\ UNCHANGED <<fs, deleted, faulted>>
                \/ /\ e \in fs
                   /\ fs' = fs \ {e} /\ deleted' = deleted \cup {e}
                   /\ UNCHANGED <<pc, status, faulted>>
  /\ UNCHANGED <<todo, done, filepath, directory, badClose, raceVars>>

\* Lines 195-199: close the handle, forget it, record the directory as done.
CloseDir ==
  /\ pc = "close"
  /\ directory' = "NULL"
  /\ \/ Fail("dir_close", "EIO") /\ UNCHANGED done
     \/ Fail("alloc", "ENOMEM") /\ UNCHANGED done
     \/ done' = Append(done, filepath) /\ pc' = "pop" /\ UNCHANGED <<status, faulted>>
  /\ UNCHANGED <<fs, todo, filepath, entries, arena, counter, badClose, deleted,
                 raceVars>>

\* Lines 205-212: pop the completed list, clear the middle pool every
\* MiddleClearEvery removals, rmdir() the directory.
RemoveDir ==
  /\ pc = "rmdirs" /\ done # <<>>
  /\ LET fp == Pop(done).top
         n  == fp.node
     IN /\ filepath' = fp
        /\ done' = Pop(done).rest
        /\ counter' = Incremented(counter)
        /\ arena' = IF counter % MiddleClearEvery = 0 THEN Cleared(arena, "middle") ELSE arena
        /\ \/ /\ n \in fs /\ kind[n] = "dir" /\ Children(n) = {}
              /\ fs' = fs \ {n} /\ deleted' = deleted \cup {n}
              /\ UNCHANGED <<pc, status, faulted>>
           \/ /\ ~(n \in fs /\ kind[n] = "dir" /\ Children(n) = {})
              /\ status' = CASE n \notin fs      -> "ENOENT"
                             [] kind[n] # "dir"  -> "ENOTDIR"
                             [] OTHER            -> "ENOTEMPTY"
              /\ pc' = "cleanup"
              /\ UNCHANGED <<fs, faulted, deleted>>
           \/ Fail("dir_remove", "EIO") /\ UNCHANGED <<fs, deleted>>
  /\ UNCHANGED <<todo, entries, directory, badClose, raceVars>>

\* Line 205: the completed list is empty; status is still APR_SUCCESS.
EndPhase2 ==
  /\ pc = "rmdirs" /\ done = <<>>
  /\ pc' = "cleanup"
  /\ UNCHANGED <<fs, todo, done, filepath, entries, directory, arena, counter,
                 status, faulted, badClose, deleted, raceVars>>

\* Fault: the outer pool is not destroyed.
DestroyedButOuter(a) == [p \in Pools |-> IF a[p].state = "null" \/ p = "outer" THEN a[p]
                                         ELSE [a[p] EXCEPT !.state = "destroyed", !.live = 0]]

\* Lines 218-223: apr_pool_destroy on each pool that was created.
Destroyed(a) == [p \in Pools |-> IF a[p].state = "null" THEN a[p]
                                  ELSE [a[p] EXCEPT !.state = "destroyed", !.live = 0]]

\* Lines 214-225: close a handle still referenced, destroy the pools that
\* were created.  apr_dir_close is harmless only on a handle that is open.
Cleanup ==
  /\ pc = "cleanup"
  /\ badClose' = (badClose \/ directory \notin {"NULL", "OPEN"})
  /\ directory' = IF directory = "NULL" THEN "NULL" ELSE "CLOSED"
  /\ arena' = Destroyed(arena)
  /\ pc' = "exit"
  /\ UNCHANGED <<fs, todo, done, filepath, entries, counter, status, faulted,
                 deleted, raceVars>>

-----------------------------------------------------------------------------
(* Another process working on the same tree while the call runs (spec     *)
(* section 4.1: such races are not handled).  readdir() may or may not    *)
(* report an entry added or removed after opendir().                       *)

Race(what) == /\ what \in Races /\ races < MaxRaces /\ races' = races + 1

RaceRemove ==
  /\ Race("remove")
  /\ \E n \in fs \cap Subtree :
       /\ kind[n] # "dir" \/ Children(n) = {}
       /\ fs' = fs \ {n}
       /\ entries' \in {entries, entries \ {n}}
  /\ UNCHANGED <<kind, pc, todo, done, filepath, directory, arena, counter,
                 status, faulted, badClose, deleted>>

RaceCreate ==
  /\ Race("create")
  /\ \E n \in Subtree \ fs :
       /\ Parent[n] \in fs
       /\ fs' = fs \cup {n}
       /\ entries' \in IF directory = "OPEN" /\ Parent[n] = Resolve(filepath.node)
                       THEN {entries, entries \cup {n}} ELSE {entries}
  /\ UNCHANGED <<kind, pc, todo, done, filepath, directory, arena, counter,
                 status, faulted, badClose, deleted>>

\* An empty directory is replaced by a symbolic link to Target[d].
RaceSwap ==
  /\ Race("swap")
  /\ \E d \in (fs \cap Subtree) \ {Root} :
       /\ kind[d] = "dir" /\ Children(d) = {}
       /\ kind' = [kind EXCEPT ![d] = "link"]
  /\ UNCHANGED <<fs, pc, todo, done, filepath, entries, directory, arena, counter,
                 status, faulted, badClose, deleted>>

\* One step of the C function.  A pool is cleared at most MaxGen times in
\* a call, a bound no run of the model's trees comes near.
Step ==
  /\ \A p \in Pools : arena[p].gen < MaxGen
  /\ \/ Start \/ OpenNext \/ EndPhase1
     \/ ReadEnd \/ ReadFails \/ ReadSymbolic \/ ReadSubdir \/ ReadFile
     \/ CloseDir \/ RemoveDir \/ EndPhase2 \/ Cleanup

Next == Step \/ RaceRemove \/ RaceCreate \/ RaceSwap

\* The call runs on the Lua thread until it returns, so a step of it that
\* stays possible is taken; the other process owes nothing.
Spec == Init /\ [][Next]_vars /\ WF_vars(Step)

-----------------------------------------------------------------------------
Running == pc \notin {"cleanup", "exit"}

PathRecs == [node : Nodes, pool : Pools \cup {"lua"}, gen : Nat]

TypeOK ==
  /\ todo \in Seq(PathRecs) /\ done \in Seq(PathRecs) /\ filepath \in PathRecs
  /\ fs \subseteq Nodes /\ deleted \subseteq Nodes
  /\ kind \in [Nodes -> {"dir", "file", "link"}] /\ races \in 0..MaxRaces
  /\ pc \in {"start", "pop", "read", "close", "rmdirs", "cleanup", "exit"}
  /\ directory \in {"NULL", "OPEN", "CLOSED", "HALF"}
  /\ entries \subseteq Nodes \cup Symbolic
  /\ \A p \in Pools : arena[p].state \in {"null", "live", "destroyed"}
                      /\ arena[p].gen \in Nat /\ arena[p].live \in Nat
  /\ counter \in IntMin..IntMax
  /\ status \in {"SUCCESS", "ENOMEM", "EIO", "ENOENT", "ENOTDIR", "ENOTEMPTY"}
  /\ faulted \in BOOLEAN /\ badClose \in BOOLEAN

\* Nothing outside the tree rooted at the argument is ever deleted, not
\* even through a symbolic link inside it: the APR_FINFO_LINK flag of line
\* 172 makes a link an entry to unlink, never a directory to descend into.
NoDeletionOutsideTree == deleted \subseteq Subtree

\* When no APR call failed and nobody else touched the tree, the call returns APR_SUCCESS and the whole tree,
\* the argument included, is gone: the done stack hands every directory to
\* rmdir() only after all of its descendants (lines 199 and 205).
CleanRunRemovesTree ==
  pc = "exit" /\ ~faulted /\ races = 0 => status = "SUCCESS" /\ fs \cap Subtree = {}

\* Every path on the two stacks, and the current one, is still allocated:
\* its pool was neither cleared nor destroyed since (lines 159, 170, 208).
NoDanglingPath ==
  Running => /\ \A i \in DOMAIN todo : Valid(todo[i])
             /\ \A i \in DOMAIN done : Valid(done[i])
             /\ pc \in {"read", "close", "rmdirs"} => Valid(filepath)

\* The inner pool never holds more than InnerClearEvery file paths, however
\* many files a directory has (lines 166-170 and 188).
InnerArenaBounded == arena["inner"].live <= InnerClearEvery

\* On every return, success or any failure, no directory handle is open,
\* every pool created is destroyed, and the cleanup of lines 216-217
\* never closes a handle that is not open: not one already closed, and
\* not one a failed apr_dir_open left half built (line 162).
ReleasedOnReturn ==
  pc = "exit" => /\ directory # "OPEN"
                 /\ \A p \in Pools : arena[p].state # "live"
                 /\ ~badClose

\* Every call of apr.dir_remove_recursive returns: the two while loops of
\* lines 157 and 205 each run out of stack, and every failure jumps to
\* cleanup, whatever another process does to the tree meanwhile.
Termination == <>(pc = "exit")

\* Spec section 8: the scratch pools stay within a fixed multiple of the
\* clearing period, whatever the size of a directory.
ScratchArenasBounded ==
  \A p \in {"inner", "middle"} :
    arena[p].live <= 1 + InnerClearEvery + MiddleClearEvery
=============================================================================
