# TLA+ models of lua-apr's directory and file code

This directory holds TLA+ models of the two source files under `src/src/`:
`io_dir.c` (directory handling, including `apr.dir_remove_recursive`) and
`io_file.c` (file objects, their mode strings, and the buffered `file:read`,
`file:write`, `file:flush` and `file:seek`), and the wrappers in both
files that change the file system in one call.
Every action is translated from those lines. `PROJECT.json` maps each
definition to the lines it models.

## The system

| Part | Code | State | Operations |
|---|---|---|---|
| Tree deletion | `lua_apr_dir_remove_recursive`, io_dir.c 113-226 | three root pools (outer, middle, inner), the `todo` and `done` arrays used as stacks, the open handle, `allocation_counter`, the status | create the pools; pop and open a directory; read an entry (skip `.`/`..`, queue a subdirectory, unlink anything else); close; pop `done` and rmdir; a cleanup label that every exit goes through |
| Directory object | `lua_apr_dir_open`, `checkdir`, `dir_entries`, `dir_read`, `dir_rewind`, `dir_close`, `dir_tostring`, `dir_gc`, io_dir.c 234-399 | a root pool, the APR handle (NULL once closed), a `filepath` pointer into the Lua argument string | open; read, possibly through the `entries` iterator; rewind; close; tostring; collect |
| File object | `lua_apr_file_open`, `file_check`, `file_close`, `file_close_real`, `file_gc`, io_file.c 245-297, 523-568 | a root pool, the APR handle, the read/write buffer | open (after parsing the mode string); every method guarded by `file_check`; close; collect |
| Buffered read and seek | `file_read`, `file_seek`, io_file.c 346-350, 396-439; `read_buffer` in buffer.c | the descriptor offset; the buffer's `index`, `limit` and data | read n bytes; seek with set, cur or end |
| Buffered write and flush | `file_write`, `file_flush`, `file_seek`, `file_close_real`, io_file.c 364-368, 447-455; `write_buffer`, `free_buffer` in buffer.c | the descriptor offset, the pending bytes | write; flush; seek; close |
| Mode strings | `lua_apr_file_open`, io_file.c 253-278 | none (a pure function) | parse a mode into APR open flags |
| Path wrappers | `dir_make`, `dir_make_recursive`, `dir_remove` (io_dir.c 45-100); `file_copy`, `file_append`, `file_rename`, `file_remove`, `file_attrs_set` (io_file.c 28-100, 135-168) | none in the binding; they change the file system | read the Lua arguments, make one APR call, push its status |
| Query wrappers | `temp_dir_get`, `file_mtime_set`, `stat`, `file:stat`, `file:lock`, `file:unlock` | none | one APR call each, with its result pushed |

How the parts interact:
- Tree deletion is independent of the objects. It shares the file system with other processes, and its correctness depends on how their changes interleave with its own.
- The objects interact with Lua: the program may call any method in any order, and the collector runs `__gc` once the program drops an object.
- The buffer sits between Lua's cursor and the descriptor's offset. `file_seek` must keep the two consistent.

The hard behaviours:
- Interleaving with other processes (entries vanish or appear, a directory becomes a link).
- Failure of any of eight APR calls part-way through, with cleanup on every path.
- Pool clears that invalidate memory still referenced.
- Periodic clears and their counters.
- Method sequences on closed or collected objects.
- Pointers into memory that Lua's collector owns.
- Arithmetic that turns a Lua cursor into a descriptor offset.

## Modules

### `TreeDelete`

TreeDelete models the whole of `lua_apr_dir_remove_recursive`.

**State.**
- `pc` is the point in the function: start, pop, read, close, rmdirs, cleanup, exit.
- `todo` and `done` are sequences of path records `[node, pool, gen]`. A path remembers the pool it was allocated in and that pool's generation at the time. `Valid(path)` holds while the pool is live and has not been cleared since.
- `arena` gives each pool's state, generation and the number of live allocations.
- `directory` is NULL, OPEN, CLOSED, or HALF: the half-built handle that APR releases allocating it before `opendir()` leave behind when the open fails (`AprDirOpenLeft`).
- `entries` are the names readdir has still to return.
- `fs` and `kind` are the file system. Another process may change them through the race actions, bounded by `MaxRaces`.

**Actions.** There is one action per step of the C code: `Start` (132-155), `OpenNext` (157-164), `ReadEnd`, `ReadFails`, `ReadSymbolic`, `ReadSubdir`, `ReadFile` (165-193), `CloseDir` (195-199), `RemoveDir` (205-212), `EndPhase1`, `EndPhase2` and `Cleanup` (214-225).
- The modelled details include the periodic clear at the head of each read (`InnerChecked`), the middle-pool allocation that `apr_dir_read` makes per entry, and the `directory = NULL` after a failed open (`AfterFailedOpen`, line 162).
- Each failing APR call is a disjunct `Fail(call, code)` enabled by the constant `Faults`.
- `Incremented` is `allocation_counter++` on a C int of `IntBits` bits. Signed overflow is undefined; the build wraps it in two's complement, and the model does the same. The `% period == 0` tests agree between C and TLA+ for negative values, because both only ask whether the period divides the value.
- `Step` is the disjunction of the function's own steps. Its guard caps the clears of each pool at the model bound `MaxGen` (40). The model's trees never come near it: td_main's `Termination` would fail at any state where the cap stopped the function.
- `ReadType(e)` is the `info.filetype` the branch of line 179 sees. For an entry that vanished before `apr_dir_read` could lstat it, the read returns APR_INCOMPLETE, which the code accepts without looking at `info.valid`, so the type is either one: the model lets the entry be pushed as a directory or unlinked as a file. td_main and td_links check that neither leaves a pool or handle behind or deletes outside the tree.

### `FileCursor` and `BufferedFile`

**`FileCursor`** is the abstract specification: Lua's file cursor, where `read(n)` returns the next n bytes and `seek` returns the new position or fails on a negative one.

**`BufferedFile`** is the implementation.
- Its state is `os`, the descriptor offset, and `buf`, the buffer.
- `Read` is `file_read` with `read_buffer`, which lives in buffer.c outside `src/` and is modelled from spec §4.2 (`Refilled`): the unread bytes are kept and the buffer is filled from `os`.
- `Seek` is `file_seek`:
  1. The query gives end_of_buf = `os` and start_of_buf = `os - limit`.
  2. A 'cur' seek is rebased to start + index (`CurBase`).
  3. The real seek moves `os`, or fails on a negative target (`Refused`).
  4. The buffer is re-indexed if the target is within `[start, end]` (`InWindow`) and emptied otherwise.
- The refinement mapping is `cursor <- os - buf.limit + buf.index`, Lua's cursor as spec §4.2 defines it.

### `FileMode`

FileMode models the mode-string parser of `lua_apr_file_open` (253-278).
- `Flags(m)` translates the parser: `At(m, i)` is `*mode` after `i - 1` increments, the NUL byte past the end. `Suffix` is the '+', 'b', '+' sequence after the letter. `WithDefault` is the "default to read mode" of 276-278.
- FileMode has no state of its own. Handles' `FileOpen` applies `Flags` to every mode string the program can pass, and h_main checks the result.
- The reference `FopenFlags` is the C standard's table of fopen modes. Lines 241-242 say the mode is exactly fopen's, and the TODO on line 258 asks for exactly this check.

### `WriteBehind`

WriteBehind models a file opened for writing.
- **State.** `disk` is the file's bytes, `os` the descriptor offset, and `buf` the pending bytes (spec §3: `limit` pending bytes, `index` the cursor in them).
- **Actions.**
  - `Write` is `file_write` (364-368) with `write_buffer`, which is modelled from spec §4.2 (`Buffered`): append the byte, and when the buffer is full write it at `os` and empty it.
  - `Flush` is `file_flush` (447-455). It only calls `apr_file_flush`, on a descriptor opened without APR_FOPEN_BUFFERED.
  - `Seek` is `file_seek`, the same code as for reads.
  - `Close` is `file_close_real` with `free_buffer` (`Freed`).
- **History.** The variables `want` and `cursor` hold the file and cursor Lua's io would have after the same calls. Lua's io writes pending bytes out on flush, seek and close.
- **Not explored.** A write made after a seek back into the pending bytes (`index < limit`) is left out, because the spec does not say what buffer.c does there.

### `Handles`

Handles models one directory object and one file object as Lua drives them.
- `dir`/`file` record `state`, `pool` and `closes`; `file` also records the mode string it was opened with and the flags `Flags` gave it. `state` is one of: none, failed (no object returned), orphan (an object built but not returned), open, closed (handle NULL), collected. `closes` counts the APR close calls.
- `path` is the Lua string passed to `apr.dir_open`. `LuaFreesPath` lets the collector free it once `dir_open` has returned, because nothing anchors it.
- `returned` is the last name `dir:read` gave back.
- The history variables `misuse` (an APR call on a handle that is not open) and `stale` (`filepath` read after the string was freed) record what the properties are about.

`Faults` names the calls that may fail: `apr_pool_create`, `apr_dir_open`/`apr_file_open`, `apr_dir_read`, and `new_object`, whose userdata allocation can raise a Lua memory error. `apr.dir_open` makes its object last, so that error leaves a pool and an open handle behind.

Every method is an action, and both `__gc`s are actions enabled whenever the object exists. Lua may collect an object at any time after the program drops it, so that covers every order.

### `PathCalls`

The path wrappers of both files, one action per wrapper (`DirMake`, `DirMakeRecursive`, `DirRemove`, `FileRemove`, `FileCopy`, `FileAppend`, `FileRename`, `FileAttrsSet`).
- **State.** `node[p]` is what exists at path p (none, dir or file) and `data[p]` is a file's contents as a sequence of blocks. `attr[p]` holds the attributes APR derives from the permission bits. `crashed` records that the process died. The history `last` holds the last call, its two Lua arguments, its status and the file system before it.
- **Arguments.** Each action takes the Lua arguments `arg1` and `arg2` from the paths and binds the C variables as the code does. For copy, append and rename that means `source` and `target` both come from argument 1 (io_file.c 34-35, 56-57, 76-77).
- **APR calls.** They are modelled by their POSIX effect: `Mkdir`, `Rmdir` and `Unlink`, and `MakeRecursive`. `MakeRecursive` is a RECURSIVE operator following `apr_dir_make_recursive`: it retries after making the parent on ENOENT, and maps EEXIST to success.
- **Transfers.** `TransferOntoItself` is `apr_file_transfer_contents` with one path for both ends. Truncation empties the file before the first read. Appending keeps the end of file ahead of the reader, so the loop ends only when the disk (`DiskBlocks`) is full.
- **`FileAttrsSet`.** It walks the table's keys in any order, as `lua_next` may. An unknown string key raises; a key that is neither a string nor a number reaches `strcmp` as NULL. `AttrsSet` models APR's call: a mask with neither readonly nor executable returns success before the path is looked at, otherwise a missing path gives ENOENT.

### MC modules

`MC_TreeDelete`, `MC_BufferedFile`, `MC_WriteBehind`, `MC_Handles` and `MC_PathCalls` give the constants:
- the tree below;
- the file content `<<"x","y","z">>` and seek offsets {-1, 0, 1} (negative numbers cannot be written in a .cfg);
- the same seek offsets for writes;
- the directory entries {".", "..", "a", "b"} and the mode characters {r, w, a, +, b, x};
- the paths `a` (a file holding two blocks), `b`, `d` (a directory) and `d/x`, a disk of 5 blocks, and attribute keys including an unknown string and the model value `NonString`.

## Runs

| Run | Checks | Shows |
|---|---|---|
| td_main (pass) | TypeOK, CleanRunRemovesTree, NoDanglingPath, InnerArenaBounded, ReleasedOnReturn, Termination | With any APR failure and one concurrent remove, create or swap: no path is used after its pool is cleared, the inner pool stays bounded, every exit closes an open handle, closes nothing else (not even a half-built handle from a failed open) and destroys every pool created, a run with no failure or race removes the whole tree, and every call returns. About 73,000 states. |
| td_links (pass) | NoDeletionOutsideTree | A link inside the tree is unlinked, never followed (APR_FINFO_LINK), even with a concurrent remove or create. |
| td_swap (violation) | NoDeletionOutsideTree | The queued subdirectory `b` is swapped for a link to `out` before its turn. `apr_dir_open` follows the link and `out/h` is unlinked. |
| td_memory (violation) | ScratchArenasBounded | The middle pool grows with one directory's size (the FIXME on line 171), against spec §8. |
| td_overflow (violation) | InnerArenaBounded | A directory of ten files, with `allocation_counter` scaled to 4 bits and the inner clear to every 3rd allocation. The clears come at 0, 3 and 6. Then the counter wraps through 7, -8 and -7 with no clear, and 4 paths are live. At 32 bits and 1000 the same gap spans 2147483000 to -2147483000: 1296 live paths, where spec §4.1 says the pool is cleared every 1000th allocation. |
| bf_main (pass) | TypeOK, WindowWithinBuffer, ConsistentWindowAnswersLikeLua | From a state where the buffer matches the descriptor (spec §3), every read and seek answers as Lua's io does, and the index never leaves the buffer. |
| bf_refines (violation) | ImplementsFileCursor | After read(1) and seek('cur', -1), the descriptor is at 0 while the kept buffer assumes 2. The next 'cur' seek reports -2, where Lua answers 0. |
| wb_main (pass) | TypeOK | Every write, flush, seek and close keeps the offsets and the buffer well formed, and fires every action that wb_lua's comparison relies on. About 650,000 states. |
| wb_lua (violation) | FileAgreesWithLuaIo | The file disagrees with what Lua's io gives. TLC's shortest trace is `write('p')` then `flush()`: the file is still empty, though the comment of line 443 says flush saves any written data. The same property also fails in two other ways. With `close()` in place of `flush()`, `file_close_real` frees the buffer without writing it. And `write('p')`, `seek('set', 0)`, `write('p')` puts `pp` on the file where Lua's io gives `p`, because `file_seek` takes pending writes for read-ahead (line 415). |
| h_main (pass) | TypeOK, NoCallOnClosedHandle, ModeMatchesFopen | In any order of method calls, failures and collection, APR never sees a closed handle and closes each handle at most once. The file is opened with every one of the 259 mode strings of up to three characters over r, w, a, +, b, x: each fopen mode gets fopen's flags, and every other string opens for reading or writing. About 637,000 states. |
| h_memory (violation) | ObjectMemorySound | Memory an object owns or points into does not live exactly as long as the object (spec §5). TLC's shortest trace is one `apr.dir_open` whose `new_object` (line 257) raises a memory error after the pool and handle exist. The property fails in three more ways, each confirmed on its own. Without that fault, `dir:close()` then `__gc` never destroys the directory's pool. A failed `apr_file_open` leaves a live pool that `file_gc` skips. And `tostring(dir)` reads the freed Lua string that `filepath` points into: `file_open` copies its path, `dir_open` does not. |
| pc_contract (violation) | CallKeepsDocumentedContract | The path wrappers break their documentation comments. The trace TLC reports ends in one `apr.file_attrs_set` with a non-string key, which kills the process in `strcmp` (io_file.c 148); depending on the order the workers take states, a harmless call may come before it. The four wrapper cases below were each confirmed with only that wrapper enabled. `file_copy(a, d)` empties `a` and returns true. `file_append(a, d)` repeats `a` until the disk is full and returns ENOSPC. `file_rename(a, d)` returns true and moves nothing. `dir_make_recursive(a)` returns true though `a` is a file. With only `dir_make`, `dir_remove` and `file_remove` enabled the property holds (865 states). |

Every property of a passing run has a mutant in `PROJECT.json`: the code with one plausible bug, under which TLC finds the property violated. The mutants are:
- the stacks popped as queues;
- the top of a stack read but not popped (breaks `Termination`);
- subdirectory paths allocated in the inner pool;
- the inner clear done only once;
- the reset of line 162 dropped, so cleanup closes a half-built handle (breaks `ReleasedOnReturn`);
- links followed;
- the `.`/`..` skip dropped;
- the window test without its upper bound;
- the 'cur' base taken from the descriptor;
- the seek status ignored;
- the closed-handle check dropped;
- the second '+' test of the mode parser dropped.

## Bounds and why they suffice

**TreeDelete.**
- The tree is `root` with three files, a link `l` and a subdirectory `a`. `a` holds a file and an empty subdirectory `b`. Outside the tree is `out` with a file `h`, which every link targets.
- This gives two levels of nesting, so both the LIFO order of `todo` and that of `done` matter. It has a link, an empty directory to swap, and a target outside the tree.
- Both clear periods are 2, so the inner clear fires several times inside one directory and the middle clear fires in phase 2. The C constants 1000 and 100 only scale these periods.
- One race is enough to make every entry vanish or appear at any point.
- td_overflow uses a second tree, `root` with ten files. Ten allocations take a 4-bit counter from 0 past its maximum 7 to -7. With a period of 3, which does not divide 2^4, this reproduces the gap that 1000 leaves in 2^32. The same tree passes with 8 bits.
- With two races and td_links' cfg, TLC (441,000 states, 10 s) finds a second route to the td_swap finding. The link `l` is removed between readdir and lstat, read with a stale directory type (`ReadType`), re-created, and then followed by `apr_dir_open`. It needs a file system without `d_type`. It is the same flaw as td_swap, so no run of its own checks it.

**BufferedFile.**
- The buffer holds 2 bytes of a 3-byte file, so a read can be served from the buffer, a refill, or both, and end of file is reached.
- The offsets -1, 0 and 1 with the three bases reach every case of line 429: below, inside and above the window, and a negative target. Seeks go up to position 4, past the end.

**FileMode (in Handles).** Three characters cover every fopen mode ("r+b" and "rb+" are the longest). The character `x` stands for any character the parser does not know.

**WriteBehind.** There are two distinct bytes, a buffer of 2, files of up to 3 bytes, and offsets -1, 0 and 1. A full buffer is written out, a seek lands both inside and outside the pending bytes, and a misplaced byte is told apart from the right one. A length of 4 grows the run to 9.6 million states without adding a case.

**PathCalls.** Four paths give a top-level file, a free name beside it, a directory and a free name inside it. That covers every mkdir, rmdir and unlink outcome: EEXIST, ENOENT, ENOTDIR, ENOTEMPTY, EISDIR, and a recursive make that creates a parent. A two-block file and a disk of 5 blocks let a self-append go round the file twice before ENOSPC. Every violation is one call from the initial state, so the bounds only need to make each call possible.

**Handles.** There is one object of each kind. Objects do not share state, so two of a kind would only repeat the same orders.

## Fairness

`Spec` of TreeDelete carries `WF_vars(Step)`: weak fairness of the C function's own steps. The call runs on the Lua thread from entry to return, so a step that stays possible is taken. Nothing stops the function part-way except the return. The other process (`RaceRemove`, `RaceCreate`, `RaceSwap`) gets no fairness; it owes nothing.

td_main checks `Termination`, `<>(pc = "exit")`, under this fairness. A pool's generation and `allocation_counter` would grow without end in a looping variant. They are bounded by the `MaxGen` guard of `Step` and by the counter's C width, so TLC sees such a loop as a finite cycle or a stop at the cap, and both violate `Termination`. The mutant that reads the top of the stack without popping it is caught this way.

The objects' methods are called at the program's will, so nothing is owed to happen there, and no other module has fairness. Deadlock checking is off because the final states are real ends: the function has returned, both objects have been collected, the written file has been closed, or (PathCalls) the process died in a call.

## Not modelled, and why

- The query wrappers. `temp_dir_get`, `stat` and `file:stat` change nothing. `file_mtime_set` sets one time stamp, which no property could tell apart from the assignment. `file:lock` and `file:unlock` are advisory locks: spec §1 and §5 place them out of scope, and their semantics live in APR and the kernel.
- The permission argument of `dir_make`, `file_copy` and `file_append` (`check_permissions`, defined outside `src/src`). The `hidden` attribute, which APR ignores on Unix.
- The `*l`/`*n`/`*a` read formats. Their scanning lives in buffer.c, and the spec says nothing of it.
- A write after a seek back into pending bytes, and a switch between reading and writing on one buffer. The spec leaves both to buffer.c ("not detailed further").
- The stat fields `dir:read` fills in.
- An APR_INCOMPLETE read of an entry that still exists (an lstat refused on a directory without search permission). Permissions are not modelled; such a read fails every later step on that entry anyway.
- Pool sizes inside the directory object. Each `dir:read` allocates its name in the object's pool (a hazard).
- The precision of `lua_pushnumber` for offsets beyond 2^53 (io_file.c 437): a conversion at sizes TLC cannot reach, and the FIXME on line 436 already names it.
- The spec says both that re-closing a handle is a no-op (§5) and that operating on a closed handle is a reported misuse (§7). The code raises on a second `dir:close()`/`file:close()`, which follows §7.

## Plan for the next steps

1. Handles: count the names `dir:read` allocates in the directory object's pool (io_dir.c 328). The count grows across rewinds, but the spec makes no claim about the object's memory, so there is nothing yet to check it against.
2. Compose Handles with WriteBehind, so that `__gc` of a file with pending writes runs through the same `file_close_real`.
3. The run budget is spent (twelve runs). A new question needs either a merged run or a run retired.
4. PathCalls: let a second process change the paths between the steps of `apr_file_transfer_contents`. That would only matter once copy and append pass their target through.
