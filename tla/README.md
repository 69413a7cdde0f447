# TLA+ models of fsmaker and the stencil cutter

These modules model four parts of the repository's Python tooling:

- `src/tools/fsmaker/api.py`, the engine that formats and edits S5FS disk
  images for Weenix;
- `src/tools/fsmaker/sh.py`, the fsmaker shell whose commands drive that
  engine;
- `src/tools/repotools.py` and `src/tools/make-weenix-repo.py`, which cut
  the student stencil out of the kernel sources;
- `src/kernel/mm/memcheck.py`, the gdb script that checks the kernel's
  allocations, with the `Flag` and `Hook` classes of
  `src/python/weenix/__init__.py` that drive it.

Every definition is translated from the Python source. `PROJECT.json` maps
each definition to the lines it models.

## The system

`api.py` is single-threaded. Every call runs to completion on one image file
before the next call starts. Its parts are:

| Part | Code | State it changes |
|---|---|---|
| Block device adapter | `Block.read/write/zero` | the bytes of a block; an access past the block raises |
| Free-block allocator | `Simdisk.alloc_block`, `Block.free` | `nfree`, `free_block[0..28]` and `last_free_block` in the superblock; list-blocks holding 29 entries and a next pointer |
| Inode table manager | `Simdisk.alloc_inode`, `Inode.free` | `free_inode` in the superblock; the free list threaded through each FREE inode's size field |
| Inode data mapper | `Inode.read/write/truncate` | 28 direct pointers, one indirect table of 1024 entries, the size |
| Directory operations | `_make_dirent`, `_find_dirent`, `getdents`, `create`, `mkdir`, `unlink`, `rmdir`, `lookup`, `open` | 32-byte entries (an inode number and a NUL-terminated name) in a directory's data; link counts |
| Facade and format | `Simdisk.format`, `get_root_inode`, `open` | the whole image |
| Shell | `FsmakerShell.do_*`, `open`, `get_parentdir`, `_dir_clear`, `getfile` in `sh.py` | `_curdir`; calls the operations above |

The parts call each other in a tower:

- Directory operations write entries through `Inode.write`.
- `Inode.write` and `Inode.truncate` allocate and free blocks.
- `Inode.free` truncates the file, then pushes the inode onto the free list.

A call that raises keeps every effect it had before raising. `create` and
`mkdir` catch the exception, free the new inode and re-raise.

The shell runs one command at a time, from `-e` options or its interactive
loop. Each handler catches `S5fsException` around its engine calls and
prints it. `OptionParser.exit` is overridden not to exit, so an argument
error is printed and the handler goes on. Any other exception escapes
`cmd.Cmd.onecmd`, and fsmaker ends with the remaining commands not run.

The stencil cutter is a separate program:

- `cutCode` is a generator. It reads a C file line by line, drops the code
  between `/* NAME {{{ */` and `/* NAME }}} */` for every project not kept,
  and yields a `NOT_YET_IMPLEMENTED` stub for each opening delimiter that is
  not `BLANK`.
- `srcCutdir` drains the generator into a temporary file and then writes it
  over the source file.
- `make-weenix-repo.py`'s `main` calls `srcCutdir` twice: once for the
  selected modules' directories (keeping the other modules and every extra),
  then once for the selected extras' directories (keeping the other extras
  and every module).

The gdb helpers (`src/kernel`, `src/python/weenix`) run inside gdb while
it debugs the kernel. A `Hook` is an internal breakpoint on a
`__py_hook_<name>` function of the kernel. Its `stop` runs a Python
callback and returns `False`, so the kernel goes on only when the callback
has finished. A `Flag` is a boolean parameter (`set kernel memcheck on`)
that the `boot` hook fixes: `get_set_string` puts the boot value back after
any later `set`. With the `memcheck` flag on at boot, `MemcheckFlag`
creates a `Memcheck`. Its hooks record every slab and page allocation in a
dict, count frees, flag frees of unknown addresses or with the wrong page
count, and print the leaks at `shutdown`. Allocations made before the
`initialized` hook are recorded but not counted or reported. One helper
changes kernel state: `info.string`, behind the debugger's info commands,
calls `page_alloc_n(8)` in the stopped kernel, runs an info function that
writes into those pages, reads the text, and calls `page_free_n`. The page
hooks fire for these calls too, so memcheck records the buffer. The other
helpers only read a stopped kernel and print it; see "Not modelled".

## Modules

| Module | Models | State |
|---|---|---|
| `S5Alloc` | the allocator, as operators on a record `[nfree, free_block, last_free_block, lst]`; format's seeding loop (`SeedFrom`) | none (operators) |
| `FreeBlocks` | the abstract allocator: a set of free blocks; alloc takes any member and fails only on an empty set | `free`, `ret` |
| `S5AllocSpec` | a client that allocates and frees blocks in any order | `alloc`, `used`, `ret` |
| `S5File` | `Inode.read`, `Inode.write` and `Inode.truncate` as operators on an image `[alloc, data, ind]` and an inode record | none (operators) |
| `S5FileSpec` | one regular file written and truncated in any order; `content` is a history variable holding the bytes the spec says the file has | `disk`, `inode`, `content`, `err` |
| `S5FS` | the inode table, directory operations, rollbacks, format, and reachability from the root (`lookup`/`open`) | none (operators) |
| `S5FSSpec` | a formatted image used through create, mkdir, unlink, rmdir, write and truncate on reachable paths | `disk`, `inodes`, `free_inode`, `dents`, `hung` |
| `S5Shell` | the shell handlers as operators: `normpath`, `Inode.lookup`/`open`, `FsmakerShell.open`, `get_parentdir`, `cd`, `touch`, `mkdir`, `rmdir`, `rm` with `_dir_clear`, `getfile`, `truncate`, `putfile`, `inode`, `ls`/`cat`, `format` with `-d` and its refusals | none (operators) |
| `S5ShellSpec` | the shell running any sequence of commands on a formatted image | the S5FSSpec variables, `cwd`, `exited`, `filled`, `blank` |
| `CutCode` | `cutCode` run by `srcCutdir` on one file, through the passes `main` gives it | `original`, `plan`, `pass`, `file`, `pos`, `in_projects`, `out`, `status` |
| `FSTree` | the abstract file tree of the interface (spec 4.5): paths to nodes; create and mkdir add a node where the name is free, unlink removes a file, rmdir an empty directory, write and truncate resize one file | `tree` |
| `S5Crash` | `S5FSSpec`'s operations cut short at any write, each as the set of images it can leave (`CreateMid`, `MkdirMid`, ...), and a `Kill` action per operation | the S5FSSpec variables, `crashed` |
| `Memcheck` | the `memcheck` flag (`Flag.get_set_string`, `boot_callback`) and each `Memcheck` callback as an action; the kernel as an environment that allocates, frees (wrongly too), passes `initialized` and shuts down, with ghost variables for what it really holds; `info.string` (`InfoString`), whose info function or read may raise before the free | `value`, `final`, `on`, `mc`, `report`, `phase`, `kinit`, `kslab`, `kpage`, `bad`, `events` |
| `MCS5Alloc`, `MCS5File`, `MCS5FS`, `MCS5Shell`, `MCS5Crash`, `MCMemcheck`, `MCCutCode` | the instances that TLC checks | |

### How the model corresponds to the code

- **Operations are functions.** Each code operation is a pure function of
  the state it reads, returning the new state and the error it raised. This
  lets a loop that allocates several blocks thread the allocator through its
  iterations, as the Python does:
  - `WriteLoop` and `ShrinkLoop` are `RECURSIVE`.
  - `WriteBlock` and `TruncateBlock` are one loop iteration each.
  - An iteration that fails keeps the effects of the earlier ones.
- **Guards follow the code's checks.** The order of each `CASE` is the order
  of the code's checks and raises. For example, `Rmdir` tests `"."` and
  `".."`, then the directory, the entry, the type, emptiness, and finally the
  link count.
- **Data is abstracted.**
  - A byte is 0 or 1, and every write stores 1s. So a 1 read back was
    written, and a 0 is a hole or was zeroed.
  - A directory entry is the record `[ino, name]`, where `name = ""` is a
    removed slot (`Dirent.remove` writes a NUL into the first byte of the
    name).
  - A directory's bytes still go through `Write`. Entries therefore allocate
    blocks and can fail for lack of space, exactly as in the code.
- **Sizes are scaled down** (see "Bounds"). The geometry is kept:
  - direct pointers, then one indirect table;
  - `BlockSize % DirentSize = 0`;
  - a free cache that overflows into list-blocks.
- **Stored state is canonical.** The Spec modules store the state through
  `LiveAlloc`, `LiveDisk`, `LiveInodes` and `LiveDents`. These zero the data
  no later call reads before rewriting it, so states that differ only in dead
  bytes are one state:
  - cache entries at or above `nfree`;
  - the list view of blocks not in the chain;
  - the contents of FREE inodes other than their next-free link;
  - the stale inode number of a removed slot.
- **`Bind` threads results.** `Bind(e, LAMBDA r : ...)` (in `S5Alloc`)
  hands the result of one step to the next, evaluating it once. TLC
  re-evaluates a LET definition at every use when it collects coverage, so
  the chained operations (mkdir → `_make_dirent` → write → write loop) bind
  each intermediate result this way. The actions bind the operation's result
  with `\E r \in {...}`.
- **Root is 0.** `Root == 0` because `format` never writes the `root_inode`
  field. The zeroed image holds 0 there, which is also the first inode
  `format` takes.

### The shell (`S5Shell`, `S5ShellSpec`)

- **Paths are records.** A path argument is `[abs, segs]`: whether it
  begins with `/`, and its components. `_curdir` is kept as the components
  of the normalised path it holds. `NormFrom` is `os.path.normpath` on
  components: `.` is dropped, and `..` cancels the component before it.
- **Each handler is one operator and one action.** Its result is
  `[fs, cwd, err, exit]`. `exit` is TRUE when an exception escapes the
  handler. The action `Do*` stores the result; once `exited` is TRUE,
  nothing more happens.
- **The code's resolution rules are kept as written.**
  - `get_parentdir` opens `_curdir` when the normalised path has no `/`
    before its last part. That is the case for `/name`.
  - `cd` stores `_curdir + "/" + argument`.
  - `rm -r` runs `_dir_clear` before `rmdir`.
  - `getfile` truncates its destination whatever its type.
  - `truncate` calls `Inode.truncate` and catches only `S5fsException`, so
    a growing truncate's TypeError ends fsmaker and its endless loop sets
    `hung`.
  - `putfile` only reads the image. It reports a missing source and then
    calls `read` on `None`; the AttributeError ends fsmaker. Any other
    outcome leaves the image as it was.
  - `format` with options it refuses keeps the old image, and `-d` still
    fills it. Options the shell accepts but `Simdisk.format` refuses (zero
    inodes, a size that is no multiple of the block size, too small) raise
    `S5fsException` outside any try and end fsmaker (`FormatRejected`).
  - `inode` of a number reads that inode; of a path, it opens the path in
    its `except ValueError` clause, so a failed open ends fsmaker
    (`InodeCmd`). `ls` and `cat` catch every error the engine raises and
    change nothing (`ReadCmd`).
- **The image file may start empty.** fsmaker creates the image file when it
  does not exist, or uses an empty temporary file (`StartsBlank`). Until a
  `format` with good options, every command that reads it unpacks a short
  read and raises `struct.error`, which no handler catches (`OnImage`).
- **`_dir_clear` walks like the generator does.** It visits the slots up to
  the size the directory had when `getdents` started, reading each slot when
  it is reached. It stops at the first exception.
- **Data is abstracted.** A host file is its length, and `getfile` writes it
  in `Chunk`-sized pieces. A directory overwritten by `getfile` has no
  entries left, and its size is what was written.
- **`filled` is a history variable.** It records that the last command was
  `format -d`, so that a property can speak of the state `format -d`
  leaves.

### Crashes (`S5Crash`)

fsmaker writes the image file in place, with no journal. Every setter and
`Block.write` seeks first, which flushes the write before it. Ctrl-C raises
`KeyboardInterrupt`, and only the outermost `try` of `sh.py` (lines
693-720) catches it, so fsmaker then ends. A killed call therefore leaves
its writes up to some point, in the order the code issues them.

- **`Op_Mid` is the set of images a call can leave.** For each operation
  (`AllocBlockMid`, `FreeBlockMid`, `WriteMid`, `TruncateMid`,
  `FreeInodeMid`, `MakeDirentMid`, `CreateMid`, `MkdirMid`, `UnlinkMid`,
  `RmdirMid`), it holds the image after each write that a later call or a
  property can observe. This includes the images inside the rollbacks of
  `create` and `mkdir`. Writes into a block nothing links yet (zeroing, a
  new list-block's entries) are not observable until the linking write.
- **The orders that matter are the code's:**
  - `Block.free` sets `last_free_block` before `nfree = 0`;
  - `alloc_block`'s refill moves `last_free_block` before it sets `nfree`;
  - `truncate` frees a block before it clears the pointer to it;
  - `Inode.free` sets the type, then the next-free link, then the list
    head;
  - `_make_dirent` writes the inode number, then the name;
  - `mkdir` writes `.` and `..`, raises the parent's link count, then
    enters the new directory in its parent.
- **`Kill` is terminal.** It stores one such image through the `Live*`
  canonical forms and sets `crashed`, after which nothing happens.
  `Complete` is any step of `S5FSSpec` taken before that.
- **Out of scope.** Reads, the shell's path handling, and the restart
  itself are not modelled. A restart reopens the image as it was left;
  `FreeListSafe` is stated about what the next run would allocate.

### The file tree (`FSTree`) and the refinement

`FSTree` says what a caller of the engine is promised, with no disk under
it. `S5FSSpec` maps its state onto that tree (`TreeOf`). Each path from
the root through live entries other than `.` and `..` (as `lookup` and
`open` walk them) becomes a node: a directory, or a file with its inode's
size. `TreeRefinement` is `FSTree`'s specification under that mapping.
Every step of the detailed model must therefore be one step of `FSTree`,
or leave every path as it was. That covers a call that returns, a call
that fails after its rollback, a hung truncate, and, in the crash run, a
call killed at any write.

The property is checked in the crash run. The crash run's `Complete`
steps are all of `S5FSSpec`'s calls, so that run covers the calls without
crashes too. In the larger fs instance it would take more than five
minutes.

### The stencil cutter (`CutCode`)

- **Lines are abstracted.** A line is a code line or a delimiter
  `[kind, proj, blank]`. The function name `func_regex` captures only fills
  in the stub's text, so it is left out.
- **One file is followed through its passes.** `plan` holds the keep set of
  each pass: some module passes, then some extra passes, each repeated when
  `os.walk` reaches the file again.
- **One action per branch of the loop:**
  - `CutDelimiter`: a delimiter of a project that is not kept;
  - `KeptDelimiter`: a delimiter of a kept project;
  - `OtherLine`: any other line;
  - `EndOfFile`: the end of the file, where `srcCutdir` writes the output
    back and the next pass starts.
- **A raise ends the run.** The file is left as the pass found it, because
  `srcCutdir` writes only after the generator is drained.
- **`Expected` states the docstring.** It is computed from the original file
  and the projects no pass keeps.

## Runs

| Run | Config | Expect | What it shows |
|---|---|---|---|
| alloc | `MCS5Alloc.cfg` | pass | Any sequence of `alloc_block`/`Block.free` keeps every data block free exactly once or in use (`Conservation`). The cache plus chain refines `FreeBlocks`: out-of-space is raised only when nothing is free (`AllocRefinesFreeSet`). |
| file | `MCS5File.cfg` | pass | Writes (which allocate the table and blocks on demand, and can fail part way) and truncates (which free them) never lose, share or double-free a block, in every call that returns (`Conservation`). Every byte written and not cut reads back (`WrittenBytesReadBack`). |
| file_grow | `MCS5File_grow.cfg` | violation | `TruncateGrowsFile`: a growing truncate raises TypeError (direct index) or never returns (indirect index). |
| fs | `MCS5FS.cfg` | pass | All directory operations, their failures and rollbacks, and writes and truncates of files in the tree keep four things right: the free-inode list is exact (`FreeInodeList`), no block is shared (`NoSharedBlocks`), no reachable name leads to a freed inode (`NoDanglingEntry`), and every directory's `.` and `..` are right (`DotEntries`). |
| fs_links | `MCS5FS_DirLinkCounts.cfg` | violation | `DirLinkCounts`: a failed mkdir (e.g. `mkdir .`) leaves the parent's link count raised, and the parent can then never be removed. |
| fs_leak | `MCS5FS_NoLeakedBlocks.cfg` | violation | `NoLeakedBlocks`: the indirect table is freed only when its entry 0 is present, and `Inode.free` skips truncate at size 0, so blocks leak. |
| cut | `MCCutCode.cfg` | pass | Every file of up to 4 lines, through every chain of passes `main` can give it, is cut exactly as the docstring says when its regions match and do not nest, and no pass raises on it (`CutMatchesDocstring`). |
| shell | `MCS5Shell.cfg` | pass | Any sequence of `cd`, `touch`, `mkdir`, `rmdir`, `rm [-r]`, `getfile`, `truncate`, `putfile` and `format [-d]` never leaves a reachable name leading to a freed inode (`NoDanglingEntry`). `format -d` run at the root copies the whole host tree, every file with its size, or ends fsmaker (`FormatCopiesHost`). |
| memcheck | `MCMemcheck.cfg` | pass | Under any order of kernel events, memcheck's report is the truth: the leaked slab objects and pages are those the kernel still holds from after `initialized`, the invalid frees are the kernel's wrong frees, and the slab alloc and free counts differ by the leaks (`ReportExact`). Info commands, failing ones included, run between the kernel's events. |
| shell_errors | `MCS5Shell_ShellSurvivesErrors.cfg` | violation | `ShellSurvivesErrors`: `rm -r` of a missing name calls `get_type()` on `None`, and `putfile` of a missing source calls `read` on `None`; the AttributeError ends fsmaker (`sh.py` 464, 604). `truncate -s 7` of a file raises TypeError (`sh.py` 429). `inode` of a missing path raises from its except clause (`sh.py` 288), and `Simdisk.format`'s refusal escapes `do_format` (`sh.py` 651). TLC's shortest trace is fsmaker started on an empty image file, where any command but `format` raises `struct.error` (`sh.py` 706). |
| fs_crash | `MCS5Crash.cfg` | pass | fsmaker killed at any write of any operation, rollbacks included, never leaves a reachable name leading to a freed inode (`NoDanglingEntry`) or a reachable directory with wrong `.` or `..` (`DotEntries`). Every call, completed or killed, is one step of `FSTree` or changes no path (`TreeRefinement`). Removing the entry before freeing, and writing `.` and `..` before the parent's entry, are what make these hold. |
| fs_crash_freelist | `MCS5Crash_FreeListSafe.cfg` | violation | `FreeListSafe`: the spec says the image stays consistent across crashes by construction, but `mkdir a` with `a` taken, killed in its rollback inside `Block.free`'s list-block path, leaves two blocks both cached and in the new list-block, so the next run allocates them twice. |

Each violation run is recorded as a finding in `PROJECT.json`, with the line
where the code goes wrong.

### Further configurations

These configurations state what the code is meant to do, and TLC finds each
one violated. Each is a single bug that the runs above do not repeat:

| Config | Property | What TLC finds |
|---|---|---|
| `MCS5File_stale.cfg` | `ReadMatchesContent` | a shrinking truncate does not zero the tail of the last block, so regrowing the file exposes old bytes (`api.py` 280) |
| `MCS5File_full.cfg` | `TruncateOfFullFile` | truncating a file of the maximum size reads past the indirect table and raises |
| `MCS5FS_DirReusesSlots.cfg` | `DirReusesSlots` | `_make_dirent` never reuses a removed slot: it tests the new name's length, not the slot's |
| `MCS5FS_NoOrphanInode.cfg` | `NoOrphanInode` | `mkdir` under a regular file raises the file's link count before failing, so unlinking the file leaves an allocated inode with no name |
| `MCCutCode_NestedRegionCut.cfg` | `NestedRegionCut` | a kept project's delimiter inside a cut region is copied into the output |
| `MCS5Shell_CwdIsDirectory.cfg` | `CwdIsDirectory` | `cd /a` run in `/a` sets the current directory to `/a/a`, which does not exist (`sh.py` 244) |
| `MCS5Shell_StaleCwd.cfg` | `CwdIsDirectory` | `format` keeps a current directory that the new image does not have (`sh.py` 651) |
| `MCS5Shell_AbsoluteMkdirAtRoot.cfg` | `AbsoluteMkdirAtRoot` | `mkdir /a` run in `/a` makes `/a/a`, because `get_parentdir` opens the empty part before `/` relative to `_curdir` (`sh.py` 164) |
| `MCS5Shell_RmDotRefused.cfg` | `RmDotRefused` | `rm -r .` deletes everything in the current directory before `rmdir` refuses `.` (`sh.py` 465) |
| `MCS5Shell_DotEntries.cfg` | `DotEntries` | `getfile f .` overwrites the current directory's entries; the directory keeps its type with no `.`, and its children become unreachable (`sh.py` 549) |
| `MCCutCode_MismatchRaises.cfg` | `MismatchRaises` | a region left open at the end of the file is not reported; the rest of the file is cut and written back (`repotools.py` 138) |
| `MCMemcheck_LeakReportIsKernels.cfg` | `LeakReportIsKernels` | an info command whose info function raises never reaches `page_free_n`, and memcheck reports its 8-page buffer as a leak of the kernel's (`info.py` 16) |
| `MCS5File_hung.cfg` | `HungTruncateKeepsBlocks` | the endless loop of a growing truncate writes 0 into indirect entry `curr - NDirect` on every turn; when the file's last block is at that index, its pointer is lost while fsmaker hangs (`api.py` 301) |
| `MCS5Crash_DirSizeWhole.cfg` | `DirSizeWhole` | a create killed between `_make_dirent`'s two writes leaves the directory's size not a multiple of the entry size, and no name can be added to it again (`api.py` 373) |
| `MCS5Shell_FormatAnywhere.cfg` | `FormatAnywhereCopiesHost` | `format -d` run below the root, with options that keep the image, builds the host tree under the current directory, then overwrites a directory it just made with a host file (`sh.py` 663) |

### Seeded faults

Each property of a passing run is paired with a seeded fault: an operator
defined just before the definition it replaces (names such as
`FreeBlockDropsChain`, `TruncateBlockKeepsEntry`, `CutDelimiterStubsBlank`
`CopyFromFullChunks`, `UnlinkMidFreeFirst`, `IsEmptyFirstEntry` and `SlabFreeCountsAll`). Each
fault is a plausible slip in that code, and TLC finds the property violated
when the fault replaces the original.

## Bounds

- **MCS5Alloc:** 6 data blocks and a 2-entry cache.
  - `format` builds a chain of two list-blocks.
  - Allocation drains the cache, refills from the chain twice and then runs
    out.
  - Freeing overflows the cache into new list-blocks.
  - 13,700 states, about 1 second.
- **MCS5File:** 2-byte blocks, 2 direct pointers and a 2-entry table.
  - A file holds at most 4 blocks (8 bytes). Filling it needs 5 blocks, but
    there are only 4 data blocks, so a write runs out of space part way.
  - Offsets range over every size, and lengths go up to one more than a
    block.
  - 235,584 states, about 2 minutes.
  - The stale and full runs use 5 data blocks, so a file of the maximum size
    fits.
- **MCS5FS:** 3 inodes, names `a` and `b` besides `.` and `..`, 4-byte
  blocks holding two 2-byte entries, 1 direct pointer, a 2-entry table and 6
  data blocks.
  - Three directory entries fill the direct block and force the indirect
    table.
  - Writes at 0, 8 and 11 reach the direct block, the second table entry
    (leaving entry 0 a hole) and the last byte of the largest file.
  - Truncates cut to 0 or 1 byte.
  - `MaxLinks = 3` caps link counts, which failed mkdirs raise without end.
  - 168,526 states, about 1 minute.
- **MCS5Shell:** 4 inodes and 4 data blocks of 6 bytes. A block holds three
  2-byte entries, so the root holds `.`, `..` and one name in its direct
  block, and a second name forces the indirect table.
  - Names are `a` and `b`. Paths are `a`, `b`, `.`, `..` and `/a`.
  - The host file `getfile` copies is 3 bytes, in 2-byte chunks. That is
    one whole chunk and one short one, and a size that is not a multiple of
    the entry size, so a directory it overwrites cannot be read as one.
  - The host tree of `format -d` is a directory `a` holding a 3-byte file
    `a`, copied as one whole chunk and one short one.
  - `MaxDepth = 1` bounds `_curdir`, which the buggy `cd` lengthens without
    end; the `cd` configuration uses 2. `MaxLinks = 2` caps link counts.
  - `truncate -s` takes 0, which frees a file's block, and 7, which is past
    the first block and so reaches the growing loop's TypeError.
  - 69,440 states, about 1 minute 40 seconds with coverage.
- **MCS5Crash:** the MCS5FS geometry with one name `a` and writes at 0 and
  8 only, which keeps the run under a minute.
  - A file then still reaches its indirect table, and the root's third entry
    forces the root's table and a refill, so every `Op_Mid` that frees or
    allocates through a list-block is reached.
  - Every kill is tried from every state of the run, so each image is
    checked after any sequence of completed calls.
  - 102,133 states, about 20 seconds.
- **MCMemcheck:** two addresses (symmetric model values), allocations of 1
  or 2 pages, and 6 allocation or free events.
  - Six events are enough for an allocation before `initialized` freed
    after it, an address freed wrongly (twice, or with the wrong page count)
    and then reused, and a leak at shutdown, in one run.
  - An info command counts as two events (one when it raises), so it can
    run beside wrong frees and reused addresses.
  - 72,234 states, a few seconds.
- **MCCutCode:** one module project `VM` and one extra project `PIPES`.
  - Every file of up to 4 lines is checked. Each line is code, or an opening
    (blank or not) or closing delimiter of either project.
  - A plan is a module pass and an extra pass, each taken 0 to 2 times.
  - Four lines are enough for a matched region beside a kept delimiter, a
    region nested in another, an unclosed region, and two regions in a row.
  - 133,978 states, a few seconds.

## Fairness and deadlock

- **No run states a liveness property.** The cutter's passes read a
  finite file along a finite plan, and every step advances the line or the
  pass, so that the cutter ends holds by the model's shape and says nothing
  about the code; it is not checked.
- **The engine, the shell, the cutter and memcheck have no fairness.** Memcheck's
  callbacks run only when the kernel reaches a hook, and nothing in this
  repository makes the kernel do so.
- **The engine and the shell** are sequential
  libraries with no scheduler; a command runs only when the user gives it,
  so nothing must eventually happen.

Some runs set `CHECK_DEADLOCK FALSE` because the code really does stop there:

- **file and fs:** a growing truncate past a direct index loops forever
  (`hung`/`Hang`), and the model then takes no further step.
- **shell:** an exception that escapes a handler ends fsmaker (`exited`).
  In every other state `format` is enabled.
- **crash:** a kill ends fsmaker (`crashed`).
- **cut:** `main` ends after the last pass, or after a pass raises.

The allocator and memcheck runs check deadlock; `set` stays enabled in
memcheck after the kernel halts.

## Not modelled

- **Argument checks and on-disk fields.** `format`'s argument checks, its
  magic, version and `num_inodes` fields, and the truncation of the image
  file are I/O or checks with no later effect.
  - The shell's `format` is modelled only as options the shell refuses,
    options `Simdisk.format` refuses, and good options.
- **Name-length checks.** The `S5_NAME_LEN` checks and the NUL-termination
  check of names are not modelled: the names in the model are short and
  well-formed.
- **Printing and read-only commands.** `get_summary`,
  `get_super_block_summary` and `binary_print` only print. `superblock` and
  `block` only read the image and never end fsmaker on a formatted one
  (`superblock` fails on an empty image as `ls` does, which the model
  covers). Completion, help and argument parsing
  change nothing.
- **`free_inodes`.** It calls a method that does not exist, and nothing uses
  it.
- **The rest of `make-weenix-repo.py`.** `make`, `git`, the removal of
  `.git` and staff files, `cleanDir` and the binary-keep path drive other
  programs or copy files, with no protocol of their own. The stub's text
  (indentation, function name) changes no control.
- **The other gdb helpers.** `kmem`, `list`, `proc`, the rest of `stack`,
  `page`, `slab` and the command and parameter classes read a stopped
  kernel through gdb and print it. They change no state, and what they read
  (the kernel's C structures) is not in the repository. In memcheck, the
  stack traces, the allocators' names and sizes (the leaked-bytes figure)
  and the printed text are left out.
- **Crashes in the shell's own steps.** The crash model cuts short the
  engine's operations. The shell's multi-command handlers (`rm -r`'s walk,
  `format -d`'s copy) are sequences of such calls, and a kill between two of
  them leaves the image of a completed call, which `S5FSSpec` already
  reaches.
- **Rerunning `make-weenix-repo.py`.** A second run in the same tree removes
  the `.git` the first one made and then stops at `os.remove` of a staff file
  the first run already removed (lines 278-290). This is a sequence of file
  system calls with no state of the script's own, so it is recorded here and
  not modelled.

## Plan for later work

1. **A larger MCS5FS instance** (4 inodes) for nested directories.
2. **`TreeRefinement` in the two-name fs instance.** A state constraint
   or a smaller geometry is needed to keep it under five minutes.
3. **A run for `LeakReportIsKernels`** (the `info.string` leak), if a run
   slot frees up; today it is a further configuration.
