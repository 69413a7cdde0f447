------------------------------ MODULE S5FSSpec ------------------------------
(***************************************************************************)
(* A formatted S5FS image used through the engine's interface (spec        *)
(* section 6): any sequence of create, mkdir, unlink and rmdir on a        *)
(* directory a path can reach, and write and truncate on a regular file a  *)
(* path can reach, each call running to completion before the next (the    *)
(* engine is single-threaded).  A call that raises keeps the effects it    *)
(* had before raising; hung records a call that never returned (Hang),     *)
(* after which nothing happens.                                            *)
(***************************************************************************)
EXTENDS S5FS

CONSTANTS
  WriteOffsets, \* offsets a write call stores at
  WriteLens,    \* lengths of the data a write call stores
  TruncSizes,   \* sizes a truncate call sets
  MaxLinks      \* model bound: a link count mkdir may raise

VARIABLES disk, inodes, free_inode, dents, hung

vars == <<disk, inodes, free_inode, dents, hung>>

\* Simdisk.get_root_inode: format never writes the root_inode field, which
\* the freshly zeroed image holds as 0, the first inode format takes.
Root == 0

FS == [d |-> disk, ino |-> inodes, fi |-> free_inode, dents |-> dents]

InodeRec ==
  [size: FileSizes \cup Inodes \cup {NIL}, type: {TFREE, TDATA, TDIR},
   link_count: Int, direct: [0 .. NDirect - 1 -> {0} \cup DataBlocks],
   indirect: {0} \cup DataBlocks]

\* Type invariant: inodes have the on-disk fields, a file in use has a
\* size a file can have (create and mkdir overwrite the next-free link),
\* and a directory's size is exactly its entries times the entry size (the
\* two writes of _make_dirent add one whole entry).
TypeOK ==
  /\ disk.alloc \in AllocState
  /\ inodes \in [Inodes -> InodeRec]
  /\ \A i \in Inodes : inodes[i].type # TFREE => inodes[i].size \in FileSizes
  /\ \A i \in Inodes : inodes[i].type = TDIR => inodes[i].size = Len(dents[i]) * DirentSize
  /\ free_inode \in Inodes \cup {NIL}
  /\ dents \in [Inodes -> Seq([ino: Inodes, name: AllNames \cup {""}])]
  /\ hung \in BOOLEAN

(***************************************************************************)
(* The image as the model stores it.  No directory operation, write or     *)
(* truncate reads the bytes of a file, so they are not kept (S5FileSpec    *)
(* checks them); the table view of a block that is no inode's indirect     *)
(* table is dead, as is the allocator data LiveAlloc drops.                *)
(***************************************************************************)
LiveDisk(d, ino) ==
  [alloc |-> LiveAlloc(d.alloc),
   data  |-> [b \in DataBlocks |-> ZeroData],
   ind   |-> [b \in DataBlocks |-> IF \E i \in Inodes : b = ino[i].indirect
                                   THEN d.ind[b] ELSE ZeroInd]]

\* A FREE inode keeps only its next-free link: create and mkdir overwrite
\* the rest before anything reads it (lines 379-384, 394-399).
LiveInodes(ino) ==
  [i \in Inodes |-> IF ino[i].type = TFREE
                    THEN [Fresh(TFREE) EXCEPT !.size = ino[i].size, !.link_count = 0]
                    ELSE ino[i]]

\* Entries are read only in a directory, and the inode number of a removed
\* slot never (no call looks up the empty name).
LiveDents(dn, ino) ==
  [i \in Inodes |-> IF ino[i].type # TDIR THEN <<>>
                    ELSE [k \in DOMAIN dn[i] |->
                            IF dn[i][k].name = "" THEN [ino |-> 0, name |-> ""] ELSE dn[i][k]]]

Init ==
  \E f \in {Format} :
    /\ disk = LiveDisk(f.d, f.ino)
    /\ inodes = LiveInodes(f.ino)
    /\ free_inode = f.fi
    /\ dents = LiveDents(f.dents, f.ino)
    /\ hung = FALSE

\* Store the outcome of one call.
Apply(res) ==
  /\ ~hung
  /\ \E r \in {res} :
       /\ disk' = LiveDisk(r.fs.d, r.fs.ino)
       /\ inodes' = LiveInodes(r.fs.ino)
       /\ free_inode' = r.fs.fi
       /\ dents' = LiveDents(r.fs.dents, r.fs.ino)
       /\ hung' = (r.err = Hang)

Reach == Reachable(FS, Root)

CreateOp == \E dir \in Reach, name \in AllNames : Apply(Create(FS, dir, name))
\* FsmakerShell.do_mkdir (sh.py 525-540): mkdir of the last path segment in
\* the directory get_parentdir resolves; "mkdir ." and "mkdir .." pass "."
\* and "..".  A failed mkdir leaves its parent's link count raised, so
\* repeated calls raise it without end; the model stops at MaxLinks.
MkdirOp  ==
  \E dir \in Reach, name \in AllNames :
    /\ inodes[dir].link_count < MaxLinks
    /\ Apply(Mkdir(FS, dir, name))
UnlinkOp == \E dir \in Reach, name \in AllNames : Apply(Unlink(FS, dir, name))
\* FsmakerShell.do_rmdir (sh.py 478-493).
RmdirOp  == \E dir \in Reach, name \in AllNames : Apply(Rmdir(FS, dir, name))

\* The shell writes and truncates only regular files: do_truncate (sh.py
\* 412-432) refuses a path that is not S5_TYPE_DATA.
WriteOp ==
  \E f \in {x \in Reach : inodes[x].type = TDATA}, off \in WriteOffsets, len \in WriteLens :
    Apply(FileWrite(FS, f, off, len))

TruncateOp ==
  \E f \in {x \in Reach : inodes[x].type = TDATA}, size \in TruncSizes :
    Apply(FileTruncate(FS, f, size))

Next == CreateOp \/ MkdirOp \/ UnlinkOp \/ RmdirOp \/ WriteOp \/ TruncateOp

Spec == Init /\ [][Next]_vars

\* The blocks the live (non-FREE) inodes address, and the number of
\* references they hold to them.
LiveInodeSet == {i \in Inodes : inodes[i].type # TFREE}
InUse == UNION {Addressed(disk, inodes[i]) : i \in LiveInodeSet}
RECURSIVE RefSum(_)
RefSum(S) ==
  IF S = {} THEN 0
  ELSE LET i == CHOOSE x \in S : TRUE IN RefCount(disk, inodes[i]) + RefSum(S \ {i})

\* The free-inode list as a sequence, following size fields from the head.
RECURSIVE FreeChain(_, _)
FreeChain(i, fuel) ==
  IF i \notin Inodes \/ fuel = 0 THEN <<>>
  ELSE <<i>> \o FreeChain(inodes[i].size, fuel - 1)

(***************************************************************************)
(* Inode conservation, free side (spec section 8): the list threaded       *)
(* through the size fields from free_inode visits every FREE inode once,   *)
(* ends in the sentinel, and contains no inode in use, after any mix of    *)
(* creates, mkdirs, their rollbacks, unlinks and rmdirs.                   *)
(***************************************************************************)
FreeInodeList ==
  LET c == FreeChain(free_inode, NInodes + 1) IN
  /\ Len(c) <= NInodes
  /\ \A x, y \in DOMAIN c : c[x] = c[y] => x = y
  /\ {c[x] : x \in DOMAIN c} = {i \in Inodes : inodes[i].type = TFREE}

(***************************************************************************)
(* No block is ever shared (spec section 3): a block addressed by an inode *)
(* in use is addressed once, by one inode, and is not on the free list,    *)
(* through allocation on write, freeing on truncate and unlink, and the    *)
(* rollbacks of create and mkdir.                                          *)
(***************************************************************************)
NoSharedBlocks ==
  /\ NoDuplicateFree(disk.alloc)
  /\ RefSum(LiveInodeSet) = Cardinality(InUse)
  /\ InUse \cap FreeSet(disk.alloc) = {}

(***************************************************************************)
(* A name a path can reach never leads to a freed inode: unlink and rmdir  *)
(* remove the entry of every inode they free, and a failed create or mkdir *)
(* frees only an inode no entry names.                                     *)
(***************************************************************************)
NoDanglingEntry ==
  \A x \in Reach : inodes[x].type = TDIR =>
    \A k \in Live(FS, x) : inodes[dents[x][k].ino].type # TFREE

(***************************************************************************)
(* Every reachable directory begins with "." naming itself and ".."        *)
(* naming a directory that has an entry for it (the root names itself),    *)
(* as mkdir and format create them.                                        *)
(***************************************************************************)
DotEntries ==
  \A x \in Reach : inodes[x].type = TDIR =>
    /\ Len(dents[x]) >= 2
    /\ dents[x][1] = [ino |-> x, name |-> "."]
    /\ dents[x][2].name = ".."
    /\ LET p == dents[x][2].ino IN
       IF x = Root THEN p = Root
       ELSE \E k \in Live(FS, p) : dents[p][k].ino = x /\ dents[p][k].name \notin {".", ".."}

(***************************************************************************)
(* Link counts (spec section 4.5): a directory's link count is 1 plus the  *)
(* number of its subdirectories, which rmdir relies on (it refuses a link  *)
(* count other than 1), and mkdir's rollback-on-failure is meant to keep.  *)
(***************************************************************************)
DirLinkCounts ==
  \A x \in Reach : inodes[x].type = TDIR =>
    inodes[x].link_count =
      1 + Cardinality({k \in Live(FS, x) : dents[x][k].name \notin {".", ".."}
                                           /\ inodes[dents[x][k].ino].type = TDIR})

(***************************************************************************)
(* Slot reuse (spec section 4.5, insertEntry): a directory grows by a new  *)
(* entry only when it has no removed slot to reuse.                        *)
(***************************************************************************)
DirReusesSlots ==
  [][\A x \in Inodes :
       inodes[x].type = TDIR /\ inodes'[x].type = TDIR /\ Len(dents'[x]) > Len(dents[x])
         => Live(FS, x) = DOMAIN dents[x]]_vars

(***************************************************************************)
(* Free-list conservation with files (spec section 8): every data block is *)
(* either free or addressed by an inode in use; none is lost when files    *)
(* are truncated, unlinked or fail to grow.                                *)
(***************************************************************************)
NoLeakedBlocks == FreeSet(disk.alloc) \cup InUse = DataBlocks

(***************************************************************************)
(* Inode conservation, used side (spec section 8): every inode in use can  *)
(* be reached by a path; none is left allocated with no name.              *)
(***************************************************************************)
NoOrphanInode == LiveInodeSet \subseteq Reach

-----------------------------------------------------------------------------

(***************************************************************************)
(* The tree a caller sees: every path from the root through live entries   *)
(* other than "." and "..", with the inode it reaches (lookup, lines       *)
(* 430-439, and open, 441-459).  fuel bounds the depth, as no directory    *)
(* can hold more than NInodes levels.                                      *)
(***************************************************************************)
RECURSIVE PathsFrom(_, _, _)
PathsFrom(x, p, fuel) ==
  {<<p, x>>} \cup
    IF inodes[x].type # TDIR \/ fuel = 0 THEN {}
    ELSE UNION {PathsFrom(dents[x][k].ino, Append(p, dents[x][k].name), fuel - 1) :
                  k \in {m \in Live(FS, x) : dents[x][m].name \notin {".", ".."}}}

\* A directory is a node with no size; a file keeps its size.
NodeOf(i) ==
  IF inodes[i].type = TDIR THEN [type |-> "dir", size |-> 0]
  ELSE [type |-> "file", size |-> inodes[i].size]

TreeOf ==
  Bind(PathsFrom(Root, <<>>, NInodes), LAMBDA ps :
    [q \in {e[1] : e \in ps} |-> NodeOf((CHOOSE e \in ps : e[1] = q)[2])])

AbstractTree == INSTANCE FSTree WITH tree <- TreeOf, Sizes <- FileSizes

(***************************************************************************)
(* The image implements the file tree of the interface (spec 4.5): every   *)
(* call that returns, fails or hangs either is one step of FSTree (a name  *)
(* added under a directory where it was free, a file or an empty          *)
(* directory removed, one file resized) or leaves every path as it was;   *)
(* no call changes a path it was not given.                                *)
(***************************************************************************)
TreeRefinement == AbstractTree!Spec
=============================================================================
