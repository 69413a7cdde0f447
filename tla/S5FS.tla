-------------------------------- MODULE S5FS --------------------------------
(***************************************************************************)
(* The inode table and the directory operations of the S5FS image engine   *)
(* (fsmaker/api.py): Simdisk.alloc_inode, Inode.free, Inode._make_dirent,  *)
(* _find_dirent, getdents, create, mkdir, unlink and rmdir, over the data  *)
(* mapper of S5File and the block allocator of S5Alloc.                    *)
(*                                                                         *)
(* The filesystem is a record fs with                                      *)
(*   d       the image of S5File (allocator, block contents);              *)
(*   ino[i]  the on-disk inode i: size (the next free inode when FREE),    *)
(*           type, link_count, direct, indirect;                           *)
(*   fi      the superblock's free_inode, the head of the free-inode list; *)
(*   dents[i] the directory-entry view of inode i's data: the sequence of  *)
(*           its DirentSize-byte entries, each an inode number and a name. *)
(* A directory's bytes go through Inode.write as in the code (so they      *)
(* allocate blocks); dents records what those bytes say.  An entry whose   *)
(* name is "" is a removed slot, whose inode number is stale.              *)
(***************************************************************************)
EXTENDS S5File

CONSTANTS
  NInodes,      \* inodes on the image (num_inodes)
  DirentSize,   \* S5_DIRENT_SIZE: the inode number, then the name
  Names         \* the names a caller may use, besides "." and ".."

ASSUME NInodes \in Nat \ {0}
ASSUME DirentSize \in Nat \ {0, 1} /\ BlockSize % DirentSize = 0
ASSUME Names \cap {".", "..", ""} = {}

Inodes == 0 .. NInodes - 1
AllNames == Names \cup {".", ".."}

FSResult(fs, err) == [fs |-> fs, err |-> err]

\* The inode as create and mkdir initialise it, lines 379-384 and 394-399.
Fresh(type) ==
  [size |-> 0, type |-> type, link_count |-> 1,
   direct |-> [k \in 0 .. NDirect - 1 |-> 0], indirect |-> 0]

\* The live entries of a directory: the slots whose name is not empty.
Live(fs, i) == {k \in DOMAIN fs.dents[i] : fs.dents[i][k].name # ""}

(***************************************************************************)
(* Simdisk.alloc_inode, lines 622-627: pop the head of the free list; the  *)
(* next head is the popped inode's size field.                             *)
(***************************************************************************)
AllocInode(fs) ==
  IF fs.fi = NIL THEN [fs |-> fs, i |-> NIL, err |-> "OutOfInodes"]
  ELSE [fs |-> [fs EXCEPT !.fi = fs.ino[fs.fi].size], i |-> fs.fi, err |-> "none"]

\* Seeded fault: the freed inode is marked FREE but not pushed on the free
\* list (FreeInodeList catches it).
FreeInodeNoPush(fs, i) ==
  Bind(IF fs.ino[i].size # 0 THEN Truncate(fs.d, fs.ino[i], 0)
       ELSE Result(fs.d, fs.ino[i], "none"), LAMBDA t :
    LET f == [fs EXCEPT !.d = t.d, !.ino[i] = t.n] IN
    IF t.err # "none" THEN FSResult(f, t.err)
    ELSE FSResult([f EXCEPT !.ino[i].type = TFREE, !.ino[i].size = fs.fi], "none"))

(***************************************************************************)
(* Inode.free, lines 461-466: a file with a non-zero size is truncated to  *)
(* 0 first (an error there propagates, with the truncate's effects kept);  *)
(* then the inode is marked FREE and pushed on the free list through its   *)
(* size field.                                                             *)
(***************************************************************************)
FreeInode(fs, i) ==
  Bind(IF fs.ino[i].size # 0 THEN Truncate(fs.d, fs.ino[i], 0)
       ELSE Result(fs.d, fs.ino[i], "none"), LAMBDA t :
    LET f == [fs EXCEPT !.d = t.d, !.ino[i] = t.n] IN
    IF t.err # "none" THEN FSResult(f, t.err)
    ELSE FSResult([f EXCEPT !.ino[i].type = TFREE, !.ino[i].size = fs.fi, !.fi = i], "none"))

\* Seeded fault: the name part is written with the full entry size, one
\* byte too many (TypeOK catches the directory size).
MakeDirentWide(fs, dir, i, name) ==
  LET n == fs.ino[dir] IN
  CASE n.type # TDIR                                      -> FSResult(fs, "NotDir")
    [] n.size % DirentSize # 0                            -> FSResult(fs, "BadDirSize")
    [] \E k \in DOMAIN fs.dents[dir] : fs.dents[dir][k].name = name
                                                          -> FSResult(fs, "Duplicate")
    [] OTHER ->
         Bind(Write(fs.d, n, n.size, 1), LAMBDA w1 :
           IF w1.err # "none"
           THEN FSResult([fs EXCEPT !.d = w1.d, !.ino[dir] = w1.n], w1.err)
           ELSE Bind(Write(w1.d, w1.n, w1.n.size, DirentSize), LAMBDA w2 :
                  IF w2.err # "none"
                  THEN FSResult([fs EXCEPT !.d = w2.d, !.ino[dir] = w2.n], w2.err)
                  ELSE FSResult([fs EXCEPT !.d = w2.d, !.ino[dir] = w2.n,
                                    !.dents[dir] = Append(@, [ino |-> i, name |-> name])],
                                "none")))

(***************************************************************************)
(* Inode._make_dirent, lines 355-374.  A name already present is refused.  *)
(* The slot-reuse test looks at the length of the new name, never of the   *)
(* scanned one, so a non-empty name is always appended: two writes at the  *)
(* current size, the inode number and then the rest of the entry.          *)
(***************************************************************************)
MakeDirent(fs, dir, i, name) ==
  LET n == fs.ino[dir] IN
  CASE n.type # TDIR                                      -> FSResult(fs, "NotDir")
    [] n.size % DirentSize # 0                            -> FSResult(fs, "BadDirSize")
    [] \E k \in DOMAIN fs.dents[dir] : fs.dents[dir][k].name = name
                                                          -> FSResult(fs, "Duplicate")
    [] OTHER ->
         Bind(Write(fs.d, n, n.size, 1), LAMBDA w1 :
           IF w1.err # "none"
           THEN FSResult([fs EXCEPT !.d = w1.d, !.ino[dir] = w1.n], w1.err)
           ELSE Bind(Write(w1.d, w1.n, w1.n.size, DirentSize - 1), LAMBDA w2 :
                  IF w2.err # "none"
                  THEN FSResult([fs EXCEPT !.d = w2.d, !.ino[dir] = w2.n], w2.err)
                  ELSE FSResult([fs EXCEPT !.d = w2.d, !.ino[dir] = w2.n,
                                    !.dents[dir] = Append(@, [ino |-> i, name |-> name])],
                                "none")))

(***************************************************************************)
(* Inode._find_dirent, lines 305-319: the first slot holding the name (a   *)
(* removed slot never matches a non-empty name), 0 if none.                *)
(***************************************************************************)
FindDirent(fs, dir, name) ==
  LET ks == {k \in DOMAIN fs.dents[dir] : fs.dents[dir][k].name = name} IN
  IF ks = {} THEN 0 ELSE CHOOSE k \in ks : \A m \in ks : k <= m

\* The checks _find_dirent and getdents make before scanning.
DirError(fs, dir) ==
  CASE fs.ino[dir].type # TDIR                 -> "NotDir"
    [] fs.ino[dir].size % DirentSize # 0       -> "BadDirSize"
    [] OTHER                                   -> "none"

\* Mutant: is_empty returns from its first entry, "." of every directory.
IsEmptyFirstEntry(fs, i) == fs.dents[i][1].name \in {".", ".."}

\* Inode.is_empty, lines 424-428: no live entry but "." and "..".
IsEmpty(fs, i) == \A k \in Live(fs, i) : fs.dents[i][k].name \in {".", ".."}

\* Dirent.remove, lines 89-90: the first byte of the name becomes NUL.
RemoveDirent(fs, dir, k) == [fs EXCEPT !.dents[dir][k].name = ""]

\* The error an operation raises after its own inode was taken: the inode is
\* freed (the except clauses of create and mkdir) and the first error is
\* re-raised, unless freeing raised first.
Rollback(fs, i, err) ==
  Bind(FreeInode(fs, i), LAMBDA f : FSResult(f.fs, IF f.err # "none" THEN f.err ELSE err))

(***************************************************************************)
(* Inode.create, lines 376-389: take an inode, make it an empty DATA file  *)
(* and enter it in this directory.                                         *)
(***************************************************************************)
Create(fs, dir, name) ==
  LET a == AllocInode(fs)
      i == a.i
  IN IF a.err # "none" THEN FSResult(fs, a.err)
     ELSE Bind(MakeDirent([a.fs EXCEPT !.ino[i] = Fresh(TDATA), !.dents[i] = <<>>], dir, i, name),
               LAMBDA m : IF m.err # "none" THEN Rollback(m.fs, i, m.err) ELSE m)

\* Seeded fault: ".." is entered with the new directory's own number
\* (DotEntries catches it).
MkdirDotDotSelf(fs, dir, name) ==
  LET a == AllocInode(fs)
      i == a.i
  IN IF a.err # "none" THEN FSResult(fs, a.err)
     ELSE Bind(MakeDirent([a.fs EXCEPT !.ino[i] = Fresh(TDIR), !.dents[i] = <<>>], i, i, "."),
          LAMBDA m1 : IF m1.err # "none" THEN Rollback(m1.fs, i, m1.err)
          ELSE Bind(MakeDirent(m1.fs, i, i, ".."),
          LAMBDA m2 : IF m2.err # "none" THEN Rollback(m2.fs, i, m2.err)
          ELSE Bind(MakeDirent([m2.fs EXCEPT !.ino[dir].link_count = @ + 1], dir, i, name),
          LAMBDA m3 : IF m3.err # "none" THEN Rollback(m3.fs, i, m3.err) ELSE m3)))

(***************************************************************************)
(* Inode.mkdir, lines 391-407: take an inode, make it an empty directory,  *)
(* enter "." and ".." in it, count the new link in the parent, and enter   *)
(* the directory in the parent.  A failure frees the new inode; the        *)
(* parent's link count, raised before the last step, stays raised.         *)
(***************************************************************************)
Mkdir(fs, dir, name) ==
  LET a == AllocInode(fs)
      i == a.i
  IN IF a.err # "none" THEN FSResult(fs, a.err)
     ELSE Bind(MakeDirent([a.fs EXCEPT !.ino[i] = Fresh(TDIR), !.dents[i] = <<>>], i, i, "."),
          LAMBDA m1 : IF m1.err # "none" THEN Rollback(m1.fs, i, m1.err)
          ELSE Bind(MakeDirent(m1.fs, i, dir, ".."),
          LAMBDA m2 : IF m2.err # "none" THEN Rollback(m2.fs, i, m2.err)
          ELSE Bind(MakeDirent([m2.fs EXCEPT !.ino[dir].link_count = @ + 1], dir, i, name),
          LAMBDA m3 : IF m3.err # "none" THEN Rollback(m3.fs, i, m3.err) ELSE m3)))

\* Seeded fault: the last link is dropped and the inode freed without
\* removing the entry (NoDanglingEntry catches it).
UnlinkKeepsEntry(fs, dir, name) ==
  LET k  == FindDirent(fs, dir, name)
      j  == fs.dents[dir][k].ino
  IN CASE DirError(fs, dir) # "none"       -> FSResult(fs, DirError(fs, dir))
       [] k = 0                            -> FSResult(fs, "NoEntry")
       [] j \notin Inodes                  -> FSResult(fs, "InvalidInode")
       [] fs.ino[j].type = TDIR            -> FSResult(fs, "IsDir")
       [] fs.ino[j].link_count < 1         -> FSResult(fs, "BadLink")
       [] fs.ino[j].link_count = 1         ->
            FreeInode([fs EXCEPT !.ino[j].link_count = 0], j)
       [] OTHER -> FSResult([fs EXCEPT !.ino[j].link_count = @ - 1], "none")

(***************************************************************************)
(* Inode.unlink, lines 321-335: find the entry, refuse a directory or a    *)
(* bad link count, remove the entry, then drop the link and free the inode *)
(* when it was the last one.                                               *)
(***************************************************************************)
Unlink(fs, dir, name) ==
  LET k  == FindDirent(fs, dir, name)
      j  == fs.dents[dir][k].ino
      f1 == RemoveDirent(fs, dir, k)
  IN CASE DirError(fs, dir) # "none"       -> FSResult(fs, DirError(fs, dir))
       [] k = 0                            -> FSResult(fs, "NoEntry")
       [] j \notin Inodes                  -> FSResult(fs, "InvalidInode")
       [] fs.ino[j].type = TDIR            -> FSResult(fs, "IsDir")
       [] fs.ino[j].link_count < 1         -> FSResult(fs, "BadLink")
       [] fs.ino[j].link_count = 1         ->
            FreeInode([f1 EXCEPT !.ino[j].link_count = 0], j)
       [] OTHER -> FSResult([f1 EXCEPT !.ino[j].link_count = @ - 1], "none")

(***************************************************************************)
(* Inode.rmdir, lines 337-353: refuse "." and "..", a missing entry, a     *)
(* non-directory, a non-empty directory and a link count other than 1;     *)
(* then remove the entry, drop the parent's link and free the directory.   *)
(***************************************************************************)
Rmdir(fs, dir, name) ==
  LET k  == FindDirent(fs, dir, name)
      j  == fs.dents[dir][k].ino
      f1 == [RemoveDirent(fs, dir, k) EXCEPT !.ino[dir].link_count = @ - 1]
  IN CASE name \in {".", ".."}             -> FSResult(fs, "Special")
       [] DirError(fs, dir) # "none"       -> FSResult(fs, DirError(fs, dir))
       [] k = 0                            -> FSResult(fs, "NoEntry")
       [] j \notin Inodes                  -> FSResult(fs, "InvalidInode")
       [] fs.ino[j].type # TDIR            -> FSResult(fs, "NotDir")
       [] DirError(fs, j) # "none"         -> FSResult(fs, DirError(fs, j))
       [] ~IsEmpty(fs, j)                  -> FSResult(fs, "NotEmpty")
       [] fs.ino[j].link_count # 1         -> FSResult(fs, "BadLink")
       [] OTHER -> FreeInode([f1 EXCEPT !.ino[j].link_count = 0], j)

\* Inode.write and Inode.truncate on inode f.
FileWrite(fs, f, offset, len) ==
  Bind(Write(fs.d, fs.ino[f], offset, len), LAMBDA r :
    FSResult([fs EXCEPT !.d = r.d, !.ino[f] = r.n], r.err))

FileTruncate(fs, f, size) ==
  Bind(Truncate(fs.d, fs.ino[f], size), LAMBDA r :
    FSResult([fs EXCEPT !.d = r.d, !.ino[f] = r.n], r.err))

(***************************************************************************)
(* Simdisk.format, lines 556-604, after the free-block seeding: every      *)
(* inode FREE and threaded in index order (the last one ends the list),    *)
(* then the root directory taken from the list with "." and ".." both      *)
(* naming itself and a link count of 1.                                    *)
(***************************************************************************)
Format ==
  LET f0 == [d     |-> [alloc |-> FormatFree,
                        data  |-> [b \in DataBlocks |-> ZeroData],
                        ind   |-> [b \in DataBlocks |-> ZeroInd]],
             ino   |-> [i \in Inodes |-> [Fresh(TFREE) EXCEPT
                          !.size = IF i = NInodes - 1 THEN NIL ELSE i + 1]],
             fi    |-> 0,
             dents |-> [i \in Inodes |-> <<>>]]
  IN Bind(AllocInode(f0), LAMBDA a :
       Bind(MakeDirent([a.fs EXCEPT !.ino[a.i] = Fresh(TDIR)], a.i, a.i, "."), LAMBDA m1 :
         Bind(MakeDirent(m1.fs, a.i, a.i, ".."), LAMBDA m2 :
           [m2.fs EXCEPT !.ino[a.i].link_count = 1])))

\* The inodes a path can name: the root, and every inode a live entry of a
\* reachable directory refers to (Inode.lookup, lines 430-439).
RECURSIVE ReachFrom(_, _, _)
ReachFrom(fs, S, fuel) ==
  LET named(x) == {fs.dents[x][k].ino : k \in Live(fs, x)}
      next     == S \cup UNION {named(x) : x \in {y \in S : fs.ino[y].type = TDIR}}
  IN IF next = S \/ fuel = 0 THEN S ELSE ReachFrom(fs, next \cap Inodes, fuel - 1)

Reachable(fs, root) == ReachFrom(fs, {root}, NInodes)
=============================================================================
