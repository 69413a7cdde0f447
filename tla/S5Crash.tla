------------------------------- MODULE S5Crash -------------------------------
(***************************************************************************)
(* fsmaker killed part way through a call.  The engine writes the image    *)
(* file in place, one field or block range per Block.write or setter, each *)
(* preceded by a seek that flushes the previous one, so the image a killed *)
(* call leaves (Ctrl-C raises KeyboardInterrupt, which only the outermost  *)
(* try of sh.py catches) is the call's writes up to some point, in the     *)
(* order the code issues them (spec: "writes are applied in the order      *)
(* issued").                                                               *)
(*                                                                         *)
(* For each operation, Op_Mid is the set of images it can leave when cut   *)
(* short: after each write that changes what a later call or a property    *)
(* reads.  Writes into a block that nothing refers to yet (the zeroing of  *)
(* a new block, the entries of a new list-block, a cache entry above       *)
(* nfree) change nothing observable until the write that links the block; *)
(* the images before and after them are one.                               *)
(***************************************************************************)
EXTENDS S5FSSpec

VARIABLE crashed   \* fsmaker was killed; the image is what it left

crash_vars == <<disk, inodes, free_inode, dents, hung, crashed>>

(***************************************************************************)
(* Simdisk.alloc_block, lines 633-648, cut short: a refill copies the      *)
(* chain head's entries into the cache (dead while nfree is 0), moves       *)
(* last_free_block on, and only then sets nfree; the head block and the     *)
(* entries it held are lost in between.                                    *)
(***************************************************************************)
AllocBlockMid(a) ==
  IF a.nfree = 0 /\ a.last_free_block # NIL
  THEN {a, [a EXCEPT !.free_block = a.lst[a.last_free_block].ents,
                     !.last_free_block = a.lst[a.last_free_block].next]}
  ELSE {a}

(***************************************************************************)
(* Block.free, lines 70-79, cut short: with the cache full, the block      *)
(* receives the cache and the chain head, becomes last_free_block, and     *)
(* only then is nfree set to 0: in between, the cached blocks are listed   *)
(* twice.                                                                  *)
(***************************************************************************)
FreeBlockMid(a, b) ==
  IF a.nfree < NFreeCache THEN {a}
  ELSE {a, [a EXCEPT !.lst[b] = [ents |-> a.free_block, next |-> a.last_free_block],
                     !.last_free_block = b]}

\* The images with the allocator state replaced by each of as.
WithAlloc(d, n, as) == {Result([d EXCEPT !.alloc = x], n, "none") : x \in as}

(***************************************************************************)
(* One iteration of Inode.write, lines 238-265, cut short: the indirect    *)
(* table is allocated and zeroed before set_indirect_blockno links it, the *)
(* data block allocated and zeroed before its pointer is set.  The data    *)
(* bytes written last are not kept by S5FSSpec.                           *)
(***************************************************************************)
WriteBlockMid(d, n, loc) ==
  LET needInd == loc >= NDirect /\ n.indirect = 0
      ri      == AllocBlock(d.alloc)
      d1      == Zero([d EXCEPT !.alloc = ri.a], ri.blk)
      dd      == IF needInd THEN d1 ELSE d
      nn      == IF needInd THEN [n EXCEPT !.indirect = ri.blk] ELSE n
      rb      == AllocBlock(dd.alloc)
      toTable == IF needInd THEN WithAlloc(d, n, AllocBlockMid(d.alloc))
                   \cup (IF ri.err = "none" THEN {Result(d1, n, "none")} ELSE {})
                 ELSE {}
      toBlock == IF (needInd /\ ri.err # "none") \/ (~needInd /\ BlockAt(d, n, loc) # 0) THEN {}
                 ELSE WithAlloc(dd, nn, AllocBlockMid(dd.alloc))
                   \cup (IF rb.err = "none"
                         THEN {Result(Zero([dd EXCEPT !.alloc = rb.a], rb.blk), nn, "none")}
                         ELSE {})
  IN toTable \cup toBlock

\* The loop of Inode.write, lines 238-267: the whole iterations done, then
\* the next one cut short; the last image is the one before set_size.
RECURSIVE WriteLoopMid(_, _, _, _)
WriteLoopMid(d, n, offset, remaining) ==
  IF remaining <= 0 THEN {}
  ELSE
    LET blockoff == offset % BlockSize
        amount   == IF BlockSize - blockoff < remaining THEN BlockSize - blockoff ELSE remaining
    IN WriteBlockMid(d, n, offset \div BlockSize)
         \cup Bind(WriteBlock(d, n, offset \div BlockSize, blockoff, amount), LAMBDA r :
                IF r.err # "none" THEN {}
                ELSE {r} \cup WriteLoopMid(r.d, r.n, offset + amount, remaining - amount))

\* Inode.write, lines 232-270: the checks write nothing.
WriteMid(d, n, offset, len) ==
  IF n.type \notin {TDATA, TDIR} \/ offset + len > MaxFileSize THEN {}
  ELSE WriteLoopMid(d, n, offset, len)

(***************************************************************************)
(* One iteration of the shrinking loop of Inode.truncate, lines 284-293,   *)
(* cut short: block.free() runs before the pointer to the block is         *)
(* cleared, and indirect.free() before set_indirect_blockno(0), so the     *)
(* inode still addresses a block that is already free.                     *)
(***************************************************************************)
TruncateBlockMid(d, n, curr) ==
  LET k  == curr - NDirect
      b  == BlockAt(d, n, curr)
      a1 == FreeBlock(d.alloc, b)
      de == [d EXCEPT !.alloc = a1, !.ind[n.indirect][k] = 0]
  IN IF (curr >= NDirect /\ n.indirect # 0 /\ k >= NIndirect) \/ b = 0 THEN {}
     ELSE WithAlloc(d, n, FreeBlockMid(d.alloc, b) \cup {a1})
            \cup (IF curr = NDirect
                  THEN WithAlloc(de, n, FreeBlockMid(a1, n.indirect) \cup {FreeBlock(a1, n.indirect)})
                  ELSE {})

RECURSIVE ShrinkLoopMid(_, _, _, _)
ShrinkLoopMid(d, n, curr, target) ==
  IF curr <= target THEN {}
  ELSE TruncateBlockMid(d, n, curr)
         \cup Bind(TruncateBlock(d, n, curr), LAMBDA r :
                IF r.err # "none" THEN {}
                ELSE {r} \cup ShrinkLoopMid(r.d, r.n, curr - 1, target))

\* Inode.truncate, lines 272-303: the growing loop writes nothing before
\* it raises; a hung one is the image Truncate returns.
TruncateMid(d, n, size) ==
  ShrinkLoopMid(d, n, n.size \div BlockSize, (size - 1) \div BlockSize)

\* The filesystem with inode f's image replaced by each result of rs.
Lift(fs, f, rs) == {[fs EXCEPT !.d = r.d, !.ino[f] = r.n] : r \in rs}

(***************************************************************************)
(* Inode.free, lines 461-466, cut short: inside the truncate to 0, then    *)
(* after it (size 0, type unchanged), after set_type(FREE), and after      *)
(* set_next_free but before set_free_inode makes the inode the list head:  *)
(* a FREE inode on no list.                                                *)
(***************************************************************************)
FreeInodeMid(fs, i) ==
  LET n == fs.ino[i] IN
  (IF n.size # 0 THEN Lift(fs, i, TruncateMid(fs.d, n, 0)) ELSE {})
    \cup Bind(IF n.size # 0 THEN Truncate(fs.d, n, 0) ELSE Result(fs.d, n, "none"), LAMBDA t :
           IF t.err # "none" THEN {}
           ELSE LET f == [fs EXCEPT !.d = t.d, !.ino[i] = t.n] IN
                {f, [f EXCEPT !.ino[i].type = TFREE],
                    [f EXCEPT !.ino[i].type = TFREE, !.ino[i].size = fs.fi]})

(***************************************************************************)
(* Inode._make_dirent, lines 355-374, cut short: inside the write of the   *)
(* inode number, after it (the directory's size is then not a multiple of  *)
(* the entry size), and inside the write of the name.                      *)
(***************************************************************************)
MakeDirentMid(fs, dir, i, name) ==
  LET n == fs.ino[dir] IN
  IF n.type # TDIR \/ n.size % DirentSize # 0
     \/ \E k \in DOMAIN fs.dents[dir] : fs.dents[dir][k].name = name
  THEN {}
  ELSE Lift(fs, dir, WriteMid(fs.d, n, n.size, 1))
         \cup Bind(Write(fs.d, n, n.size, 1), LAMBDA w1 :
                IF w1.err # "none" THEN {}
                ELSE Lift(fs, dir, {w1} \cup WriteMid(w1.d, w1.n, w1.n.size, DirentSize - 1)))

\* A step that failed is rolled back by freeing the new inode, itself cut
\* short or not (the except clauses of create and mkdir).
RollbackMid(fs, i) == {fs} \cup FreeInodeMid(fs, i)

(***************************************************************************)
(* The new inode of create and mkdir, lines 377-384 and 392-399, cut short *)
(* after alloc_inode popped it (still FREE, on no list), after set_type,   *)
(* after set_size(0), and with every field set.  Fresh writes the        *)
(* pointers as 0, a canonical form: on disk they may still hold what the  *)
(* inode had before it was freed; the inode is unreachable in each of      *)
(* these images, so no property reads them.                                *)
(***************************************************************************)
NewInodeMid(a, i, type) ==
  {a, [a EXCEPT !.ino[i].type = type], [a EXCEPT !.ino[i].type = type, !.ino[i].size = 0],
   [a EXCEPT !.ino[i] = Fresh(type), !.dents[i] = <<>>]}

\* Inode.create, lines 376-389, cut short.
CreateMid(fs, dir, name) ==
  LET a == AllocInode(fs)
      i == a.i
      f0 == [a.fs EXCEPT !.ino[i] = Fresh(TDATA), !.dents[i] = <<>>]
  IN IF a.err # "none" THEN {}
     ELSE NewInodeMid(a.fs, i, TDATA)
            \cup MakeDirentMid(f0, dir, i, name)
            \cup Bind(MakeDirent(f0, dir, i, name), LAMBDA m :
                   IF m.err # "none" THEN RollbackMid(m.fs, i) ELSE {})

\* Mutant: mkdir enters the new directory in its parent first, then
\* writes "." and "..".
MkdirMidParentFirst(fs, dir, name) ==
  LET a == AllocInode(fs)
      i == a.i
      f0 == [a.fs EXCEPT !.ino[i] = Fresh(TDIR), !.dents[i] = <<>>]
  IN IF a.err # "none" THEN {}
     ELSE NewInodeMid(a.fs, i, TDIR)
            \cup Bind(MakeDirent(f0, dir, i, name), LAMBDA m :
                   IF m.err # "none" THEN RollbackMid(m.fs, i) ELSE {m.fs})

(***************************************************************************)
(* Inode.mkdir, lines 391-407, cut short: the new inode, ".", "..", the    *)
(* parent's link count, then the parent's entry, each with the rollback    *)
(* of its failure.                                                         *)
(***************************************************************************)
MkdirMid(fs, dir, name) ==
  LET a == AllocInode(fs)
      i == a.i
      f0 == [a.fs EXCEPT !.ino[i] = Fresh(TDIR), !.dents[i] = <<>>]
  IN IF a.err # "none" THEN {}
     ELSE NewInodeMid(a.fs, i, TDIR) \cup MakeDirentMid(f0, i, i, ".")
       \cup Bind(MakeDirent(f0, i, i, "."), LAMBDA m1 :
          IF m1.err # "none" THEN RollbackMid(m1.fs, i)
          ELSE MakeDirentMid(m1.fs, i, dir, "..")
            \cup Bind(MakeDirent(m1.fs, i, dir, ".."), LAMBDA m2 :
               IF m2.err # "none" THEN RollbackMid(m2.fs, i)
               ELSE LET f3 == [m2.fs EXCEPT !.ino[dir].link_count = @ + 1] IN
                 {f3} \cup MakeDirentMid(f3, dir, i, name)
                   \cup Bind(MakeDirent(f3, dir, i, name), LAMBDA m3 :
                      IF m3.err # "none" THEN RollbackMid(m3.fs, i) ELSE {})))
\* Mutant: unlink drops the link count and frees the inode before it
\* removes the entry.
UnlinkMidFreeFirst(fs, dir, name) ==
  LET k  == FindDirent(fs, dir, name)
      j  == fs.dents[dir][k].ino
      f2 == [fs EXCEPT !.ino[j].link_count = 0]
  IN IF DirError(fs, dir) # "none" \/ k = 0 \/ j \notin Inodes \/ fs.ino[j].type = TDIR
        \/ fs.ino[j].link_count < 1
     THEN {}
     ELSE IF fs.ino[j].link_count = 1 THEN {f2} \cup FreeInodeMid(f2, j) ELSE {}

(***************************************************************************)
(* Inode.unlink, lines 321-335, cut short: the entry is removed (one write *)
(* of the name's first byte) before the link count drops and the inode is  *)
(* freed.                                                                  *)
(***************************************************************************)
UnlinkMid(fs, dir, name) ==
  LET k  == FindDirent(fs, dir, name)
      j  == fs.dents[dir][k].ino
      f1 == RemoveDirent(fs, dir, k)
      f2 == [f1 EXCEPT !.ino[j].link_count = 0]
  IN IF DirError(fs, dir) # "none" \/ k = 0 \/ j \notin Inodes \/ fs.ino[j].type = TDIR
        \/ fs.ino[j].link_count < 1
     THEN {}
     ELSE IF fs.ino[j].link_count = 1 THEN {f1, f2} \cup FreeInodeMid(f2, j) ELSE {f1}

(***************************************************************************)
(* Inode.rmdir, lines 337-353, cut short: the entry is removed, then the   *)
(* parent's link count drops, then the directory's, then it is freed.     *)
(***************************************************************************)
RmdirMid(fs, dir, name) ==
  LET k  == FindDirent(fs, dir, name)
      j  == fs.dents[dir][k].ino
      f1 == RemoveDirent(fs, dir, k)
      f2 == [f1 EXCEPT !.ino[dir].link_count = @ - 1]
      f3 == [f2 EXCEPT !.ino[j].link_count = 0]
  IN IF name \in {".", ".."} \/ DirError(fs, dir) # "none" \/ k = 0 \/ j \notin Inodes
        \/ fs.ino[j].type # TDIR \/ DirError(fs, j) # "none" \/ ~IsEmpty(fs, j)
        \/ fs.ino[j].link_count # 1
     THEN {}
     ELSE {f1, f2, f3} \cup FreeInodeMid(f3, j)

FileWriteMid(fs, f, offset, len) == Lift(fs, f, WriteMid(fs.d, fs.ino[f], offset, len))

FileTruncateMid(fs, f, size) == Lift(fs, f, TruncateMid(fs.d, fs.ino[f], size))

-----------------------------------------------------------------------------

CrashInit == Init /\ crashed = FALSE

\* A call that runs to completion, as in S5FSSpec.
Complete == ~crashed /\ Next /\ crashed' = FALSE

\* fsmaker killed inside a call: the image is one the call can leave, and
\* nothing happens after.
Kill(mids) ==
  /\ ~crashed /\ ~hung
  /\ \E f \in mids :
       /\ disk' = LiveDisk(f.d, f.ino)
       /\ inodes' = LiveInodes(f.ino)
       /\ free_inode' = f.fi
       /\ dents' = LiveDents(f.dents, f.ino)
       /\ hung' = FALSE
       /\ crashed' = TRUE

CreateKill == \E dir \in Reach, name \in AllNames : Kill(CreateMid(FS, dir, name))
MkdirKill  ==
  \E dir \in Reach, name \in AllNames :
    inodes[dir].link_count < MaxLinks /\ Kill(MkdirMid(FS, dir, name))
UnlinkKill == \E dir \in Reach, name \in AllNames : Kill(UnlinkMid(FS, dir, name))
RmdirKill  == \E dir \in Reach, name \in AllNames : Kill(RmdirMid(FS, dir, name))
WriteKill  ==
  \E f \in {x \in Reach : inodes[x].type = TDATA}, off \in WriteOffsets, len \in WriteLens :
    Kill(FileWriteMid(FS, f, off, len))
TruncateKill ==
  \E f \in {x \in Reach : inodes[x].type = TDATA}, size \in TruncSizes :
    Kill(FileTruncateMid(FS, f, size))

CrashNext ==
  \/ Complete
  \/ CreateKill \/ MkdirKill \/ UnlinkKill \/ RmdirKill \/ WriteKill \/ TruncateKill

CrashSpec == CrashInit /\ [][CrashNext]_crash_vars

\* The blocks addressed by the inodes a path can reach.
ReachInUse == UNION {Addressed(disk, inodes[i]) : i \in Reach}

(***************************************************************************)
(* Consistency by construction (spec, introduction): whatever call is cut  *)
(* short, the free list the next run of fsmaker allocates from holds no    *)
(* block twice and no block a reachable file or directory addresses, so no *)
(* later allocation hands out a block in use.                              *)
(***************************************************************************)
FreeListSafe ==
  /\ NoDuplicateFree(disk.alloc)
  /\ ReachInUse \cap FreeSet(disk.alloc) = {}

(***************************************************************************)
(* _make_dirent refuses a directory whose size is not a multiple of the    *)
(* entry size (line 358), and getdents reads whole entries: a kill must    *)
(* not leave a reachable directory with half an entry, or no name can be   *)
(* added to it again.                                                      *)
(***************************************************************************)
DirSizeWhole ==
  \A x \in Reach : inodes[x].type = TDIR => inodes[x].size % DirentSize = 0
=============================================================================
