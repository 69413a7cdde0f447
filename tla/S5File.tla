------------------------------- MODULE S5File -------------------------------
(***************************************************************************)
(* The inode data mapper of the S5FS image engine: Inode.read, Inode.write *)
(* and Inode.truncate of fsmaker/api.py, which translate byte ranges of a  *)
(* file into block numbers through NDirect direct pointers and one         *)
(* indirect table of NIndirect entries, allocating blocks on first write   *)
(* and freeing them on truncate.                                           *)
(*                                                                         *)
(* The image is a record d with                                            *)
(*   alloc     the free-block allocator state of S5Alloc;                  *)
(*   data[b]   the byte view of block b, one value per byte offset;        *)
(*   ind[b]    the block-number view of b when it is an indirect table.    *)
(* A byte is 0 or 1: every write stores 1, so a 1 read back was written    *)
(* and a 0 is a hole or a zeroed byte.  An inode is a record with the      *)
(* fields of the on-disk inode.  Each operation returns the new image, the *)
(* new inode and the error it raised ("none" if none); a loop that fails   *)
(* part way keeps the effects of its earlier iterations, as the code does. *)
(***************************************************************************)
EXTENDS S5Alloc

CONSTANTS
  BlockSize,    \* S5_BLOCK_SIZE, in bytes
  NDirect,      \* S5_NDIRECT_BLOCKS
  NIndirect,    \* entries of an indirect table (S5_BLOCK_SIZE / 4)
  WrongType,    \* S5fsException: read/write of a non DATA/DIR inode
  TooLarge,     \* S5fsException: write beyond S5_MAX_FILE_SIZE
  OutOfBlock,   \* S5fsException: Block.read past the end of the block
  TypeError,    \* Python TypeError raised by a call with a missing argument
  Hang          \* the call never returns

ASSUME BlockSize \in Nat \ {0} /\ NDirect \in Nat \ {0} /\ NIndirect \in Nat \ {0}

\* The inode types of api.py, lines 20-24.
TFREE == 0
TDATA == 1
TDIR  == 2

MaxFileBlocks == NDirect + NIndirect
MaxFileSize   == MaxFileBlocks * BlockSize
ByteIdx       == 0 .. BlockSize - 1
IndIdx        == 0 .. NIndirect - 1
FileSizes     == 0 .. MaxFileSize

ZeroData == [o \in ByteIdx |-> 0]
ZeroInd  == [k \in IndIdx |-> 0]

\* Block.zero: every view of the block reads as zero afterwards.
Zero(d, b) ==
  [d EXCEPT !.data[b] = ZeroData, !.ind[b] = ZeroInd, !.alloc.lst[b] = ZeroList]

Result(d, n, err) == [d |-> d, n |-> n, err |-> err]

(***************************************************************************)
(* The block number the inode addresses at file block index k: a direct    *)
(* pointer, an entry of the indirect table, or 0 for a hole (including a   *)
(* missing indirect table).  Lines 214-222 of Inode.read.                  *)
(***************************************************************************)
BlockAt(d, n, k) ==
  IF k < NDirect THEN n.direct[k]
  ELSE IF n.indirect = 0 THEN 0
  ELSE d.ind[n.indirect][k - NDirect]

ByteAt(d, n, p) ==
  LET b == BlockAt(d, n, p \div BlockSize) IN
  IF b = 0 THEN 0 ELSE d.data[b][p % BlockSize]

(***************************************************************************)
(* Inode.read, lines 203-230: the bytes of [offset, offset + size) clamped *)
(* to the stored size; a hole reads as zeros.                              *)
(***************************************************************************)
Read(d, n, offset, size) ==
  LET len == IF size < n.size - offset THEN size ELSE n.size - offset IN
  [k \in 1 .. len |-> ByteAt(d, n, offset + k - 1)]

(***************************************************************************)
(* One iteration of the loop of Inode.write, lines 238-267: resolve the    *)
(* block at index loc, allocating (and zeroing) the indirect table and the *)
(* data block on demand, then store amount bytes from blockoff on.         *)
(***************************************************************************)
WriteBlock(d, n, loc, blockoff, amount) ==
  LET needInd == loc >= NDirect /\ n.indirect = 0
      ri      == AllocBlock(d.alloc)
      d1      == IF needInd THEN Zero([d EXCEPT !.alloc = ri.a], ri.blk) ELSE d
      n1      == IF needInd THEN [n EXCEPT !.indirect = ri.blk] ELSE n
      cur     == IF needInd THEN 0 ELSE BlockAt(d, n, loc)
      rb      == AllocBlock(d1.alloc)
      d2      == IF cur # 0 THEN d1
                 ELSE IF loc < NDirect THEN Zero([d1 EXCEPT !.alloc = rb.a], rb.blk)
                 ELSE [Zero([d1 EXCEPT !.alloc = rb.a], rb.blk)
                        EXCEPT !.ind[n1.indirect][loc - NDirect] = rb.blk]
      n2      == IF cur = 0 /\ loc < NDirect THEN [n1 EXCEPT !.direct[loc] = rb.blk] ELSE n1
      blk     == IF cur # 0 THEN cur ELSE rb.blk
      d3      == [d2 EXCEPT !.data[blk] =
                    [o \in ByteIdx |-> IF o >= blockoff /\ o < blockoff + amount THEN 1 ELSE @[o]]]
  IN CASE needInd /\ ri.err # "none"  -> Result(d, n, ri.err)
       [] cur = 0 /\ rb.err # "none"  -> Result(d1, n1, rb.err)
       [] OTHER                       -> Result(d3, n2, "none")

\* Seeded fault: the amount stored per block is not capped at the end of
\* the block, so the bytes past it are lost (WrittenBytesReadBack).
RECURSIVE WriteLoopUncapped(_, _, _, _)
WriteLoopUncapped(d, n, offset, remaining) ==
  IF remaining <= 0 THEN Result(d, n, "none")
  ELSE Bind(WriteBlock(d, n, offset \div BlockSize, offset % BlockSize, remaining), LAMBDA r :
         IF r.err # "none" THEN r
         ELSE WriteLoopUncapped(r.d, r.n, offset + remaining, 0))

RECURSIVE WriteLoop(_, _, _, _)
WriteLoop(d, n, offset, remaining) ==
  IF remaining <= 0 THEN Result(d, n, "none")
  ELSE
    LET blockoff == offset % BlockSize
        amount   == IF BlockSize - blockoff < remaining THEN BlockSize - blockoff ELSE remaining
    IN Bind(WriteBlock(d, n, offset \div BlockSize, blockoff, amount), LAMBDA r :
         IF r.err # "none" THEN r
         ELSE WriteLoop(r.d, r.n, offset + amount, remaining - amount))

\* Seeded fault: the size is set to the end of every write, the test
\* "offset > get_size()" dropped, so a write inside the file shrinks it
\* (TypeOK, which ties the size to the file's content, catches it).
WriteSetsSize(d, n, offset, len) ==
  CASE n.type \notin {TDATA, TDIR}       -> Result(d, n, WrongType)
    [] offset + len > MaxFileSize         -> Result(d, n, TooLarge)
    [] OTHER ->
         Bind(WriteLoop(d, n, offset, len), LAMBDA r :
           IF r.err # "none" THEN r ELSE [r EXCEPT !.n.size = offset + len])

(***************************************************************************)
(* Inode.write, lines 232-270.  After the loop the size grows to the end   *)
(* of the write; a loop that fails leaves the size as it was.              *)
(***************************************************************************)
Write(d, n, offset, len) ==
  CASE n.type \notin {TDATA, TDIR}       -> Result(d, n, WrongType)
    [] offset + len > MaxFileSize         -> Result(d, n, TooLarge)
    [] OTHER ->
         Bind(WriteLoop(d, n, offset, len), LAMBDA r :
           IF r.err # "none" \/ offset + len <= n.size THEN r
           ELSE [r EXCEPT !.n.size = offset + len])

\* Seeded faults: the freed block's pointer is left in place, for a
\* direct pointer (Conservation) or for an indirect table entry
\* (NoSharedBlocks).
TruncateBlockKeepsDirect(d, n, curr) ==
  LET k  == curr - NDirect
      b  == IF curr < NDirect THEN n.direct[curr]
            ELSE IF n.indirect = 0 THEN 0 ELSE d.ind[n.indirect][k]
      a1 == FreeBlock(d.alloc, b)
  IN CASE curr >= NDirect /\ n.indirect # 0 /\ k >= NIndirect -> Result(d, n, OutOfBlock)
       [] b = 0 -> Result(d, n, "none")
       [] curr < NDirect -> Result([d EXCEPT !.alloc = a1], n, "none")
       [] curr = NDirect ->
            Result([d EXCEPT !.alloc = FreeBlock(a1, n.indirect), !.ind[n.indirect][k] = 0],
                   [n EXCEPT !.indirect = 0], "none")
       [] OTHER -> Result([d EXCEPT !.alloc = a1, !.ind[n.indirect][k] = 0], n, "none")

TruncateBlockKeepsEntry(d, n, curr) ==
  LET k  == curr - NDirect
      b  == IF curr < NDirect THEN n.direct[curr]
            ELSE IF n.indirect = 0 THEN 0 ELSE d.ind[n.indirect][k]
      a1 == FreeBlock(d.alloc, b)
  IN CASE curr >= NDirect /\ n.indirect # 0 /\ k >= NIndirect -> Result(d, n, OutOfBlock)
       [] b = 0 -> Result(d, n, "none")
       [] curr < NDirect -> Result([d EXCEPT !.alloc = a1], [n EXCEPT !.direct[curr] = 0], "none")
       [] curr = NDirect ->
            Result([d EXCEPT !.alloc = FreeBlock(a1, n.indirect), !.ind[n.indirect][k] = 0],
                   [n EXCEPT !.indirect = 0], "none")
       [] OTHER -> Result([d EXCEPT !.alloc = a1], n, "none")

(***************************************************************************)
(* One iteration of the shrinking loop of Inode.truncate, lines 275-295:   *)
(* free the block at index curr and clear its pointer; when curr is the    *)
(* first indirect index, free the indirect table too.  Only a block that   *)
(* is present is freed, and the table only together with it.  Reading the  *)
(* table entry at index NIndirect (curr = MaxFileBlocks) runs past the end *)
(* of the block.                                                           *)
(***************************************************************************)
TruncateBlock(d, n, curr) ==
  LET k  == curr - NDirect
      b  == IF curr < NDirect THEN n.direct[curr]
            ELSE IF n.indirect = 0 THEN 0
            ELSE d.ind[n.indirect][k]
      a1 == FreeBlock(d.alloc, b)
  IN CASE curr >= NDirect /\ n.indirect # 0 /\ k >= NIndirect ->
            Result(d, n, OutOfBlock)
       [] b = 0 -> Result(d, n, "none")
       [] curr < NDirect ->
            Result([d EXCEPT !.alloc = a1], [n EXCEPT !.direct[curr] = 0], "none")
       [] curr = NDirect ->
            Result([d EXCEPT !.alloc = FreeBlock(a1, n.indirect), !.ind[n.indirect][k] = 0],
                   [n EXCEPT !.indirect = 0], "none")
       [] OTHER ->
            Result([d EXCEPT !.alloc = a1, !.ind[n.indirect][k] = 0], n, "none")

RECURSIVE ShrinkLoop(_, _, _, _)
ShrinkLoop(d, n, curr, target) ==
  IF curr <= target THEN Result(d, n, "none")
  ELSE Bind(TruncateBlock(d, n, curr), LAMBDA r :
         IF r.err # "none" THEN r ELSE ShrinkLoop(r.d, r.n, curr - 1, target))

(***************************************************************************)
(* Inode.truncate, lines 272-303.  curr starts at size \div BlockSize,     *)
(* target is (newsize - 1) \div BlockSize (floor division, -1 for 0).      *)
(* The growing loop (lines 296-302) calls set_direct_blockno with one      *)
(* argument, a TypeError, for a direct index, and never advances curr for  *)
(* an indirect one: it keeps writing 0 into table entry curr - NDirect,   *)
(* when there is a table, until fsmaker is killed.  The size is stored     *)
(* only when both loops finish.                                            *)
(***************************************************************************)
Truncate(d, n, size) ==
  LET target == (size - 1) \div BlockSize
      curr   == n.size \div BlockSize
  IN Bind(ShrinkLoop(d, n, curr, target), LAMBDA r :
       CASE r.err # "none"                    -> r
         [] curr < target /\ curr < NDirect   -> Result(d, n, TypeError)
         [] curr < target /\ n.indirect = 0   -> Result(d, n, Hang)
         [] curr < target                     ->
              Result([d EXCEPT !.ind[n.indirect][curr - NDirect] = 0], n, Hang)
         [] OTHER                             -> [r EXCEPT !.n.size = size])

\* Every block the inode addresses, its indirect table included.
Addressed(d, n) ==
  ({BlockAt(d, n, k) : k \in 0 .. MaxFileBlocks - 1} \cup {n.indirect}) \ {0}

\* The number of block references the inode holds, counted with repetition.
RefCount(d, n) ==
  Cardinality({k \in 0 .. MaxFileBlocks - 1 : BlockAt(d, n, k) # 0})
    + (IF n.indirect # 0 THEN 1 ELSE 0)
=============================================================================
