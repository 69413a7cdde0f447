------------------------------- MODULE S5Alloc -------------------------------
(***************************************************************************)
(* The free-block allocator of the S5FS image engine (fsmaker/api.py).     *)
(*                                                                         *)
(* The superblock caches up to NFreeCache free block numbers inline        *)
(* (free_block[0..NFreeCache-1], count nfree).  When the cache is full, a  *)
(* freed block becomes an overflow list-block: it receives a copy of the   *)
(* cache and the previous chain head, and becomes the new chain head       *)
(* (last_free_block).  When the cache is empty, allocation consumes the    *)
(* chain head: its contents refill the cache and the list-block itself is  *)
(* handed out.                                                             *)
(*                                                                         *)
(* The allocator state is one record, so that the file operations that     *)
(* allocate and free several blocks in one call can thread it through      *)
(* their loops:                                                            *)
(*   nfree, free_block, last_free_block  the superblock fields;            *)
(*   lst[b]   the block-number view of block b: the NFreeCache entries and *)
(*            the trailing pointer written into it when it became a        *)
(*            list-block (all 0 for a zeroed block).                       *)
(* A block number is an integer; 0 is the superblock and never a data      *)
(* block, NIL stands for the 0xffffffff sentinel.                          *)
(***************************************************************************)
EXTENDS Integers, Sequences, FiniteSets

LOCAL F == INSTANCE Functions

CONSTANTS
  NBlocks,      \* blocks on the image (size / S5_BLOCK_SIZE)
  IBlocks,      \* blocks of the inode table, which follow the superblock
  NFreeCache,   \* S5_NBLKS_PER_FNODE - 1: entries of the inline cache
  NIL,          \* the 0xffffffff "no block" sentinel
  NoSpace,      \* S5fsDiskSpaceException
  Corrupt       \* the S5fsException for an out-of-range nfree

ASSUME NFreeCache \in Nat \ {0}
ASSUME IBlocks \in Nat \ {0} /\ NBlocks \in Nat /\ IBlocks + 1 < NBlocks

\* Blocks managed by the allocator: everything after the inode table.
DataBlocks == IBlocks + 1 .. NBlocks - 1
BlockNo    == 0 .. NBlocks - 1
CacheIdx   == 0 .. NFreeCache - 1

\* The block-number view of an all-zero block.
ZeroList == [ents |-> [i \in CacheIdx |-> 0], next |-> 0]

AllocState ==
  [nfree: 0 .. NFreeCache, free_block: [CacheIdx -> BlockNo],
   last_free_block: DataBlocks \cup {NIL}, lst: [DataBlocks -> [ents: [CacheIdx -> BlockNo], next: BlockNo \cup {NIL}]]]

(***************************************************************************)
(* Simdisk.format, lines 580-593: every block after the inode table is     *)
(* pushed in increasing order; whenever NFreeCache numbers have been       *)
(* cached, the next block becomes a list-block holding them and the        *)
(* previous chain head, and the cache index restarts at 0.  The image file *)
(* is freshly zeroed, so the cache starts as all 0.                        *)
(***************************************************************************)
(***************************************************************************)
(* Bind(e, Op) is Op applied to the value of e, computed once however     *)
(* often Op uses it: the operations below thread the result of one step   *)
(* into the next, and TLC does not cache a LET definition when it collects *)
(* coverage.                                                               *)
(***************************************************************************)
Bind(e, Op(_)) == CHOOSE y \in {Op(x) : x \in {e}} : TRUE

RECURSIVE SeedFrom(_, _)
SeedFrom(num, a) ==
  IF num >= NBlocks THEN a
  ELSE Bind(IF a.nfree = NFreeCache
            THEN [a EXCEPT !.lst[num] = [ents |-> a.free_block, next |-> a.last_free_block],
                           !.last_free_block = num,
                           !.nfree = 0]
            ELSE [a EXCEPT !.free_block[a.nfree] = num, !.nfree = a.nfree + 1],
            LAMBDA b : SeedFrom(num + 1, b))

FormatFree ==
  SeedFrom(IBlocks + 1, [nfree |-> 0, free_block |-> [i \in CacheIdx |-> 0],
                         last_free_block |-> NIL, lst |-> [b \in DataBlocks |-> ZeroList]])

\* Seeded fault: an empty cache is taken for a full disk, the overflow
\* chain never consulted (AllocRefinesFreeSet catches it).
AllocBlockNoRefill(a) ==
  IF a.nfree = 0 THEN [a |-> a, blk |-> 0, err |-> NoSpace]
  ELSE [a |-> [a EXCEPT !.nfree = a.nfree - 1],
        blk |-> a.free_block[a.nfree - 1], err |-> "none"]

(***************************************************************************)
(* Simdisk.alloc_block, lines 633-648.  The result is the new state, the   *)
(* block handed out (0 when none) and the error raised, "none" if none.   *)
(***************************************************************************)
AllocBlock(a) ==
  CASE a.nfree > NFreeCache ->
         [a |-> a, blk |-> 0, err |-> Corrupt]
    [] a.nfree = 0 /\ a.last_free_block = NIL ->
         [a |-> a, blk |-> 0, err |-> NoSpace]
    [] a.nfree = 0 ->
         LET b == a.last_free_block IN
         [a |-> [a EXCEPT !.free_block = a.lst[b].ents,
                          !.last_free_block = a.lst[b].next,
                          !.nfree = NFreeCache],
          blk |-> b, err |-> "none"]
    [] OTHER ->
         [a |-> [a EXCEPT !.nfree = a.nfree - 1],
          blk |-> a.free_block[a.nfree - 1], err |-> "none"]

\* Seeded fault: the room test compares with <= (the check of
\* get_free_block/set_free_block dropped), so nfree passes the cache size
\* (TypeOK catches it).
FreeBlockCacheOffByOne(a, b) ==
  IF a.nfree <= NFreeCache
  THEN [a EXCEPT !.free_block[a.nfree] = b, !.nfree = a.nfree + 1]
  ELSE [a EXCEPT !.lst[b] = [ents |-> a.free_block, next |-> a.last_free_block],
                 !.last_free_block = b, !.nfree = 0]

\* Seeded fault: a new list-block does not record the previous chain head,
\* so the older list-blocks are lost (Conservation catches it).
FreeBlockDropsChain(a, b) ==
  IF a.nfree < NFreeCache
  THEN [a EXCEPT !.free_block[a.nfree] = b, !.nfree = a.nfree + 1]
  ELSE [a EXCEPT !.lst[b] = [ents |-> a.free_block, next |-> NIL],
                 !.last_free_block = b, !.nfree = 0]

(***************************************************************************)
(* Block.free, lines 70-79: cache the block if there is room, otherwise    *)
(* turn it into the new head of the overflow chain.                        *)
(***************************************************************************)
FreeBlock(a, b) ==
  IF a.nfree < NFreeCache
  THEN [a EXCEPT !.free_block[a.nfree] = b, !.nfree = a.nfree + 1]
  ELSE [a EXCEPT !.lst[b] = [ents |-> a.free_block, next |-> a.last_free_block],
                 !.last_free_block = b,
                 !.nfree = 0]

(***************************************************************************)
(* Every free block, in the order the allocator would hand them out after  *)
(* the cache: the cached entries, then each list-block of the chain        *)
(* followed by the entries it holds.  fuel bounds the walk so that a       *)
(* cyclic chain yields a sequence with repetitions instead of diverging.   *)
(***************************************************************************)
RECURSIVE ChainSeq(_, _, _)
ChainSeq(a, b, fuel) ==
  IF b = NIL \/ fuel = 0 \/ b \notin DataBlocks THEN <<>>
  ELSE <<b>> \o [i \in 1 .. NFreeCache |-> a.lst[b].ents[i - 1]]
             \o ChainSeq(a, a.lst[b].next, fuel - 1)

FreeSeq(a) ==
  [i \in 1 .. a.nfree |-> a.free_block[i - 1]]
    \o ChainSeq(a, a.last_free_block, Cardinality(DataBlocks) + 1)

FreeSet(a) == F!Range(FreeSeq(a))

\* No block is reachable twice from the cache and the chain.
NoDuplicateFree(a) == F!IsInjective(FreeSeq(a))

(***************************************************************************)
(* The free-block structure accounts for exactly the blocks not in use:    *)
(* every data block is free or used, never both, and never free twice.     *)
(***************************************************************************)
Accounts(a, used) ==
  /\ NoDuplicateFree(a)
  /\ FreeSet(a) \cap used = {}
  /\ FreeSet(a) \cup used = DataBlocks

(***************************************************************************)
(* The part of the allocator state that a later call can read: cache       *)
(* entries at or above nfree are overwritten before they are read, and the *)
(* block-number view of a block outside the chain is read only after it    *)
(* has been rewritten as a list-block.  The specifications store the      *)
(* allocator state through LiveAlloc, so that states differing only in     *)
(* dead data are one state.                                                *)
(***************************************************************************)
RECURSIVE ChainBlocks(_, _, _)
ChainBlocks(a, b, fuel) ==
  IF b = NIL \/ fuel = 0 \/ b \notin DataBlocks THEN {}
  ELSE {b} \cup ChainBlocks(a, a.lst[b].next, fuel - 1)

LiveAlloc(a) ==
  Bind(ChainBlocks(a, a.last_free_block, Cardinality(DataBlocks) + 1), LAMBDA chain :
    [a EXCEPT !.free_block = [i \in CacheIdx |-> IF i < a.nfree THEN @[i] ELSE 0],
              !.lst = [b \in DataBlocks |-> IF b \in chain THEN @[b] ELSE ZeroList]])
=============================================================================
