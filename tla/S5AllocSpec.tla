---------------------------- MODULE S5AllocSpec ----------------------------
(***************************************************************************)
(* The allocator of S5Alloc driven by a client that allocates blocks and   *)
(* frees blocks it holds, in any order, starting from a freshly formatted  *)
(* image.  used is the set of blocks the client holds; ret records what    *)
(* the last alloc_block call returned (a block, or the error it raised).   *)
(***************************************************************************)
EXTENDS S5Alloc

VARIABLES alloc, used, ret

vars == <<alloc, used, ret>>

\* Type invariant: the allocator state has the shape of the superblock
\* fields and list-blocks (nfree never above the cache size that
\* get_free_block/set_free_block accept); ret is a block or an error.
TypeOK ==
  /\ alloc \in AllocState
  /\ used \subseteq DataBlocks
  /\ ret \in DataBlocks \cup {0, NoSpace, Corrupt}

Init ==
  /\ alloc = LiveAlloc(FormatFree)
  /\ used = {}
  /\ ret = 0

\* A call of Simdisk.alloc_block.
Alloc ==
  LET r == AllocBlock(alloc) IN
  /\ alloc' = LiveAlloc(r.a)
  /\ ret' = IF r.err = "none" THEN r.blk ELSE r.err
  /\ used' = IF r.err = "none" THEN used \cup {r.blk} ELSE used

\* A call of Block.free on a block the client holds.
Free ==
  \E b \in used :
    /\ alloc' = LiveAlloc(FreeBlock(alloc, b))
    /\ used' = used \ {b}
    /\ UNCHANGED ret

Next == Alloc \/ Free

Spec == Init /\ [][Next]_vars

(***************************************************************************)
(* Free-list conservation (spec section 8): after any sequence of          *)
(* alloc_block and Block.free calls, every data block is either held by    *)
(* the client or reachable exactly once from the superblock cache and the  *)
(* overflow chain.  Breaking it takes a cache overflow into a list-block   *)
(* and a later refill from it.                                             *)
(***************************************************************************)
Conservation == Accounts(alloc, used)

(***************************************************************************)
(* The cache and chain implement the abstract free set: alloc_block hands  *)
(* out a block that was free, and raises out-of-space only when no block   *)
(* at all is free, including blocks parked in overflow list-blocks.        *)
(***************************************************************************)
Abstract == INSTANCE FreeBlocks WITH Blocks <- DataBlocks, NoSpace <- NoSpace,
                                     free <- FreeSet(alloc), ret <- ret
AllocRefinesFreeSet == Abstract!Spec
=============================================================================
