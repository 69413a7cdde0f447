----------------------------- MODULE FreeBlocks -----------------------------
(***************************************************************************)
(* What the free-block allocator promises, with no cache and no chain: a   *)
(* set of free blocks.  Allocation hands out some free block, and fails    *)
(* with out-of-space only when no block is free; freeing returns a block   *)
(* that was in use.  ret is the result of the last allocation.             *)
(***************************************************************************)
CONSTANTS Blocks, NoSpace

VARIABLES free, ret

Init == free = Blocks /\ ret = 0

Alloc ==
  \E b \in free : free' = free \ {b} /\ ret' = b

AllocFail ==
  free = {} /\ ret' = NoSpace /\ UNCHANGED free

Free ==
  \E b \in Blocks \ free : free' = free \cup {b} /\ UNCHANGED ret

Next == Alloc \/ AllocFail \/ Free

Spec == Init /\ [][Next]_<<free, ret>>
=============================================================================
