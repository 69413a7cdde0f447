------------------------------ MODULE MCS5Alloc ------------------------------
(***************************************************************************)
(* Model-checking instance of S5AllocSpec.  A 2-entry cache over 6 data    *)
(* blocks makes format build a chain of two list-blocks, so allocation     *)
(* drains the cache, refills from the chain twice and runs out, and        *)
(* freeing overflows the cache into new list-blocks.                       *)
(***************************************************************************)
EXTENDS S5AllocSpec
=============================================================================
