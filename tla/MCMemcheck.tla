----------------------------- MODULE MCMemcheck -----------------------------
(***************************************************************************)
(* Memcheck for TLC: two addresses (a slab object and a page allocation    *)
(* can be live, freed, reused and freed wrongly), allocations of 1 or 2    *)
(* pages, and enough events for an allocation before "initialized", one    *)
(* after it, and a wrong free in the same run.  Addresses are only         *)
(* compared, so they are symmetric.                                        *)
(***************************************************************************)
EXTENDS Memcheck

CONSTANTS a1, a2

MCAddrs == {a1, a2}

AddrSymmetry == Permutations(MCAddrs)
=============================================================================
