------------------------------ MODULE MCS5File ------------------------------
(***************************************************************************)
(* Model-checking instance of S5FileSpec: 2-byte blocks, 2 direct pointers *)
(* and a 2-entry indirect table (a file of at most 4 blocks, 8 bytes), on  *)
(* 4 data blocks with a 2-entry free cache, so that a file using all four  *)
(* indices needs a fifth block and a write runs out of space part way.     *)
(***************************************************************************)
EXTENDS S5FileSpec
=============================================================================
