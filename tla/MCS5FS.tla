------------------------------- MODULE MCS5FS -------------------------------
(***************************************************************************)
(* Model-checking instance of S5FSSpec (constants in MCS5FS.cfg): 3 inodes *)
(* (the root and two more), two caller names besides "." and "..", 4-byte *)
(* blocks holding two 2-byte directory entries, 1 direct pointer and a     *)
(* 2-entry indirect table (files of at most 3 blocks, 12 bytes), on 6 data *)
(* blocks with a 2-entry free cache.  Writes of 1 byte land in the direct  *)
(* block (offset 0), in the second table entry (8) and at the last byte   *)
(* of the largest file (11); truncates cut to 0 or 1 byte.                 *)
(***************************************************************************)
EXTENDS S5FSSpec
=============================================================================
