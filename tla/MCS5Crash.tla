------------------------------ MODULE MCS5Crash ------------------------------
(***************************************************************************)
(* Model-checking instance of S5Crash (constants in MCS5Crash.cfg): the    *)
(* geometry of MCS5FS, so that frees go to the overflow chain, writes      *)
(* reach the indirect table and truncates free it, with any call of any    *)
(* run of S5FSSpec cut short at any of its writes.                         *)
(***************************************************************************)
EXTENDS S5Crash
=============================================================================
