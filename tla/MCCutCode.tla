------------------------------ MODULE MCCutCode ------------------------------
(***************************************************************************)
(* Model-checking instance of CutCode (constants in MCCutCode.cfg): one    *)
(* module and one extra, files of up to 4 lines, and a module pass that    *)
(* may reach the file twice, so both passes, their repetition, every       *)
(* keep set main builds, and regions that nest, follow each other or stay  *)
(* open happen.                                                            *)
(***************************************************************************)
EXTENDS CutCode
=============================================================================
