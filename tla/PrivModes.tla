----------------------------- MODULE PrivModes -----------------------------
(***************************************************************************)
(* PrivMode_e of include/rv64_structs.h.  The core lacks H_MODE, but mpp,  *)
(* two bits wide, can name it.                                             *)
(***************************************************************************)
EXTENDS Integers

U_MODE == 0
S_MODE == 1
H_MODE == 2
M_MODE == 3
PrivMode == {U_MODE, S_MODE, H_MODE, M_MODE}
============================================================================
