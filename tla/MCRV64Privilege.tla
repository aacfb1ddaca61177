-------------------------- MODULE MCRV64Privilege --------------------------
(***************************************************************************)
(* Small instance of RV64Privilege: the supervisor software interrupt and  *)
(* the machine timer, one delegable exception, direct vectors and a        *)
(* reserved vector mode, and status values that return to every mode.      *)
(***************************************************************************)
EXTENDS RV64Privilege

St(ie, mpp, spp, t) ==
    [sie |-> ie, mie |-> ie, spie |-> ie, mpie |-> ie, spp |-> spp, mpp |-> mpp,
     mprv |-> FALSE, tvm |-> t, tsr |-> t]
MCStatus == {St(TRUE, U_MODE, S_MODE, FALSE), St(FALSE, S_MODE, U_MODE, TRUE),
             St(TRUE, H_MODE, U_MODE, FALSE)}
MCExc == {{2, 11}}
MCInt == {{1, 7}}
MCLines == {{}, {7}}
MCTvec == {[mode |-> 0, base |-> 2], [mode |-> 2, base |-> 0]}
============================================================================
