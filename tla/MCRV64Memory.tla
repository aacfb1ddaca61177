---------------------------- MODULE MCRV64Memory ----------------------------
(***************************************************************************)
(* Small instance of RV64Memory: two addresses, one of which names another *)
(* location once it is translated, and one page of code.                   *)
(***************************************************************************)
EXTENDS RV64Memory

MCTable ==
    [s \in {"s"} |->
        [va \in {"a", "b"} |->
            IF va = "a" THEN [pa |-> "p2", bits |-> {"R", "W", "U", "A", "D"}]
                        ELSE [pa |-> "p1", bits |-> {"R", "X", "U", "A"}]]]
MCBare == [va \in {"a", "b"} |-> IF va = "a" THEN "p1" ELSE "p2"]

M(p, v, mp, u, x, sp) == [priv |-> p, mprv |-> v, mpp |-> mp, sum |-> u,
                          mxr |-> x, space |-> sp]

\* Harts that access memory untranslated from M_MODE and translated from the
\* other modes, from M_MODE through mprv, and with mxr.
MCMode == {M(M_MODE, FALSE, U_MODE, FALSE, FALSE, "s"),
           M(U_MODE, FALSE, U_MODE, FALSE, TRUE, "s"),
           M(M_MODE, TRUE, S_MODE, TRUE, FALSE, "s"),
           M(S_MODE, FALSE, U_MODE, FALSE, FALSE, "s")}
============================================================================
