----------------------------- MODULE MCSv39Tlb -----------------------------
(***************************************************************************)
(* Small instance of Sv39Tlb.  Physical page 1 is the root table, page 2 a *)
(* table used at the middle and at the lowest level, page 3 holds data and *)
(* page 0 is not behind the bus.  The guest remaps pages of all three      *)
(* sizes, some of them at the same virtual address, with and without the   *)
(* global bit.                                                             *)
(***************************************************************************)
EXTENDS Sv39Tlb

MCVPN == {0, 1}
MCPPN == {0, 1, 2, 3}
MCRAM == {1, 2}

V(a, b, c) == [vpn_2 |-> a, vpn_1 |-> b, vpn_0 |-> c]

Invalid == [V |-> FALSE, bits |-> {}, ppn |-> 0, rsv |-> FALSE]
Dir(p) == [V |-> TRUE, bits |-> {}, ppn |-> p, rsv |-> FALSE]
Page(p, b) == [V |-> TRUE, bits |-> {"R", "A"} \cup b, ppn |-> p, rsv |-> FALSE]

\* Root: entry 0 is unmapped, entry 1 leads to table 2.
\* Table 2: entry 0 is a 2 MB page at <<1,0,_>>; entry 1 points back to the
\* table itself, which maps <<1,1,0>> as a 4 KB page.
Table0 == [t \in MCRAM |->
             IF t = 1 THEN [i \in MCVPN |-> IF i = 1 THEN Dir(2) ELSE Invalid]
                      ELSE [i \in MCVPN |-> IF i = 0 THEN Page(3, {}) ELSE Dir(2)]]
MCMemory == {Table0}

St(t, i, pte) == [t |-> t, i |-> i, pte |-> pte]
\* The 1 GB page replaces the subtree and back, and is global.
MCStore == {St(1, 1, Page(2, {"G"})), St(1, 1, Dir(2))}
MCVAddr == {V(1, 0, 0), V(1, 1, 0)}
MCVAddrFault == MCVAddr \cup {V(0, 0, 0)}
Satp(m, a, p) == [mode |-> m, asid |-> a, ppn |-> p]
MCSatp == {Satp(8, 0, 1), Satp(8, 1, 1)}
MCFence == [va : MCVAddr \cup {AllAddrs}, asid : {0, 1}]

\* Three slots, pages of one address space only, a root table outside RAM,
\* and only the full fence.
MCStore3 == {St(1, 1, Page(2, {})), St(1, 1, Dir(2))}
MCSatp3 == MCSatp \cup {Satp(8, 1, 0)}
MCFence3 == {[va |-> AllAddrs, asid |-> 0]}

MCGarbage == {[ppa |-> 0, vpa |-> v, asid |-> 0, pagesize |-> 0, bits |-> {}] :
                 v \in {V(1, 0, 0)}}
============================================================================
