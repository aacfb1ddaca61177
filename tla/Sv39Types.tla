----------------------------- MODULE Sv39Types -----------------------------
(***************************************************************************)
(* Addresses, page-table entries and TLB entries of the SV39 MMU           *)
(* (include/rv64_sv39_structs.h), and the three-level page-table walk that *)
(* RV64SV39_MMU::getTLBEntry performs on a TLB miss                        *)
(* (inline_impl/rv64_sv39.hpp).                                            *)
(*                                                                         *)
(* Data abstraction: the page offset is dropped, so an address is the      *)
(* triple of its virtual page numbers; the permission bits of a PTE are a  *)
(* set of bit names; the `reserved' and `PBMT' fields, which the code only *)
(* compares with zero, are one flag.                                       *)
(***************************************************************************)
EXTENDS Integers

CONSTANTS
    VPN,      \* indices of one page table (0 .. 511 in the code)
    PPN,      \* physical page numbers a PTE or satp can name
    RAM,      \* the physical pages the bus can read
    ASID      \* address-space identifiers (16 bits in the code)

ASSUME VPNAssumption == 0 \in VPN
ASSUME PPNAssumption == 0 \in PPN /\ RAM \subseteq PPN
ASSUME ASIDAssumption == 0 \in ASID

\* An SV39_VAddr_t whose `blank' field sign-extends vpn_2, without its offset.
VAddr == [vpn_2 : VPN, vpn_1 : VPN, vpn_0 : VPN]

Bits == {"R", "W", "X", "U", "G", "A", "D"}

PTE == [V : BOOLEAN, bits : SUBSET Bits, ppn : PPN, rsv : BOOLEAN]

\* pagesize: 0 invalid, 1 4KB, 2 2MB, 3 1GB.
PageSize == 0 .. 3

TLBEntry == [ppa : PPN, vpa : VAddr, asid : ASID, pagesize : PageSize,
             bits : SUBSET Bits]

SATP == [mode : {0, 8}, asid : ASID, ppn : PPN]

\* The contents of RAM, read as page tables.
Memory == [RAM -> [VPN -> PTE]]

----------------------------------------------------------------------------
\* vaddr.val & _4k_PAGE_ADDR_MASK, _2M_PAGE_ADDR_MASK or _1G_PAGE_ADDR_MASK.
\* Page 0 of a huge page has the same masked address at every page size.
PageAddr(ps, va) ==
    [vpn_2 |-> va.vpn_2,
     vpn_1 |-> IF ps = 3 THEN 0 ELSE va.vpn_1,
     vpn_0 |-> IF ps = 1 THEN va.vpn_0 ELSE 0]

isValidDirPTE(pte) ==
    /\ pte.V
    /\ {"R", "W", "X"} \cap pte.bits = {}
    /\ ~pte.rsv

isValidLeafPTE(pte) ==
    /\ pte.V
    /\ "W" \in pte.bits => "R" \in pte.bits
    /\ {"R", "X"} \cap pte.bits # {}
    /\ ~pte.rsv

\* Reading entry i of the table at physical page t and classifying it.  When
\* the bus cannot read the table, `assert(feedback == MEMU_OK)' ends the
\* emulator.
NoPTE == [V |-> FALSE, bits |-> {}, ppn |-> 0, rsv |-> FALSE]
ReadPTE(m, t, i, ps) ==
    IF t \notin RAM THEN [kind |-> "buserror", ps |-> ps, pte |-> NoPTE]
    ELSE [kind |-> IF isValidLeafPTE(m[t][i]) THEN "leaf"
                   ELSE IF isValidDirPTE(m[t][i]) THEN "dir" ELSE "invalid",
          ps   |-> ps,
          pte  |-> m[t][i]]

\* A leaf ends the walk at any level; getTLBEntry returns nullptr on anything
\* but a directory at the upper levels and anything but a leaf at the lowest.
Walk(m, root, va) ==
    LET l2 == ReadPTE(m, root, va.vpn_2, 3)
        l1 == ReadPTE(m, l2.pte.ppn, va.vpn_1, 2)
        l0 == ReadPTE(m, l1.pte.ppn, va.vpn_0, 1)
    IN  IF l2.kind # "dir" THEN l2
        ELSE IF l1.kind # "dir" THEN l1 ELSE l0

WalkLeaf(m, root, va) == Walk(m, root, va).kind = "leaf"
WalkBusError(m, root, va) == Walk(m, root, va).kind = "buserror"
WalkFault(m, root, va) == Walk(m, root, va).kind \in {"dir", "invalid"}

\* The TLB entry writeTLB builds from a leaf.
NewEntry(w, va, asid) ==
    [ppa |-> w.pte.ppn, vpa |-> PageAddr(w.ps, va), asid |-> asid,
     pagesize |-> w.ps, bits |-> w.pte.bits]

\* An entry translates va / may be used by the address space asid.
Covers(e, va) == e.pagesize # 0 /\ PageAddr(e.pagesize, va) = e.vpa
UsableBy(e, asid) == e.asid = asid \/ "G" \in e.bits
============================================================================
