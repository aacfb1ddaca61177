------------------------------ MODULE Sv39Tlb ------------------------------
(***************************************************************************)
(* The TLB of one RV64SV39_MMU (inline_impl/rv64_sv39.hpp): TLB_SIZE       *)
(* entries replaced round robin, and tlbGetCache, a hash map from the      *)
(* masked virtual address to an entry that speeds up the match.            *)
(*                                                                         *)
(* getTLBEntry is one call and runs to its end without interruption, so    *)
(* each way through it is one action.  The map is never cleaned by         *)
(* sfence.vma, and evicting an entry erases the map's value for its        *)
(* address even when that value is another entry: the map can hold stale   *)
(* or lack live entries, and the invariants say why that is harmless.      *)
(***************************************************************************)
EXTENDS Sv39Arch

CONSTANTS
    TLB_SIZE,     \* 32 in the code
    Garbage       \* what the uninitialised entries can hold at start-up

ASSUME TlbSizeAssumption == TLB_SIZE \in Nat \ {0}
\* The constructor sets pagesize and nothing else.
ASSUME GarbageAssumption == Garbage \subseteq {e \in TLBEntry : e.pagesize = 0}

Slots == 0 .. TLB_SIZE - 1
NoSlot == -1

VARIABLES
    tlb,               \* SV39_TLB_Entry_t tlb[TLB_SIZE]
    tlbGetCache,       \* VPA to TLB entry; NoSlot where the map has no key
    lastSwappedIndex,
    aborted            \* the assertion that ended the emulator, or "no"

vars == <<mem, satp, allowed, answer, tlb, tlbGetCache, lastSwappedIndex, aborted>>
mmuVars == <<tlb, tlbGetCache, lastSwappedIndex>>

TypeOK ==
    /\ mem \in Memory
    /\ satp \in SATP
    /\ allowed \subseteq TLBEntry
    /\ tlb \in [Slots -> TLBEntry]
    /\ tlbGetCache \in [VAddr -> Slots \cup {NoSlot}]
    /\ lastSwappedIndex \in Slots
    /\ aborted \in {"no", "noncanonical", "double_match", "walk_bus"}

Init ==
    /\ ArchInit
    /\ tlb \in [Slots -> Garbage]
    /\ tlbGetCache = [k \in VAddr |-> NoSlot]
    /\ lastSwappedIndex = 0
    /\ aborted = "no"

----------------------------------------------------------------------------
\* Mutant: the fast path compares the page size only.
HashHitAnyAsid(ps, va) ==
    LET i == tlbGetCache[PageAddr(ps, va)] IN i # NoSlot /\ tlb[i].pagesize = ps

\* The hash map holds, for va masked to page size ps, a usable entry of that
\* page size.  The code compares asid, G and pagesize but not the address.
HashHit(ps, va) ==
    LET i == tlbGetCache[PageAddr(ps, va)]
    IN  /\ i # NoSlot
        /\ UsableBy(tlb[i], satp.asid)
        /\ tlb[i].pagesize = ps

\* Mutant: the scan compares the unmasked address.
ScanMatchesUnmasked(va) ==
    {i \in Slots : UsableBy(tlb[i], satp.asid) /\ tlb[i].pagesize # 0 /\ tlb[i].vpa = va}

\* The entries the scan over the whole TLB matches.
ScanMatches(va) ==
    {i \in Slots : UsableBy(tlb[i], satp.asid) /\ Covers(tlb[i], va)}

NoHashHit(va) == \A ps \in 1 .. 3 : ~HashHit(ps, va)

Answer(va, e) ==
    /\ answer' = [va |-> va, entry |-> e]
    /\ UNCHANGED <<mem, satp, allowed, aborted>>

Abort(why) ==
    /\ aborted' = why
    /\ UNCHANGED <<mem, satp, allowed, answer, mmuVars>>

\* The callers translate only while paging is on.
Translating == aborted = "no" /\ satp.mode # 0

\* The blank field does not sign-extend vpn_2: the first assertion fails.
TranslateNonCanonical ==
    /\ Translating
    /\ Abort("noncanonical")

\* 4 KB, 2 MB and 1 GB are tried in this order.
TranslateHash(va) ==
    /\ Translating
    /\ \E ps \in 1 .. 3 :
          /\ HashHit(ps, va)
          /\ \A q \in 1 .. ps - 1 : ~HashHit(q, va)
          /\ Answer(va, tlb[tlbGetCache[PageAddr(ps, va)]])
    /\ UNCHANGED mmuVars

TranslateScan(va) ==
    /\ Translating
    /\ NoHashHit(va)
    /\ \E i \in Slots :
          /\ ScanMatches(va) = {i}
          /\ tlbGetCache' = [tlbGetCache EXCEPT ![tlb[i].vpa] = i]
          /\ Answer(va, tlb[i])
    /\ UNCHANGED <<tlb, lastSwappedIndex>>

\* The scan meets a second match: assert(tlb_entry_ptr == nullptr).
TranslateDoubleMatch(va) ==
    /\ Translating
    /\ NoHashHit(va)
    /\ \E i, j \in ScanMatches(va) : i # j
    /\ Abort("double_match")

\* Mutant: the round-robin index is not wrapped.
writeTLBNoWrap(e) ==
    LET i == lastSwappedIndex
    IN  /\ tlb' = [tlb EXCEPT ![i] = e]
        /\ tlbGetCache' = [k \in VAddr |-> IF k = e.vpa THEN i
                                           ELSE IF k = tlb[i].vpa THEN NoSlot
                                           ELSE tlbGetCache[k]]
        /\ lastSwappedIndex' = i + 1

\* Mutant: the victim's key stays in the map.
writeTLBKeepKey(e) ==
    LET i == lastSwappedIndex
    IN  /\ tlb' = [tlb EXCEPT ![i] = e]
        /\ tlbGetCache' = [tlbGetCache EXCEPT ![e.vpa] = i]
        /\ lastSwappedIndex' = (i + 1) % TLB_SIZE

\* writeTLB: the key of the victim's address is erased whatever it maps to,
\* then the new address is mapped to the slot.
writeTLB(e) ==
    LET i == lastSwappedIndex
    IN  /\ tlb' = [tlb EXCEPT ![i] = e]
        /\ tlbGetCache' = [k \in VAddr |-> IF k = e.vpa THEN i
                                           ELSE IF k = tlb[i].vpa THEN NoSlot
                                           ELSE tlbGetCache[k]]
        /\ lastSwappedIndex' = (i + 1) % TLB_SIZE

\* A miss in the map and in the scan walks the page tables.
Miss(va) == Translating /\ NoHashHit(va) /\ ScanMatches(va) = {}

TranslateFill(va) ==
    /\ Miss(va)
    /\ WalkLeaf(mem, satp.ppn, va)
    /\ LET e == NewEntry(Walk(mem, satp.ppn, va), va, satp.asid)
       IN  writeTLB(e) /\ Answer(va, e)

TranslateFault(va) ==
    /\ Miss(va)
    /\ WalkFault(mem, satp.ppn, va)
    /\ Answer(va, NoEntry)
    /\ UNCHANGED mmuVars

TranslateBusError(va) ==
    /\ Miss(va)
    /\ WalkBusError(mem, satp.ppn, va)
    /\ Abort("walk_bus")

\* Mutant: a fence of one address is compared at 4 KB for every page size.
FlushedBy4K(e, f) ==
    /\ e.asid = f.asid \/ f.asid = 0
    /\ f.va = AllAddrs \/ (e.pagesize # 0 /\ e.vpa = f.va)

\* SV39_FlushTLB_sfence_vma: an entry is invalidated by pagesize alone; its
\* address stays behind, and so does its key in tlbGetCache.
FlushedBy(e, f) ==
    /\ e.asid = f.asid \/ f.asid = 0
    /\ f.va = AllAddrs \/ Covers(e, f.va)

SV39_FlushTLB_sfence_vma(f) ==
    /\ aborted = "no"
    /\ tlb' = [i \in Slots |-> IF FlushedBy(tlb[i], f)
                                 THEN [tlb[i] EXCEPT !.pagesize = 0]
                                 ELSE tlb[i]]
    /\ ArchFence(f)
    /\ UNCHANGED <<tlbGetCache, lastSwappedIndex, aborted>>

\* The guest's side: a store to a page table and a csr_write of satp.  Neither
\* touches the TLB.
StorePTE(st) ==
    /\ aborted = "no"
    /\ ArchStorePTE(st)
    /\ UNCHANGED <<mmuVars, aborted>>

csr_write_satp(s) ==
    /\ aborted = "no"
    /\ ArchWriteSatp(s)
    /\ UNCHANGED <<mmuVars, aborted>>

Next ==
    \/ TranslateNonCanonical
    \/ \E va \in GuestVAddr :
          \/ TranslateHash(va)
          \/ TranslateScan(va)
          \/ TranslateDoubleMatch(va)
          \/ TranslateFill(va)
          \/ TranslateFault(va)
          \/ TranslateBusError(va)
    \/ \E f \in GuestFence : SV39_FlushTLB_sfence_vma(f)
    \/ \E st \in GuestStore : StorePTE(st)
    \/ \E s \in GuestSATP : csr_write_satp(s)

Spec == Init /\ [][Next]_vars

----------------------------------------------------------------------------
\* The map is sound: the entry a key maps to has that key as its address,
\* even after evictions, flushes and re-use of the slot.  getTLBEntry relies
\* on it in its fast path, which returns the mapped entry without comparing
\* addresses (the comparisons are commented-out assertions).
CacheSound ==
    \A k \in VAddr : tlbGetCache[k] # NoSlot => tlb[tlbGetCache[k]].vpa = k

\* What the page tables say now is always among what an access may see.
CurrentAllowed == Translations(satp, mem) \subseteq allowed

\* Every live entry is a translation the guest may still see: no fence that
\* covers it has completed since the page tables last contained it.
LiveAllowed ==
    \A i \in Slots : tlb[i].pagesize # 0 => tlb[i] \in allowed

\* One page of one address space is never held twice at the same size, so a
\* flush or an eviction cannot leave a second copy behind.
NoDuplicates ==
    \A i, j \in Slots :
        /\ tlb[i].pagesize # 0
        /\ tlb[i].pagesize = tlb[j].pagesize
        /\ tlb[i].vpa = tlb[j].vpa
        /\ tlb[i].asid = tlb[j].asid
        => i = j

\* The TLB never shows: every answer is one that Sv39Arch allows.
Transparent == ArchSpec

\* The scan's assertion, rv64_sv39.hpp:250: at most one entry matches.
ScanFindsAtMostOne == aborted # "double_match"
============================================================================
