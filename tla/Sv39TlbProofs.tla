--------------------------- MODULE Sv39TlbProofs ---------------------------
(***************************************************************************)
(* The TLB is sound and invisible for every TLB size, every page-table     *)
(* contents, every number of address spaces and every start-up garbage.    *)
(***************************************************************************)
EXTENDS Sv39Tlb, TLAPS

\* The inductive invariant.  NoDuplicates needs nothing else; a hash hit is a
\* legitimate answer because of CacheSound and LiveAllowed together; a fill
\* keeps LiveAllowed because of CurrentAllowed.
IInv == TypeOK /\ CacheSound /\ LiveAllowed /\ CurrentAllowed /\ NoDuplicates

----------------------------------------------------------------------------
\* Masking an address to a page size (the _xx_PAGE_ADDR_MASK constants) gives
\* an address.
LEMMA PageAddrType ==
    ASSUME NEW va \in VAddr, NEW ps PROVE PageAddr(ps, va) \in VAddr
  BY VPNAssumption DEF PageAddr, VAddr

\* A PTE read by getTLBEntry is a PTE, whatever page it is read from.
LEMMA ReadPTEType ==
    ASSUME NEW m \in Memory, NEW t \in PPN, NEW i \in VPN, NEW ps
    PROVE  ReadPTE(m, t, i, ps).pte \in PTE /\ ReadPTE(m, t, i, ps).ps = ps
  BY PPNAssumption DEF ReadPTE, Memory, NoPTE, PTE

\* The walk ends with a PTE at one of the three levels.
LEMMA WalkType ==
    ASSUME NEW m \in Memory, NEW root \in PPN, NEW va \in VAddr
    PROVE  Walk(m, root, va).pte \in PTE /\ Walk(m, root, va).ps \in 1 .. 3
<1> DEFINE l2 == ReadPTE(m, root, va.vpn_2, 3)
           l1 == ReadPTE(m, l2.pte.ppn, va.vpn_1, 2)
           l0 == ReadPTE(m, l1.pte.ppn, va.vpn_0, 1)
<1>0. va.vpn_2 \in VPN /\ va.vpn_1 \in VPN /\ va.vpn_0 \in VPN
  BY DEF VAddr
<1>1. l2.pte \in PTE /\ l2.ps = 3 /\ l2.pte.ppn \in PPN
  BY <1>0, ReadPTEType DEF PTE
<1>2. l1.pte \in PTE /\ l1.ps = 2 /\ l1.pte.ppn \in PPN
  BY <1>0, <1>1, ReadPTEType DEF PTE
<1>3. l0.pte \in PTE /\ l0.ps = 1
  BY <1>0, <1>2, ReadPTEType
<1>4. Walk(m, root, va) = l2 \/ Walk(m, root, va) = l1 \/ Walk(m, root, va) = l0
  BY DEF Walk
<1> HIDE DEF l2, l1, l0
<1>5. QED
  BY <1>1, <1>2, <1>3, <1>4

\* writeTLB builds a live entry for the masked address.
LEMMA NewEntryType ==
    ASSUME NEW m \in Memory, NEW root \in PPN, NEW va \in VAddr, NEW a \in ASID
    PROVE  LET w == Walk(m, root, va)
               e == NewEntry(w, va, a)
           IN  /\ e \in TLBEntry
               /\ e.pagesize \in 1 .. 3 /\ e.asid = a
               /\ e.vpa = PageAddr(e.pagesize, va)
<1> DEFINE w == Walk(m, root, va)
<1>1. w.pte \in PTE /\ w.ps \in 1 .. 3
  BY WalkType
<1>2. PageAddr(w.ps, va) \in VAddr
  BY PageAddrType
<1> HIDE DEF w
<1>3. QED
  BY <1>1, <1>2 DEF NewEntry, TLBEntry, PageSize, PTE, w

\* Every translation the page tables give is a TLB entry.
LEMMA TranslationsType ==
    ASSUME NEW s \in SATP, NEW m \in Memory
    PROVE  Translations(s, m) \subseteq TLBEntry
<1>1. s.ppn \in PPN /\ s.asid \in ASID
  BY DEF SATP
<1>2. ASSUME NEW va \in VAddr
      PROVE  NewEntry(Walk(m, s.ppn, va), va, s.asid) \in TLBEntry
  BY <1>1, NewEntryType
<1>3. QED
  BY <1>2 DEF Translations

----------------------------------------------------------------------------
LEMMA InitIInv == Init => IInv
<1> SUFFICES ASSUME Init PROVE IInv
  OBVIOUS
<1>1. \A i \in Slots : tlb[i] \in TLBEntry /\ tlb[i].pagesize = 0
  BY GarbageAssumption DEF Init
<1>2. TypeOK
  BY <1>1, TlbSizeAssumption, GuestAssumption, PPNAssumption, ASIDAssumption
     DEF Init, ArchInit, TypeOK, SATP, Slots
<1>3. CacheSound
  BY DEF Init, CacheSound
<1>4. LiveAllowed /\ NoDuplicates
  BY <1>1 DEF LiveAllowed, NoDuplicates
<1>5. CurrentAllowed
  BY DEF Init, ArchInit, CurrentAllowed, Translations
<1>6. QED
  BY <1>2, <1>3, <1>4, <1>5 DEF IInv

\* A hit in the map answers from a live slot and writes nothing.
LEMMA HashStep ==
    ASSUME IInv, NEW va \in GuestVAddr, TranslateHash(va) PROVE IInv'
  BY DEF TranslateHash, Answer, mmuVars, IInv, TypeOK, CacheSound, LiveAllowed,
         CurrentAllowed, NoDuplicates, Slots

\* The scan maps the matched slot's own address to it.
LEMMA ScanStep ==
    ASSUME IInv, NEW va \in GuestVAddr, TranslateScan(va) PROVE IInv'
<1>1. PICK i \in Slots : tlbGetCache' = [tlbGetCache EXCEPT ![tlb[i].vpa] = i]
  BY DEF TranslateScan
<1>2. tlb' = tlb /\ satp' = satp /\ mem' = mem /\ allowed' = allowed
      /\ lastSwappedIndex' = lastSwappedIndex /\ aborted' = aborted
  BY DEF TranslateScan, Answer
<1>3. tlb[i].vpa \in VAddr
  BY DEF IInv, TypeOK, TLBEntry
<1>4. TypeOK'
  BY <1>1, <1>2, <1>3 DEF IInv, TypeOK
<1>5. CacheSound'
  BY <1>1, <1>2, <1>3 DEF IInv, TypeOK, CacheSound
<1>6. (LiveAllowed /\ CurrentAllowed /\ NoDuplicates)'
  BY <1>2 DEF IInv, LiveAllowed, CurrentAllowed, NoDuplicates
<1>7. QED
  BY <1>4, <1>5, <1>6 DEF IInv

\* A fill puts a current translation in the victim's slot.  No slot held that
\* page before, or the scan would have matched it.
LEMMA FillStep ==
    ASSUME IInv, NEW va \in GuestVAddr, TranslateFill(va) PROVE IInv'
<1> DEFINE e == NewEntry(Walk(mem, satp.ppn, va), va, satp.asid)
           n == lastSwappedIndex
<1>1. va \in VAddr /\ satp.ppn \in PPN /\ satp.asid \in ASID /\ mem \in Memory
  BY GuestAssumption DEF IInv, TypeOK, SATP
<1>2. /\ e \in TLBEntry /\ e.pagesize \in 1 .. 3 /\ e.asid = satp.asid
      /\ e.vpa = PageAddr(e.pagesize, va)
  BY <1>1, NewEntryType
<1>3. e \in allowed
  BY <1>1 DEF TranslateFill, Miss, Translating, IInv, CurrentAllowed, Translations
<1>4. /\ tlb' = [tlb EXCEPT ![n] = e]
      /\ tlbGetCache' = [k \in VAddr |-> IF k = e.vpa THEN n
                                         ELSE IF k = tlb[n].vpa THEN NoSlot
                                         ELSE tlbGetCache[k]]
      /\ lastSwappedIndex' = (n + 1) % TLB_SIZE
      /\ UNCHANGED <<mem, satp, allowed, aborted>>
  BY DEF TranslateFill, writeTLB, Answer
<1>5. \A i \in Slots : ~(UsableBy(tlb[i], satp.asid) /\ Covers(tlb[i], va))
  BY DEF TranslateFill, Miss, ScanMatches
<1>6. n \in Slots /\ n # NoSlot /\ (n + 1) % TLB_SIZE \in Slots
  BY TlbSizeAssumption DEF IInv, TypeOK, Slots, NoSlot
<1> HIDE DEF e, n
<1>7. tlb' \in [Slots -> TLBEntry] /\ tlb'[n] = e
      /\ \A i \in Slots : i # n => tlb'[i] = tlb[i]
  BY <1>2, <1>4, <1>6 DEF IInv, TypeOK
<1>8. TypeOK'
  BY <1>4, <1>6, <1>7 DEF IInv, TypeOK
<1>9. CacheSound'
  <2> SUFFICES ASSUME NEW k \in VAddr, tlbGetCache'[k] # NoSlot
               PROVE  tlb'[tlbGetCache'[k]].vpa = k
    BY DEF CacheSound
  <2>1. CASE k = e.vpa
    BY <2>1, <1>4, <1>7
  <2>2. CASE k # e.vpa
    <3>1. k # tlb[n].vpa /\ tlbGetCache'[k] = tlbGetCache[k]
      BY <2>2, <1>4
    <3>2. tlbGetCache[k] \in Slots /\ tlb[tlbGetCache[k]].vpa = k
      BY <3>1 DEF IInv, TypeOK, CacheSound
    <3>3. tlbGetCache[k] # n
      BY <3>1, <3>2
    <3>4. QED
      BY <3>1, <3>2, <3>3, <1>7
  <2>3. QED
    BY <2>1, <2>2
<1>10. LiveAllowed'
  BY <1>3, <1>4, <1>7 DEF IInv, LiveAllowed
<1>11. CurrentAllowed'
  BY <1>4 DEF IInv, CurrentAllowed
<1>12. NoDuplicates'
  <2>1. \A i \in Slots : ~( /\ tlb[i].pagesize = e.pagesize
                            /\ tlb[i].vpa = e.vpa
                            /\ tlb[i].asid = e.asid)
    BY <1>2, <1>5 DEF UsableBy, Covers
  <2>2. QED
    BY <2>1, <1>7 DEF IInv, NoDuplicates
<1>13. QED
  BY <1>8, <1>9, <1>10, <1>11, <1>12 DEF IInv

\* A fence keeps only entries it does not cover, and covers all it must.
LEMMA FenceStep ==
    ASSUME IInv, NEW f \in GuestFence, SV39_FlushTLB_sfence_vma(f) PROVE IInv'
<1>1. tlb' = [i \in Slots |-> IF FlushedBy(tlb[i], f)
                                THEN [tlb[i] EXCEPT !.pagesize = 0] ELSE tlb[i]]
  BY DEF SV39_FlushTLB_sfence_vma
<1>2. /\ allowed' = {e \in allowed : ~MustFlush(e, f)} \cup Translations(satp, mem)
      /\ UNCHANGED <<mem, satp, tlbGetCache, lastSwappedIndex, aborted>>
  BY DEF SV39_FlushTLB_sfence_vma, ArchFence
<1>3. \A i \in Slots : /\ tlb'[i] \in TLBEntry
                       /\ tlb'[i].vpa = tlb[i].vpa /\ tlb'[i].asid = tlb[i].asid
                       /\ tlb'[i].pagesize # 0 =>
                             tlb'[i] = tlb[i] /\ ~FlushedBy(tlb[i], f)
  BY <1>1 DEF IInv, TypeOK, TLBEntry, PageSize
<1>4. allowed' \subseteq TLBEntry
  BY <1>2, TranslationsType DEF IInv, TypeOK
<1>5. tlb' \in [Slots -> TLBEntry]
  BY <1>1, <1>3
<1>6. TypeOK'
  BY <1>2, <1>4, <1>5 DEF IInv, TypeOK
<1>7. CacheSound'
  BY <1>2, <1>3 DEF IInv, TypeOK, CacheSound
<1>8. LiveAllowed'
  BY <1>2, <1>3 DEF IInv, LiveAllowed, FlushedBy, MustFlush
<1>9. CurrentAllowed'
  BY <1>2 DEF CurrentAllowed
<1>10. NoDuplicates'
  BY <1>3 DEF IInv, NoDuplicates
<1>11. QED
  BY <1>6, <1>7, <1>8, <1>9, <1>10 DEF IInv

\* Page-table stores and satp writes only add to what is allowed.
LEMMA GuestStep ==
    ASSUME IInv,
           \/ \E st \in GuestStore : StorePTE(st)
           \/ \E s \in GuestSATP : csr_write_satp(s)
    PROVE  IInv'
<1>1. mem' \in Memory /\ satp' \in SATP
  <2>1. CASE \E st \in GuestStore : StorePTE(st)
    BY <2>1, GuestAssumption DEF IInv, TypeOK, StorePTE, ArchStorePTE, Memory
  <2>2. CASE \E s \in GuestSATP : csr_write_satp(s)
    BY <2>2, GuestAssumption DEF IInv, TypeOK, csr_write_satp, ArchWriteSatp
  <2>3. QED
    BY <2>1, <2>2
<1>2. /\ allowed' = allowed \cup Translations(satp', mem')
      /\ UNCHANGED <<tlb, tlbGetCache, lastSwappedIndex, aborted>>
  BY DEF StorePTE, ArchStorePTE, csr_write_satp, ArchWriteSatp, mmuVars
<1>3. TypeOK'
  BY <1>1, <1>2, TranslationsType DEF IInv, TypeOK
<1>4. (CacheSound /\ LiveAllowed /\ CurrentAllowed /\ NoDuplicates)'
  BY <1>2 DEF IInv, CacheSound, LiveAllowed, CurrentAllowed, NoDuplicates
<1>5. QED
  BY <1>3, <1>4 DEF IInv

\* A fault and an abort leave the TLB as it is.
LEMMA QuietStep ==
    ASSUME IInv,
           UNCHANGED <<mem, satp, allowed, tlb, tlbGetCache, lastSwappedIndex>>,
           aborted' \in {aborted, "noncanonical", "double_match", "walk_bus"}
    PROVE  IInv'
  BY DEF IInv, TypeOK, CacheSound, LiveAllowed, CurrentAllowed, NoDuplicates

LEMMA StepIInv == IInv /\ [Next]_vars => IInv'
<1> SUFFICES ASSUME IInv, [Next]_vars PROVE IInv'
  OBVIOUS
<1>1. CASE TranslateNonCanonical
  BY <1>1, QuietStep DEF TranslateNonCanonical, Abort, mmuVars
<1>2. ASSUME NEW va \in GuestVAddr, TranslateHash(va) PROVE IInv'
  BY <1>2, HashStep
<1>3. ASSUME NEW va \in GuestVAddr, TranslateScan(va) PROVE IInv'
  BY <1>3, ScanStep
<1>4. ASSUME NEW va \in GuestVAddr, TranslateDoubleMatch(va) PROVE IInv'
  BY <1>4, QuietStep DEF TranslateDoubleMatch, Abort, mmuVars
<1>5. ASSUME NEW va \in GuestVAddr, TranslateFill(va) PROVE IInv'
  BY <1>5, FillStep
<1>6. ASSUME NEW va \in GuestVAddr, TranslateFault(va) PROVE IInv'
  BY <1>6, QuietStep DEF TranslateFault, Answer, mmuVars
<1>7. ASSUME NEW va \in GuestVAddr, TranslateBusError(va) PROVE IInv'
  BY <1>7, QuietStep DEF TranslateBusError, Abort, mmuVars
<1>8. ASSUME NEW f \in GuestFence, SV39_FlushTLB_sfence_vma(f) PROVE IInv'
  BY <1>8, FenceStep
<1>9. ASSUME NEW st \in GuestStore, StorePTE(st) PROVE IInv'
  BY <1>9, GuestStep
<1>10. ASSUME NEW s \in GuestSATP, csr_write_satp(s) PROVE IInv'
  BY <1>10, GuestStep
<1>11. CASE UNCHANGED vars
  BY <1>11, QuietStep DEF vars
<1>12. QED
  BY <1>1, <1>2, <1>3, <1>4, <1>5, <1>6, <1>7, <1>8, <1>9, <1>10, <1>11 DEF Next

LEMMA InvariantHolds == Spec => []IInv
  BY InitIInv, StepIInv, PTL DEF Spec

\* The fields of the MMU keep their types: the round-robin index stays inside
\* the array and every pointer in tlbGetCache points into it.
THEOREM TypeCorrect == Spec => []TypeOK
<1>1. IInv => TypeOK BY DEF IInv
<1>2. QED BY <1>1, InvariantHolds, PTL

\* The fast path of getTLBEntry never returns the entry of another address,
\* although it does not compare addresses.
THEOREM FastPathSound == Spec => []CacheSound
<1>1. IInv => CacheSound BY DEF IInv
<1>2. QED BY <1>1, InvariantHolds, PTL

\* No live TLB entry outlives a fence that covers it.
THEOREM NothingStale == Spec => []LiveAllowed
<1>1. IInv => LiveAllowed BY DEF IInv
<1>2. QED BY <1>1, InvariantHolds, PTL

\* writeTLB never stores a page of an address space the TLB already holds.
THEOREM OneCopy == Spec => []NoDuplicates
<1>1. IInv => NoDuplicates BY DEF IInv
<1>2. QED BY <1>1, InvariantHolds, PTL

----------------------------------------------------------------------------
LEMMA RefineInit == Init => ArchInit
  BY DEF Init

LEMMA RefineStep == IInv /\ [Next]_vars => [ArchNext]_archVars
<1> SUFFICES ASSUME IInv, [Next]_vars PROVE [ArchNext]_archVars
  OBVIOUS
<1>1. ASSUME NEW va \in GuestVAddr,
             Translating,
             \E i \in Slots : /\ tlb[i].pagesize # 0
                              /\ Covers(tlb[i], va)
                              /\ UsableBy(tlb[i], satp.asid)
                              /\ Answer(va, tlb[i])
      PROVE  ArchTranslate(va)
  BY <1>1 DEF ArchTranslate, Answer, Translating, IInv, LiveAllowed
<1>2. ASSUME NEW va \in GuestVAddr, TranslateHash(va) PROVE ArchTranslate(va)
  <2>1. va \in VAddr
    BY GuestAssumption
  <2>2. PICK ps \in 1 .. 3 : HashHit(ps, va)
                             /\ Answer(va, tlb[tlbGetCache[PageAddr(ps, va)]])
    BY <1>2 DEF TranslateHash
  <2> DEFINE k == PageAddr(ps, va)
             i == tlbGetCache[k]
  <2>3. k \in VAddr
    BY <2>1, PageAddrType
  <2>4. i # NoSlot /\ UsableBy(tlb[i], satp.asid) /\ tlb[i].pagesize = ps
    BY <2>2 DEF HashHit
  <2>5. i \in Slots /\ tlb[i].vpa = k
    BY <2>3, <2>4 DEF IInv, TypeOK, CacheSound
  <2>6. tlb[i].pagesize # 0 /\ Covers(tlb[i], va)
    BY <2>4, <2>5 DEF Covers
  <2>7. QED
    BY <1>1, <1>2, <2>2, <2>4, <2>5, <2>6 DEF TranslateHash
<1>3. ASSUME NEW va \in GuestVAddr, TranslateScan(va) PROVE ArchTranslate(va)
  <2>1. PICK i \in Slots : ScanMatches(va) = {i} /\ Answer(va, tlb[i])
    BY <1>3 DEF TranslateScan
  <2>2. UsableBy(tlb[i], satp.asid) /\ Covers(tlb[i], va)
    BY <2>1 DEF ScanMatches
  <2>3. QED
    BY <1>1, <1>3, <2>1, <2>2 DEF TranslateScan, Covers
<1>4. ASSUME NEW va \in GuestVAddr, TranslateFill(va) PROVE ArchTranslate(va)
  <2> DEFINE e == NewEntry(Walk(mem, satp.ppn, va), va, satp.asid)
  <2>1. va \in VAddr /\ satp.ppn \in PPN /\ satp.asid \in ASID /\ mem \in Memory
    BY GuestAssumption DEF IInv, TypeOK, SATP
  <2>2. e.pagesize # 0 /\ e.asid = satp.asid /\ e.vpa = PageAddr(e.pagesize, va)
    BY <2>1, NewEntryType
  <2>3. e \in allowed
    BY <1>4, <2>1 DEF TranslateFill, Miss, Translating, IInv, CurrentAllowed,
                      Translations
  <2>4. Answer(va, e) /\ satp.mode # 0
    BY <1>4 DEF TranslateFill, Miss, Translating
  <2> HIDE DEF e
  <2>5. QED
    BY <2>2, <2>3, <2>4 DEF ArchTranslate, Answer, Covers, UsableBy
<1>5. ASSUME NEW va \in GuestVAddr, TranslateFault(va) PROVE ArchTranslate(va)
  BY <1>5 DEF TranslateFault, Miss, Translating, Answer, ArchTranslate
<1>6. CASE \/ TranslateNonCanonical
           \/ \E va \in GuestVAddr : TranslateDoubleMatch(va) \/ TranslateBusError(va)
  BY <1>6 DEF TranslateNonCanonical, TranslateDoubleMatch, TranslateBusError,
              Abort, archVars
<1>7. ASSUME NEW f \in GuestFence, SV39_FlushTLB_sfence_vma(f) PROVE ArchFence(f)
  BY <1>7 DEF SV39_FlushTLB_sfence_vma
<1>8. ASSUME NEW st \in GuestStore, StorePTE(st) PROVE ArchStorePTE(st)
  BY <1>8 DEF StorePTE
<1>9. ASSUME NEW s \in GuestSATP, csr_write_satp(s) PROVE ArchWriteSatp(s)
  BY <1>9 DEF csr_write_satp
<1>10. CASE UNCHANGED vars
  BY <1>10 DEF vars, archVars
<1>11. QED
  BY <1>2, <1>3, <1>4, <1>5, <1>6, <1>7, <1>8, <1>9, <1>10 DEF Next, ArchNext

\* The MMU with its TLB and its map answers every translation as the
\* architecture without a TLB may: caching is invisible to the guest except
\* through the delay that sfence.vma bounds.
THEOREM TlbIsTransparent == Spec => Transparent
  BY RefineInit, RefineStep, InvariantHolds, PTL
     DEF Spec, Transparent, ArchSpec
============================================================================
