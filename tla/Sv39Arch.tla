------------------------------ MODULE Sv39Arch ------------------------------
(***************************************************************************)
(* What address translation promises to the guest, with no TLB in it.      *)
(*                                                                         *)
(* `allowed' is the set of translations an access may still see: those the *)
(* page tables have given, for the satp in force, at some moment since the *)
(* last sfence.vma that covers them.  A translation answered from outside  *)
(* this set is a stale one that a fence should have removed, or one that   *)
(* no page table ever contained.                                           *)
(***************************************************************************)
EXTENDS Sv39Types

CONSTANTS
    GuestMemory,\* what RAM holds at reset
    GuestStore, \* the page-table stores the guest makes
    GuestVAddr, \* the addresses the guest uses
    GuestSATP,  \* the satp values the guest writes
    GuestFence, \* the sfence.vma operands the guest uses
    AllAddrs,   \* an sfence.vma vaddr operand of zero
    NoEntry,    \* a translation that faulted (nullptr)
    NoAnswer    \* no translation since the last guest action

ASSUME GuestAssumption ==
    /\ GuestMemory \subseteq Memory
    /\ GuestStore \subseteq [t : RAM, i : VPN, pte : PTE]
    /\ GuestVAddr \subseteq VAddr
    /\ GuestFence \subseteq [va : VAddr \cup {AllAddrs}, asid : ASID]
    /\ GuestSATP \subseteq SATP
ASSUME SentinelAssumption == AllAddrs \notin VAddr /\ NoEntry \notin TLBEntry

VARIABLES
    mem,      \* page tables in RAM
    satp,     \* the satp register
    allowed,  \* translations an access may see
    answer    \* what the last step answered: [va, entry], or NoAnswer

archVars == <<mem, satp, allowed, answer>>

\* Every translation the page tables m give under register value s.
Translations(s, m) ==
    IF s.mode = 0 THEN {}
    ELSE {NewEntry(Walk(m, s.ppn, va), va, s.asid) :
             va \in {v \in VAddr : WalkLeaf(m, s.ppn, v)}}

\* sfence.vma with a vaddr operand (AllAddrs for the value 0) and an asid
\* operand (0 for every address space; else global mappings are spared).

MustFlush(e, f) ==
    /\ f.va = AllAddrs \/ Covers(e, f.va)
    /\ f.asid = 0 \/ (e.asid = f.asid /\ "G" \notin e.bits)

ArchInit ==
    /\ mem \in GuestMemory
    /\ satp = [mode |-> 0, asid |-> 0, ppn |-> 0]
    /\ allowed = {}
    /\ answer = NoAnswer

ArchTranslate(va) ==
    /\ satp.mode # 0
    /\ \/ \E e \in allowed :
             /\ Covers(e, va) /\ UsableBy(e, satp.asid)
             /\ answer' = [va |-> va, entry |-> e]
       \/ /\ WalkFault(mem, satp.ppn, va)
          /\ answer' = [va |-> va, entry |-> NoEntry]
    /\ UNCHANGED <<mem, satp, allowed>>

ArchStorePTE(st) ==
    /\ mem' = [mem EXCEPT ![st.t][st.i] = st.pte]
    /\ allowed' = allowed \cup Translations(satp, mem')
    /\ answer' = NoAnswer
    /\ UNCHANGED satp

ArchWriteSatp(s) ==
    /\ satp' = s
    /\ allowed' = allowed \cup Translations(s, mem)
    /\ answer' = NoAnswer
    /\ UNCHANGED mem

ArchFence(f) ==
    /\ allowed' = {e \in allowed : ~MustFlush(e, f)}
                     \cup Translations(satp, mem)
    /\ answer' = NoAnswer
    /\ UNCHANGED <<mem, satp>>

ArchNext ==
    \/ \E va \in GuestVAddr : ArchTranslate(va)
    \/ \E st \in GuestStore : ArchStorePTE(st)
    \/ \E s \in GuestSATP : ArchWriteSatp(s)
    \/ \E f \in GuestFence : ArchFence(f)

ArchSpec == ArchInit /\ [][ArchNext]_archVars
============================================================================
