----------------------------- MODULE RV64Memory -----------------------------
(***************************************************************************)
(* Loads, stores, fetches, LR, SC and AMO of the harts through their MMUs: *)
(* the access checks of inline_impl/rv64_sv39.hpp and the reservation of   *)
(* inline_impl/rv64_amo.hpp.                                               *)
(*                                                                         *)
(* The platform runs one instruction of one hart at a time, so an access   *)
(* is one action, and the harts meet in memory and nowhere else: each MMU  *)
(* has its own reservation.                                                *)
(*                                                                         *)
(* Data abstraction: what getTLBEntry returns for an address is a fixed    *)
(* page per address space (Sv39Tlb models how it is found); an access is   *)
(* naturally aligned and inside a page; a location holds a value and has   *)
(* no bytes; an AMO writes any value.                                      *)
(***************************************************************************)
EXTENDS PrivModes

CONSTANTS
    Hart,
    VA,         \* addresses the guest uses
    PA,         \* physical locations
    RAM,        \* those behind the bus
    Space,      \* address spaces
    Table,      \* [Space -> [VA -> page or NoPage]]
    Bare,       \* [VA -> PA]: the location an untranslated address names
    Mode,       \* settings of privilege, mstatus and satp the harts use
    Val,
    NoPage,     \* getTLBEntry returned nullptr
    None        \* no reservation held

Bits == {"R", "W", "X", "U", "A", "D"}
Size == {4, 8}

\* `space' is the address space of satp, or "off" for satp.mode = 0.
ModeSet == [priv : PrivMode, mprv : BOOLEAN, mpp : PrivMode, sum : BOOLEAN,
            mxr : BOOLEAN, space : Space \cup {"off"}]

ASSUME MemoryAssumption ==
    /\ RAM \subseteq PA
    /\ Bare \in [VA -> PA]
    /\ Mode \subseteq ModeSet
    /\ "off" \notin Space
ASSUME TableAssumption ==
    \A s \in Space, va \in VA :
        Table[s][va] = NoPage \/ Table[s][va] \in [pa : PA, bits : SUBSET Bits]
\* isValidLeafPTE admits no other leaf.
ASSUME LeafAssumption ==
    \A s \in Space, va \in VA :
        LET p == Table[s][va]
        IN p # NoPage => /\ "W" \in p.bits => "R" \in p.bits
                         /\ {"R", "X"} \cap p.bits # {}

VARIABLES
    mode,      \* privilege, mstatus and satp of each hart
    word,      \* memory
    lr,        \* lr_pa, lr_size and lr_valid of each hart's MMU; lr_hart,
               \* which only ever names the hart itself, is left out
    reserved,  \* history: what the LR since the hart's last SC reserved, or None
    last       \* history: the store-conditional just made, or None

vars == <<mode, word, lr, reserved, last>>

Reservation == [va : VA, size : Size, pa : PA, same : BOOLEAN, fresh : BOOLEAN]
ASSUME NoneAssumption == None \notin Reservation

TypeOK ==
    /\ mode \in [Hart -> Mode]
    /\ word \in [PA -> Val]
    /\ lr \in [Hart -> [pa : VA, size : Size, valid : BOOLEAN]]
    /\ reserved \in [Hart -> Reservation \cup {None}]
    /\ last \in [va : VA, size : Size, pa : PA, success : BOOLEAN,
                 reserved : Reservation \cup {None}] \cup {None}

Init ==
    /\ mode \in [Hart -> Mode]
    /\ word \in [PA -> Val]
    /\ lr \in [Hart -> [pa : VA, size : Size, valid : {FALSE}]]
    /\ reserved = [h \in Hart |-> None]
    /\ last = None

----------------------------------------------------------------------------
\* The checks, on a hart's setting m and an address.
Untranslated(m) ==
    \/ m.priv = M_MODE /\ (~m.mprv \/ m.mpp = M_MODE)
    \/ m.space = "off"

\* The privilege an access is checked with, by the rules of mprv.
AccessPriv(m) == IF m.mprv /\ m.priv = M_MODE THEN m.mpp ELSE m.priv

Location(m, va) ==
    IF Untranslated(m) THEN Bare[va] ELSE Table[m.space][va].pa

\* Mutant: mxr demands executability of readable pages.
ReadFaultsMxr(m, p) ==
    \/ p = NoPage
    \/ "A" \notin p.bits
    \/ "R" \notin p.bits \/ (m.mxr /\ "X" \notin p.bits)
    \/ AccessPriv(m) = U_MODE /\ "U" \notin p.bits
    \/ ~m.sum /\ m.priv = S_MODE /\ "U" \in p.bits

\* VAddr_ReadBuffer_MMU_API and vaddrLoadReserved.  The sum check looks at
\* currentPrivMode, and mxr makes readable what is not executable.
ReadFaults(m, p) ==
    \/ p = NoPage
    \/ "A" \notin p.bits
    \/ "R" \notin p.bits /\ ~(m.mxr /\ "X" \notin p.bits)
    \/ AccessPriv(m) = U_MODE /\ "U" \notin p.bits
    \/ ~m.sum /\ m.priv = S_MODE /\ "U" \in p.bits

\* VAddr_WriteBuffer_MMU_API, vaddrStoreConditional and vaddrAtomicMemOperation.
WriteFaults(m, p) ==
    \/ p = NoPage
    \/ ~({"A", "D", "W"} \subseteq p.bits)
    \/ AccessPriv(m) = U_MODE /\ "U" \notin p.bits
    \/ ~m.sum /\ AccessPriv(m) = S_MODE /\ "U" \in p.bits

\* Mutant: S_MODE fetches from user pages.
FetchFaultsUser(m, p) ==
    \/ p = NoPage
    \/ ~({"A", "X"} \subseteq p.bits)
    \/ m.priv = U_MODE /\ "U" \notin p.bits

\* VAddr_InstFetch_MMU_API.  mprv has no say.
FetchFaults(m, p) ==
    \/ p = NoPage
    \/ ~({"A", "X"} \subseteq p.bits)
    \/ m.priv = U_MODE /\ "U" \notin p.bits
    \/ m.priv = S_MODE /\ "U" \in p.bits

\* The access gets past the checks, and then finds memory behind the bus.
ReadPasses(m, va) == IF Untranslated(m) THEN TRUE ELSE ~ReadFaults(m, Table[m.space][va])
WritePasses(m, va) == IF Untranslated(m) THEN TRUE ELSE ~WriteFaults(m, Table[m.space][va])
MayRead(m, va) == ReadPasses(m, va) /\ Location(m, va) \in RAM
MayWrite(m, va) == WritePasses(m, va) /\ Location(m, va) \in RAM
MayFetch(m, va) ==
    IF m.priv = M_MODE \/ m.space = "off" THEN Bare[va] \in RAM
    ELSE ~FetchFaults(m, Table[m.space][va]) /\ Table[m.space][va].pa \in RAM

----------------------------------------------------------------------------
\* A trap, a return or a CSR instruction changes how a hart accesses memory.
SwitchMode(h, m) ==
    /\ m \in Mode \ {mode[h]}
    /\ mode' = [mode EXCEPT ![h] = m]
    /\ last' = None
    /\ reserved' = [reserved EXCEPT ![h] =
                      IF @ = None THEN None ELSE [@ EXCEPT !.same = FALSE]]
    /\ UNCHANGED <<word, lr>>

\* The history after hart h stores to pa: the other harts' reservations of pa
\* are no longer fresh.
Stored(h, pa) ==
    [g \in Hart |-> IF g = h \/ reserved[g] = None \/ reserved[g].pa # pa
                    THEN reserved[g] ELSE [reserved[g] EXCEPT !.fresh = FALSE]]

\* memWrite, or pa_amo_op behind the same checks: one write of location pa.
Write(h, va, v) ==
    /\ MayWrite(mode[h], va)
    /\ word' = [word EXCEPT ![Location(mode[h], va)] = v]
    /\ reserved' = Stored(h, Location(mode[h], va))
    /\ last' = None
    /\ UNCHANGED <<mode, lr>>

\* vaddrLoadReserved: the reservation is set before the bus is asked, and
\* holds the address as the guest gave it.
LoadReserved(h, va, size) ==
    /\ ReadPasses(mode[h], va)
    /\ lr' = [lr EXCEPT ![h] = [pa |-> va, size |-> size, valid |-> TRUE]]
    /\ reserved' = [reserved EXCEPT ![h] =
          [va |-> va, size |-> size, pa |-> Location(mode[h], va),
           same |-> TRUE, fresh |-> TRUE]]
    /\ last' = None
    /\ UNCHANGED <<mode, word>>

\* Mutants: the size, or the address, is not compared.
MatchesAnySize(h, va, size) == lr[h].valid /\ lr[h].pa = va
MatchesAnyAddress(h, va, size) == lr[h].valid /\ lr[h].size = size

\* The comparison of vaddrStoreConditional.
Matches(h, va, size) == lr[h].valid /\ lr[h].pa = va /\ lr[h].size = size

\* vaddrStoreConditional: either outcome ends the reservation; a store that
\* the bus refuses ends it as well and traps.
StoreConditional(h, va, size, v) ==
    LET pa == Location(mode[h], va)
        ok == Matches(h, va, size)
    IN  /\ WritePasses(mode[h], va)
        /\ lr' = [lr EXCEPT ![h].valid = FALSE]
        /\ word' = IF ok /\ pa \in RAM THEN [word EXCEPT ![pa] = v] ELSE word
        /\ reserved' = [(IF ok /\ pa \in RAM THEN Stored(h, pa) ELSE reserved)
                            EXCEPT ![h] = None]
        /\ last' = [va |-> va, size |-> size, pa |-> pa, success |-> ok,
                    reserved |-> reserved[h]]
        /\ UNCHANGED mode

Next ==
    \E h \in Hart :
        \/ \E m \in Mode : SwitchMode(h, m)
        \/ \E va \in VA, v \in Val : Write(h, va, v)
        \/ \E va \in VA, size \in Size : LoadReserved(h, va, size)
        \/ \E va \in VA, size \in Size, v \in Val : StoreConditional(h, va, size, v)

Spec == Init /\ [][Next]_vars

----------------------------------------------------------------------------
\* A store-conditional succeeds exactly when the hart's last LR, not yet used
\* by an SC, was of this address and size: one success per LR, and nothing
\* another hart does takes it away.
ScIffReserved ==
    last # None =>
        (last.success <=> /\ last.reserved # None
                          /\ last.reserved.va = last.va
                          /\ last.reserved.size = last.size)

\* It writes the location the LR read, if the hart's setting has not changed
\* in between (the reservation is kept by virtual address).
ScSameLocation ==
    last # None /\ last.success /\ last.reserved.same => last.pa = last.reserved.pa

\* rv64_amo.hpp:107 and :138 of the failing branch: "Reserved memory modified,
\* do not preform store".
ScFailsIfModified ==
    last # None /\ last.success => last.reserved.fresh

\* What a hart may store to it may also load, from the same location.
StoreImpliesLoad ==
    \A h \in Hart, va \in VA : MayWrite(mode[h], va) => MayRead(mode[h], va)

\* What a hart executes it may also load, where the page is readable and mprv
\* does not send loads elsewhere: the checks of fetches and loads are two copies
\* of one rule.
FetchImpliesLoad ==
    \A h \in Hart, va \in VA :
        LET m == mode[h]
        IN  /\ MayFetch(m, va)
            /\ ~m.mprv
            /\ Untranslated(m) \/ "R" \in Table[m.space][va].bits
            => MayRead(m, va)
============================================================================
