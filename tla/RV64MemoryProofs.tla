-------------------------- MODULE RV64MemoryProofs --------------------------
(***************************************************************************)
(* Theorems about RV64Memory, for any harts, page tables and settings.     *)
(***************************************************************************)
EXTENDS RV64Memory, TLAPS

USE MemoryAssumption, TableAssumption, NoneAssumption

\* An access that passes the checks names a location.
LEMMA LocationType ==
    ASSUME NEW m \in ModeSet, NEW va \in VA,
           ReadPasses(m, va) \/ WritePasses(m, va)
    PROVE  Location(m, va) \in PA
<1>1. CASE Untranslated(m)
  BY <1>1 DEF Location
<1>2. CASE ~Untranslated(m)
  <2>1. m.space \in Space
    BY <1>2 DEF Untranslated, ModeSet
  <2>2. Table[m.space][va] # NoPage
    BY <1>2 DEF ReadPasses, WritePasses, ReadFaults, WriteFaults
  <2>3. Table[m.space][va].pa \in PA
    BY <2>1, <2>2
  <2> QED BY <1>2, <2>3 DEF Location
<1> QED BY <1>1, <1>2

\* A hart's setting is one of ModeSet.
LEMMA ModeType ==
    ASSUME TypeOK, NEW h \in Hart
    PROVE  mode[h] \in ModeSet
BY DEF TypeOK

\* The history after a store has the type of the history.
LEMMA StoredType ==
    ASSUME TypeOK, NEW h \in Hart, NEW pa \in PA
    PROVE  Stored(h, pa) \in [Hart -> Reservation \cup {None}]
<1> SUFFICES ASSUME NEW g \in Hart
             PROVE  Stored(h, pa)[g] \in Reservation \cup {None}
  BY DEF Stored
<1>1. reserved[g] \in Reservation \cup {None}
  BY DEF TypeOK
<1> QED BY <1>1 DEF Stored, Reservation

\* RV64Memory's variables keep their types: TypeOK.
THEOREM TypeCorrect == Spec => []TypeOK
<1>1. Init => TypeOK
  BY DEF Init, TypeOK, Reservation, Size
<1>2. TypeOK /\ [Next]_vars => TypeOK'
  <2> SUFFICES ASSUME TypeOK, [Next]_vars PROVE TypeOK'
    OBVIOUS
  <2>1. ASSUME NEW h \in Hart, NEW m \in Mode, SwitchMode(h, m) PROVE TypeOK'
    <3>1. reserved[h] \in Reservation \cup {None}
      BY DEF TypeOK
    <3>2. reserved[h] # None => [reserved[h] EXCEPT !.same = FALSE] \in Reservation
      BY <3>1 DEF Reservation
    <3>3. reserved' \in [Hart -> Reservation \cup {None}]
      BY <2>1, <3>2 DEF TypeOK, SwitchMode
    <3> QED BY <2>1, <3>3 DEF TypeOK, SwitchMode
  <2>2. ASSUME NEW h \in Hart, NEW va \in VA, NEW v \in Val, Write(h, va, v)
        PROVE  TypeOK'
    <3>1. Location(mode[h], va) \in PA
      BY <2>2, LocationType, ModeType DEF Write, MayWrite
    <3>2. reserved' \in [Hart -> Reservation \cup {None}]
      BY <2>2, <3>1, StoredType DEF Write
    <3>3. word' \in [PA -> Val]
      BY <2>2, <3>1 DEF Write, TypeOK
    <3> QED BY <2>2, <3>2, <3>3 DEF Write, TypeOK
  <2>3. ASSUME NEW h \in Hart, NEW va \in VA, NEW size \in Size, LoadReserved(h, va, size)
        PROVE  TypeOK'
    <3>1. Location(mode[h], va) \in PA
      BY <2>3, LocationType, ModeType DEF LoadReserved
    <3>2. reserved' \in [Hart -> Reservation \cup {None}]
      BY <2>3, <3>1 DEF LoadReserved, TypeOK, Reservation
    <3> QED BY <2>3, <3>2 DEF LoadReserved, TypeOK
  <2>4. ASSUME NEW h \in Hart, NEW va \in VA, NEW size \in Size, NEW v \in Val,
               StoreConditional(h, va, size, v)
        PROVE  TypeOK'
    <3> DEFINE pa == Location(mode[h], va)
    <3>1. pa \in PA
      BY <2>4, LocationType, ModeType DEF StoreConditional
    <3>2. Stored(h, pa) \in [Hart -> Reservation \cup {None}]
      BY <3>1, StoredType
    <3>3. reserved' \in [Hart -> Reservation \cup {None}]
      BY <2>4, <3>2 DEF StoreConditional, TypeOK
    <3>4. word' \in [PA -> Val]
      BY <2>4, <3>1 DEF StoreConditional, TypeOK
    <3>5. last' \in [va : VA, size : Size, pa : PA, success : BOOLEAN,
                     reserved : Reservation \cup {None}]
      <4>1. reserved[h] \in Reservation \cup {None}
        BY DEF TypeOK
      <4>2. Matches(h, va, size) \in BOOLEAN
        BY DEF Matches, TypeOK
      <4> QED BY <2>4, <3>1, <4>1, <4>2 DEF StoreConditional
    <3>6. lr' \in [Hart -> [pa : VA, size : Size, valid : BOOLEAN]]
      BY <2>4 DEF StoreConditional, TypeOK
    <3> QED BY <2>4, <3>3, <3>4, <3>5, <3>6 DEF StoreConditional, TypeOK
  <2>5. CASE UNCHANGED vars
    BY <2>5 DEF vars, TypeOK
  <2> QED BY <2>1, <2>2, <2>3, <2>4, <2>5 DEF Next
<1> QED BY <1>1, <1>2, PTL DEF Spec

----------------------------------------------------------------------------
\* The MMU's reservation is the one the history remembers, and, while the
\* hart's setting has not changed, its address names the location LR read.
Held(h) ==
    /\ lr[h].valid <=> reserved[h] # None
    /\ reserved[h] # None =>
          /\ lr[h].pa = reserved[h].va
          /\ lr[h].size = reserved[h].size
          /\ reserved[h].same => reserved[h].pa = Location(mode[h], reserved[h].va)

IInv == (\A h \in Hart : Held(h)) /\ ScIffReserved /\ ScSameLocation

\* Another hart's store changes nothing Held looks at.
LEMMA StoredKeepsHeld ==
    ASSUME TypeOK, NEW h \in Hart, NEW pa \in PA, NEW g \in Hart
    PROVE  /\ Stored(h, pa)[g] = None <=> reserved[g] = None
           /\ reserved[g] # None =>
                 /\ Stored(h, pa)[g].va = reserved[g].va
                 /\ Stored(h, pa)[g].size = reserved[g].size
                 /\ Stored(h, pa)[g].pa = reserved[g].pa
                 /\ Stored(h, pa)[g].same = reserved[g].same
<1>1. reserved[g] \in Reservation \cup {None}
  BY DEF TypeOK
<1>2. reserved[g] # None => [reserved[g] EXCEPT !.fresh = FALSE] \in Reservation
  BY <1>1 DEF Reservation
<1> QED BY <1>1, <1>2 DEF Stored, Reservation

\* Every step keeps the reservation and the history together.
LEMMA ReservationsHeld ==
    ASSUME TypeOK, IInv, [Next]_vars
    PROVE  IInv'
<1> USE DEF IInv
<1>1. ASSUME NEW h \in Hart, NEW m \in Mode, SwitchMode(h, m) PROVE IInv'
  <2>1. ASSUME NEW g \in Hart PROVE Held(g)'
    <3>1. reserved[g] \in Reservation \cup {None}
      BY DEF TypeOK
    <3>2. CASE g = h
      BY <1>1, <3>1, <3>2 DEF SwitchMode, Held, TypeOK, Reservation
    <3>3. CASE g # h
      <4>1. mode'[g] = mode[g] /\ reserved'[g] = reserved[g] /\ lr'[g] = lr[g]
        BY <1>1, <3>3 DEF SwitchMode, TypeOK
      <4> QED BY <4>1 DEF Held, Location, Untranslated
    <3> QED BY <3>2, <3>3
  <2> QED BY <1>1, <2>1 DEF SwitchMode, ScIffReserved, ScSameLocation
<1>2. ASSUME NEW h \in Hart, NEW va \in VA, NEW v \in Val, Write(h, va, v)
      PROVE  IInv'
  <2>1. Location(mode[h], va) \in PA
    BY <1>2, LocationType, ModeType DEF Write, MayWrite
  <2>2. ASSUME NEW g \in Hart PROVE Held(g)'
    <3>1. mode' = mode /\ lr' = lr /\ reserved' = Stored(h, Location(mode[h], va))
      BY <1>2 DEF Write
    <3>2. Held(g)
      OBVIOUS
    <3>3. /\ reserved'[g] = None <=> reserved[g] = None
          /\ reserved[g] # None =>
                /\ reserved'[g].va = reserved[g].va
                /\ reserved'[g].size = reserved[g].size
                /\ reserved'[g].pa = reserved[g].pa
                /\ reserved'[g].same = reserved[g].same
      <4> DEFINE pa == Location(mode[h], va)
      <4>1. pa \in PA /\ reserved' = Stored(h, pa)
        BY <2>1, <3>1
      <4> HIDE DEF pa
      <4> QED BY <4>1, StoredKeepsHeld
    <3> QED BY <3>1, <3>2, <3>3 DEF Held, Location, Untranslated
  <2>3. last' = None
    BY <1>2 DEF Write
  <2> QED BY <2>2, <2>3 DEF ScIffReserved, ScSameLocation
<1>3. ASSUME NEW h \in Hart, NEW va \in VA, NEW size \in Size, LoadReserved(h, va, size)
      PROVE  IInv'
  <2>1. Location(mode[h], va) \in PA
    BY <1>3, LocationType, ModeType DEF LoadReserved
  <2>2. ASSUME NEW g \in Hart PROVE Held(g)'
    <3>1. mode' = mode
      BY <1>3 DEF LoadReserved
    <3>2. CASE g = h
      <4>1. reserved'[h] = [va |-> va, size |-> size, pa |-> Location(mode[h], va),
                            same |-> TRUE, fresh |-> TRUE]
        BY <1>3 DEF LoadReserved, TypeOK
      <4>2. reserved'[h] # None
        <5>1. reserved'[h] \in Reservation
          BY <2>1, <4>1 DEF Reservation
        <5> QED BY <5>1
      <4>3. lr'[h] = [pa |-> va, size |-> size, valid |-> TRUE]
        BY <1>3 DEF LoadReserved, TypeOK
      <4> QED BY <3>1, <3>2, <4>1, <4>2, <4>3 DEF Held, Location, Untranslated
    <3>3. CASE g # h
      <4>1. reserved'[g] = reserved[g] /\ lr'[g] = lr[g]
        BY <1>3, <3>3 DEF LoadReserved, TypeOK
      <4> QED BY <3>1, <4>1 DEF Held, Location, Untranslated
    <3> QED BY <3>2, <3>3
  <2> QED BY <1>3, <2>2 DEF LoadReserved, ScIffReserved, ScSameLocation
<1>4. ASSUME NEW h \in Hart, NEW va \in VA, NEW size \in Size, NEW v \in Val,
             StoreConditional(h, va, size, v)
      PROVE  IInv'
  <2> DEFINE pa == Location(mode[h], va)
  <2>1. pa \in PA
    BY <1>4, LocationType, ModeType DEF StoreConditional
  <2>2. ASSUME NEW g \in Hart PROVE Held(g)'
    <3>1. mode' = mode
      BY <1>4 DEF StoreConditional
    <3>2. CASE g = h
      <4>1. reserved'[h] = None
        BY <1>4 DEF StoreConditional, Stored, TypeOK
      <4>2. ~lr'[h].valid
        BY <1>4 DEF StoreConditional, TypeOK
      <4> QED BY <3>2, <4>1, <4>2 DEF Held
    <3>3. CASE g # h
      <4>1. lr'[g] = lr[g]
        BY <1>4, <3>3 DEF StoreConditional, TypeOK
      <4>2. reserved'[g] = reserved[g] \/ reserved'[g] = Stored(h, pa)[g]
        BY <1>4, <3>3 DEF StoreConditional, Stored, TypeOK
      <4> HIDE DEF pa
      <4> QED BY <2>1, <3>1, <4>1, <4>2, StoredKeepsHeld DEF Held, Location, Untranslated
    <3> QED BY <3>2, <3>3
  <2>3. Held(h)
    OBVIOUS
  <2>4. last' = [va |-> va, size |-> size, pa |-> pa, success |-> Matches(h, va, size),
                 reserved |-> reserved[h]]
    BY <1>4 DEF StoreConditional
  <2>5. ScIffReserved'
    BY <2>3, <2>4 DEF ScIffReserved, Matches, Held
  <2>6. ScSameLocation'
    BY <2>3, <2>4 DEF ScSameLocation, Matches, Held
  <2> QED BY <2>2, <2>5, <2>6
<1>5. CASE UNCHANGED vars
  BY <1>5 DEF vars, Held, Location, Untranslated, ScIffReserved, ScSameLocation
<1> QED BY <1>1, <1>2, <1>3, <1>4, <1>5 DEF Next

LEMMA Invariant == Spec => []IInv
<1>1. Init => IInv
  BY DEF Init, IInv, Held, ScIffReserved, ScSameLocation
<1> QED BY <1>1, ReservationsHeld, TypeCorrect, PTL DEF Spec

\* vaddrStoreConditional succeeds exactly for the hart's last unused LR of
\* that address and size: ScIffReserved.
THEOREM OneSuccessPerReservation == Spec => []ScIffReserved
BY Invariant, PTL DEF IInv

\* A successful SC writes the location LR read, while the hart's setting has
\* not changed: ScSameLocation.
THEOREM ConditionalStoreLocation == Spec => []ScSameLocation
BY Invariant, PTL DEF IInv

\* The read and the write checks agree: what may be stored to may be loaded
\* from, for every leaf isValidLeafPTE admits: StoreImpliesLoad.
THEOREM ChecksAgree == Spec => []StoreImpliesLoad
<1>1. TypeOK => StoreImpliesLoad
  <2> SUFFICES ASSUME TypeOK, NEW h \in Hart, NEW va \in VA, MayWrite(mode[h], va)
               PROVE  ReadPasses(mode[h], va)
    BY DEF StoreImpliesLoad, MayRead, MayWrite
  <2> DEFINE m == mode[h]
             p == Table[m.space][va]
  <2>1. m \in ModeSet
    BY ModeType
  <2>2. CASE Untranslated(m)
    BY <2>2 DEF ReadPasses
  <2>3. CASE ~Untranslated(m)
    <3>1. m.space \in Space
      BY <2>1, <2>3 DEF Untranslated, ModeSet
    <3>2. ~WriteFaults(m, p)
      BY <2>3 DEF MayWrite, WritePasses
    <3>3. p # NoPage /\ {"A", "D", "W"} \subseteq p.bits
      BY <3>2 DEF WriteFaults
    <3>4. "R" \in p.bits
      BY <3>1, <3>3, LeafAssumption
    <3>5. ~(m.sum = FALSE /\ m.priv = S_MODE /\ "U" \in p.bits)
      BY <3>2 DEF WriteFaults, AccessPriv, S_MODE, M_MODE
    <3>6. ~ReadFaults(m, p)
      BY <2>1, <3>2, <3>3, <3>4, <3>5 DEF ReadFaults, WriteFaults, ModeSet
    <3> QED BY <3>6, <2>3 DEF ReadPasses
  <2> QED BY <2>2, <2>3
<1> QED BY <1>1, TypeCorrect, PTL

\* The fetch and the read checks agree: what a hart executes it may also load,
\* where the page is readable and mprv is off: FetchImpliesLoad.
THEOREM FetchAndLoadAgree == Spec => []FetchImpliesLoad
<1>1. TypeOK => FetchImpliesLoad
  <2> SUFFICES ASSUME TypeOK, NEW h \in Hart, NEW va \in VA,
                      MayFetch(mode[h], va), ~mode[h].mprv,
                      Untranslated(mode[h]) \/ "R" \in Table[mode[h].space][va].bits
               PROVE  MayRead(mode[h], va)
    BY DEF FetchImpliesLoad
  <2> DEFINE m == mode[h]
             p == Table[m.space][va]
  <2>1. m \in ModeSet
    BY ModeType
  <2>2. CASE Untranslated(m)
    BY <2>2, <2>1 DEF MayRead, ReadPasses, Location, MayFetch, Untranslated, ModeSet
  <2>3. CASE ~Untranslated(m)
    <3>1. m.priv # M_MODE /\ m.space # "off"
      BY <2>3, <2>1 DEF Untranslated, ModeSet
    <3>2. ~FetchFaults(m, p) /\ p.pa \in RAM
      BY <3>1 DEF MayFetch
    <3>3. AccessPriv(m) = m.priv
      BY DEF AccessPriv
    <3>4. ~ReadFaults(m, p)
      BY <2>3, <3>2, <3>3 DEF ReadFaults, FetchFaults
    <3> QED BY <2>3, <3>2, <3>4 DEF MayRead, ReadPasses, Location
  <2> QED BY <2>2, <2>3
<1> QED BY <1>1, TypeCorrect, PTL
============================================================================
