--------------------------- MODULE MMIOBusProofs ---------------------------
(***************************************************************************)
(* The lookup cache of the bus is right, and the decoding of an address    *)
(* never changes, for any devices, regions and order of registration and   *)
(* access.                                                                 *)
(***************************************************************************)
EXTENDS MMIOBus, TLAPS

BusInv == BusTypeOK /\ CacheAgrees

LEMMA NatBases ==
    ASSUME BusTypeOK
    PROVE  /\ Addr \subseteq Nat
           /\ \A e \in Dev : devBaseAddr[e] \in Nat /\ RegionSize[e] \in Nat
<1>1. Addr \subseteq Nat /\ RegionSize \in [Dev -> Nat]
  BY BusAssumption DEF BusAssumption
<1> QED BY <1>1 DEF BusTypeOK

\* The step the whole argument rests on: a registration that passes the check
\* takes no address from the device that is first for it.
LEMMA FirstStaysFirst ==
    ASSUME BusTypeOK,
           NEW n \in Dev, NEW base \in Addr, RegisterMMIODev(n, base),
           NEW d, NEW a \in Addr, IsFirst(d, a)
    PROVE  IsFirst(d, a)'
<1> USE BusAssumption DEF BusAssumption
<1>1. d \in mmioDevs /\ d \in Dev /\ n \notin mmioDevs /\ n # d
  BY DEF IsFirst, BusTypeOK, RegisterMMIODev, Conflicts
<1>2. \A e \in mmioDevs : devBaseAddr'[e] = devBaseAddr[e]
  BY <1>1 DEF RegisterMMIODev, BusTypeOK
<1>3. devBaseAddr'[n] = base /\ mmioDevs' = mmioDevs \cup {n}
  BY DEF RegisterMMIODev, BusTypeOK
<1>4. ~isAddrRegionConflict(n, base, d)
  BY <1>1 DEF RegisterMMIODev, Conflicts
<1>5. /\ base \in Nat /\ a \in Nat
      /\ \A e \in Dev : devBaseAddr[e] \in Nat /\ RegionSize[e] \in Nat
  BY NatBases
<1>6. isAddrInRange(d, a)'
  BY <1>1, <1>2 DEF IsFirst, isAddrInRange, End
<1>7. ASSUME NEW e \in mmioDevs', isAddrInRange(e, a)'
      PROVE  devBaseAddr'[d] <= devBaseAddr'[e]
  <2>1. CASE e = n
    <3>1. base <= a /\ a <= base + RegionSize[n]
      BY <1>3, <1>7, <2>1 DEF isAddrInRange, End
    <3>2. devBaseAddr[d] <= a
      BY DEF IsFirst, isAddrInRange
    <3>3. ~(base <= devBaseAddr[d] /\ devBaseAddr[d] <= base + RegionSize[n])
      BY <1>4 DEF isAddrRegionConflict
    <3> QED BY <1>1, <1>2, <1>3, <1>5, <2>1, <3>1, <3>2, <3>3
  <2>2. CASE e # n
    <3>1. e \in mmioDevs
      BY <1>3, <2>2
    <3>2. isAddrInRange(e, a)
      BY <1>2, <1>7, <3>1 DEF isAddrInRange, End
    <3> QED BY <1>1, <1>2, <3>1, <3>2 DEF IsFirst
  <2> QED BY <2>1, <2>2
<1> QED BY <1>1, <1>3, <1>6, <1>7 DEF IsFirst

LEMMA BusInvInit == Init => BusInv
<1> SUFFICES ASSUME Init PROVE BusInv
  OBVIOUS
<1>1. devBaseAddr \in [Dev -> Nat]
  BY DEF Init
<1>2. DOMAIN devFindCache = {}
  BY DEF Init
<1> QED BY <1>1, <1>2 DEF Init, BusInv, BusTypeOK, CacheAgrees

LEMMA BusInvNext == BusInv /\ [Next]_vars => BusInv'
<1> USE BusAssumption DEF BusAssumption
<1> SUFFICES ASSUME BusInv, [Next]_vars PROVE BusInv'
  OBVIOUS
<1> USE DEF BusInv
<1>1. ASSUME NEW d \in Dev, NEW base \in Addr, RegisterMMIODev(d, base)
      PROVE  BusInv'
  <2>1. BusTypeOK'
    BY <1>1 DEF RegisterMMIODev, BusTypeOK, Access, NoAccess
  <2>2. CacheAgrees'
    <3>1. \A a \in DOMAIN devFindCache : a \in Addr /\ IsFirst(devFindCache[a], a)
      BY <1>1 DEF RegisterMMIODev, CacheAgrees, BusTypeOK
    <3>2. \A a \in DOMAIN devFindCache : IsFirst(devFindCache[a], a)'
      <4>1. ASSUME NEW a \in DOMAIN devFindCache
            PROVE  IsFirst(devFindCache[a], a)'
        <5> DEFINE f == devFindCache[a]
        <5>1. f' = f
          BY <1>1 DEF RegisterMMIODev
        <5>2. \A g : IsFirst(g, a) => IsFirst(g, a)'
          BY <1>1, <3>1, <4>1, FirstStaysFirst
        <5> QED BY <3>1, <5>1, <5>2
      <4> QED BY <4>1
    <3> QED BY <1>1, <3>2 DEF RegisterMMIODev, CacheAgrees
  <2> QED BY <2>1, <2>2
<1>2. ASSUME NEW d \in Dev, NEW base \in Addr, RegisterConflict(d, base)
      PROVE  BusInv'
  BY <1>2 DEF RegisterConflict, BusTypeOK, CacheAgrees, Access, NoAccess
<1>3. ASSUME NEW addr \in Addr, AccessNothing(addr)
      PROVE  BusInv'
  BY <1>3 DEF AccessNothing, BusTypeOK, CacheAgrees, IsFirst, isAddrInRange, End
<1>4. ASSUME NEW addr \in Addr, NEW size \in Size, AccessDevice(addr, size)
      PROVE  BusInv'
  <2>1. PICK d \in Dev :
          /\ Found(d, addr)
          /\ Remember(addr, d)
          /\ access' = [dev |-> d, begin |-> addr - devBaseAddr[d], size |-> size]
          /\ aborted' = (d \notin Ram /\ addr - devBaseAddr[d] + size > RegionSize[d])
    BY <1>4 DEF AccessDevice
  <2>2. IsFirst(d, addr)
    BY <1>4, <2>1 DEF AccessDevice, Found, CacheAgrees
  <2>3. DOMAIN devFindCache' = DOMAIN devFindCache \cup {addr}
    BY <2>1 DEF Remember
  <2>4. \A a \in DOMAIN devFindCache' :
          devFindCache'[a] = IF a = addr THEN d ELSE devFindCache[a]
    BY <2>1, <2>3 DEF Remember
  <2>5. mmioDevs' = mmioDevs /\ devBaseAddr' = devBaseAddr /\ ~aborted
    BY <1>4 DEF AccessDevice
  <2>6. access' \in Access
    <3>1. addr \in Int /\ devBaseAddr[d] \in Int
      BY NatBases
    <3>2. addr - devBaseAddr[d] \in Int
      BY <3>1
    <3> QED BY <2>1, <3>2 DEF Access
  <2>7. aborted' \in BOOLEAN
    BY <2>1
  <2>8. BusTypeOK'
    BY <2>2, <2>3, <2>4, <2>5, <2>6, <2>7 DEF BusTypeOK, IsFirst
  <2>9. CacheAgrees'
    BY <2>2, <2>3, <2>4, <2>5 DEF CacheAgrees, IsFirst, isAddrInRange, End
  <2> QED BY <2>8, <2>9
<1>5. CASE UNCHANGED vars
  BY <1>5 DEF vars, BusTypeOK, CacheAgrees, IsFirst, isAddrInRange, End
<1> QED BY <1>1, <1>2, <1>3, <1>4, <1>5 DEF Next

LEMMA BusInvariant == Spec => []BusInv
BY BusInvInit, BusInvNext, PTL DEF Spec

\* The bus keeps its types: what is remembered is a registered device.
THEOREM BusTypeCorrect == Spec => []BusTypeOK
BY BusInvariant, PTL DEF BusInv

\* findDevAccordingToAddr answers as if it had no cache.
THEOREM CacheIsTransparent == Spec => []CacheAgrees
BY BusInvariant, PTL DEF BusInv

\* An address keeps its device through registrations and lookups.
THEOREM AddressKeepsDevice == Spec => DecodeStable
<1> DEFINE Kept == \A d \in Dev, a \in Addr : ~aborted' /\ IsFirst(d, a) => IsFirst(d, a)'
<1>1. BusInv /\ [Next]_vars => [Kept]_vars
  <2> SUFFICES ASSUME BusInv, Next, NEW d \in Dev, NEW a \in Addr, ~aborted', IsFirst(d, a)
               PROVE  IsFirst(d, a)'
    OBVIOUS
  <2>1. ASSUME NEW n \in Dev, NEW base \in Addr, RegisterMMIODev(n, base)
        PROVE  IsFirst(d, a)'
    BY <2>1, FirstStaysFirst DEF BusInv
  <2>2. ASSUME NEW n \in Dev, NEW base \in Addr, RegisterConflict(n, base)
        PROVE  FALSE
    BY <2>2 DEF RegisterConflict
  <2>3. ASSUME UNCHANGED <<mmioDevs, devBaseAddr>>
        PROVE  IsFirst(d, a)'
    BY <2>3 DEF IsFirst, isAddrInRange, End
  <2> QED BY <2>1, <2>2, <2>3 DEF Next, AccessNothing, AccessDevice
<1> QED BY <1>1, BusInvariant, PTL DEF Spec, DecodeStable
============================================================================
