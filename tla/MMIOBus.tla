------------------------------ MODULE MMIOBus ------------------------------
(***************************************************************************)
(* The bus: devices registered at base addresses, the scan for the device  *)
(* of an address, and the hash map that remembers what the scan found and  *)
(* is never invalidated.                                                   *)
(*                                                                         *)
(* The vector of devices is sorted by base address and the bases differ    *)
(* (equal ones conflict), so a set stands for it: the scan's first match   *)
(* is the one with the least base.  A read and a write take the same way   *)
(* to the device, so one action stands for both.  Regions end below 2^64.  *)
(***************************************************************************)
EXTENDS Integers, FiniteSets

CONSTANTS
    Dev,          \* devices
    NoDev,        \* no device
    Addr,         \* addresses
    Size,         \* sizes of an access
    RegionSize,   \* addrRegionSize of each device
    Ram           \* the devices that do not check the region themselves

ASSUME BusAssumption ==
    /\ IsFiniteSet(Dev) /\ NoDev \notin Dev /\ Ram \subseteq Dev
    /\ Addr \subseteq Nat /\ Size \subseteq Nat \ {0}
    /\ RegionSize \in [Dev -> Nat]

VARIABLES
    mmioDevs,       \* the registered devices
    devBaseAddr,    \* base address of each device
    devFindCache,   \* address |-> device, for the addresses looked up so far
    access,         \* the last access and the device it reached
    aborted         \* an assertion ended the emulator

vars == <<mmioDevs, devBaseAddr, devFindCache, access, aborted>>

Access == [dev : Dev, begin : Int, size : Size]
NoAccess == [dev |-> NoDev]

BusTypeOK ==
    /\ mmioDevs \subseteq Dev
    /\ devBaseAddr \in [Dev -> Nat]
    /\ DOMAIN devFindCache \subseteq Addr
    /\ \A a \in DOMAIN devFindCache : devFindCache[a] \in mmioDevs
    /\ access \in Access \cup {NoAccess}
    /\ aborted \in BOOLEAN

Init ==
    /\ mmioDevs = {}
    /\ devBaseAddr = [d \in Dev |-> 0]
    /\ devFindCache = [a \in {} |-> NoDev]
    /\ access = NoAccess
    /\ aborted = FALSE

----------------------------------------------------------------------------
End(d) == devBaseAddr[d] + RegionSize[d]

\* The end of a region counts as inside.
isAddrInRange(d, addr) == devBaseAddr[d] <= addr /\ addr <= End(d)

\* The first device of the sorted list that has addr in range.
IsFirst(d, addr) ==
    /\ d \in mmioDevs /\ isAddrInRange(d, addr)
    /\ \A e \in mmioDevs : isAddrInRange(e, addr) => devBaseAddr[d] <= devBaseAddr[e]

\* Mutant: the end of the other region does not count.
ConflictExclusive(d, base, e) ==
    \/ base <= devBaseAddr[e] /\ devBaseAddr[e] < base + RegionSize[d]
    \/ base <= End(e) /\ End(e) <= base + RegionSize[d]

\* Mutant: only the end of the registered region is looked at.
ConflictEndOnly(d, base, e) ==
    base <= End(e) /\ End(e) <= base + RegionSize[d]

\* An end of the registered region e lies in the region of d at base.
isAddrRegionConflict(d, base, e) ==
    \/ base <= devBaseAddr[e] /\ devBaseAddr[e] <= base + RegionSize[d]
    \/ base <= End(e) /\ End(e) <= base + RegionSize[d]

Conflicts(d, base) ==
    d \in mmioDevs \/ \E e \in mmioDevs : isAddrRegionConflict(d, base, e)

RegisterMMIODev(d, base) ==
    /\ ~aborted
    /\ ~Conflicts(d, base)
    /\ mmioDevs' = mmioDevs \cup {d}
    /\ devBaseAddr' = [devBaseAddr EXCEPT ![d] = base]
    /\ UNCHANGED <<devFindCache, access, aborted>>

\* The base is set before the check; a device registered twice conflicts with
\* itself.
RegisterConflict(d, base) ==
    /\ ~aborted
    /\ Conflicts(d, base)
    /\ devBaseAddr' = [devBaseAddr EXCEPT ![d] = base]
    /\ aborted' = TRUE
    /\ UNCHANGED <<mmioDevs, devFindCache, access>>

----------------------------------------------------------------------------
\* What findDevAccordingToAddr may answer for addr.
Found(d, addr) ==
    IF addr \in DOMAIN devFindCache THEN d = devFindCache[addr] ELSE IsFirst(d, addr)

\* The scan's answer is remembered.
Remember(addr, d) ==
    devFindCache' = [a \in DOMAIN devFindCache \cup {addr} |->
                        IF a = addr THEN d ELSE devFindCache[a]]

\* No device: the access is answered MEMU_NOT_ACCESSIBLE.
AccessNothing(addr) ==
    /\ ~aborted
    /\ \A d \in Dev : ~Found(d, addr)
    /\ access' = NoAccess
    /\ UNCHANGED <<mmioDevs, devBaseAddr, devFindCache, aborted>>

\* The device gets the offset; all but the RAM assert that the access ends in
\* their region.
AccessDevice(addr, size) ==
    /\ ~aborted
    /\ \E d \in Dev :
          /\ Found(d, addr)
          /\ Remember(addr, d)
          /\ access' = [dev |-> d, begin |-> addr - devBaseAddr[d], size |-> size]
          /\ aborted' = (d \notin Ram /\ addr - devBaseAddr[d] + size > RegionSize[d])
    /\ UNCHANGED <<mmioDevs, devBaseAddr>>

Next ==
    \/ \E d \in Dev, base \in Addr : RegisterMMIODev(d, base) \/ RegisterConflict(d, base)
    \/ \E addr \in Addr : AccessNothing(addr)
    \/ \E addr \in Addr, size \in Size : AccessDevice(addr, size)

Spec == Init /\ [][Next]_vars

----------------------------------------------------------------------------
\* A remembered answer is the one the scan would give now, though the map is
\* never invalidated and devices are added, with lower bases too: a new device
\* that would come first for a remembered address is a conflict.
CacheAgrees ==
    ~aborted => \A a \in DOMAIN devFindCache : IsFirst(devFindCache[a], a)

\* Once an address is answered by a device it is always answered by it: no
\* registration takes an address away from a device that has it.
DecodeStable ==
    [][\A d \in Dev, a \in Addr : ~aborted' /\ IsFirst(d, a) => IsFirst(d, a)']_vars
============================================================================
