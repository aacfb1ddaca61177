--------------------------- MODULE PlatformProofs ---------------------------
(***************************************************************************)
(* Theorems about RVPLICtrl, for any sources, contexts and levels, and     *)
(* about Platform, for any period of the serial port and any bounds on     *)
(* what is typed, written and moved.                                       *)
(*                                                                         *)
(* The cores and the run loop make only steps RVPLICtrl allows, so what is *)
(* proved of the controller under any order of accesses holds here; the    *)
(* guest's discipline adds that the interrupt is never routed twice.       *)
(***************************************************************************)
EXTENDS Platform, WellFoundedInduction, SequenceTheorems, TLAPS

Less == {p \in Nat \X Nat : p[1] < p[2]}

\* A nonempty set of naturals has a least member.
LEMMA LeastNat ==
    ASSUME NEW T, T \subseteq Nat, T # {}
    PROVE  \E m \in T : \A n \in T : m <= n
<1>1. IsWellFoundedOn(Less, Nat)
    BY NatLessThanWellFounded DEF OpToRel, Less
<1>2. \E m \in T : \A n \in T : <<n, m>> \notin Less
    BY <1>1, WFMin
<1>3. \A m, n \in Nat : <<n, m>> \notin Less => m <= n
    BY DEF Less
<1> QED
    BY <1>2, <1>3

\* A context is only ever shown a source that is eligible for it.
LEMMA GetIntEligible ==
    ASSUME PlicTypeOK, NEW c \in Context, NEW pend \in SUBSET Source,
           Eligible(c, pend) # {}
    PROVE  get_int(c, pend) \in Eligible(c, pend)
<1> DEFINE e == Eligible(c, pend)
           T == {MaxLevel - priority[i] : i \in e}
<1>1. e \subseteq Source /\ Source \subseteq Nat /\ e # {}
    BY PlicAssumption DEF Eligible
<1>2. \A i \in e : priority[i] \in Nat /\ MaxLevel - priority[i] \in Nat
    <2>1. \A i \in Source : priority[i] \in 0 .. MaxLevel
        BY DEF PlicTypeOK, Level
    <2> HIDE DEF e
    <2> QED BY <1>1, <2>1, PlicAssumption
<1>3. T \subseteq Nat /\ T # {}
    BY <1>1, <1>2
<1>4. PICK m \in T : \A n \in T : m <= n
    <2> HIDE DEF T
    <2> QED BY <1>3, LeastNat
<1>5. PICK k \in e : m = MaxLevel - priority[k]
    BY <1>4
<1>6. ASSUME NEW i \in e PROVE priority[i] <= priority[k]
    <2>1. MaxLevel - priority[i] \in T
        OBVIOUS
    <2>2. MaxLevel - priority[k] <= MaxLevel - priority[i]
        BY <1>4, <1>5, <2>1
    <2> HIDE DEF e
    <2> QED BY <1>2, <2>2, PlicAssumption
<1> DEFINE S == {i \in e : priority[i] = priority[k]}
<1>7. S \subseteq Nat /\ S # {}
    BY <1>1, <1>5
<1>8. PICK i \in S : \A j \in S : i <= j
    <2> HIDE DEF S
    <2> QED BY <1>7, LeastNat
<1>9. \A j \in e : \/ priority[i] > priority[j]
                   \/ (priority[i] = priority[j] /\ i <= j)
    BY <1>1, <1>2, <1>6, <1>8
<1>10. i \in e
    BY <1>8
<1> HIDE DEF e
<1>11. get_int(c, pend) = CHOOSE x \in e : \A j \in e :
                              \/ priority[x] > priority[j]
                              \/ (priority[x] = priority[j] /\ x <= j)
    BY <1>1 DEF get_int, e
<1>12. (CHOOSE x \in e : \A j \in e : \/ priority[x] > priority[j]
                                     \/ (priority[x] = priority[j] /\ x <= j)) \in e
    BY <1>9, <1>10, Zenon
<1> QED
    BY <1>11, <1>12 DEF e

\* What UpdateIntState leaves in a claim register: nothing, or an eligible
\* source.
LEMMA ClaimAfterUpdate ==
    ASSUME PlicTypeOK, NEW c \in Context, NEW pend \in SUBSET Source
    PROVE  /\ get_int(c, pend) \in Source \cup {0}
           /\ get_int(c, pend) # 0 => /\ get_int(c, pend) \in enable[c]
                                      /\ get_int(c, pend) \notin claimed
<1>1. CASE Eligible(c, pend) = {}
    BY <1>1 DEF get_int
<1>2. CASE Eligible(c, pend) # {}
    <2>1. get_int(c, pend) \in Eligible(c, pend)
        BY <1>2, GetIntEligible
    <2>2. Eligible(c, pend) \subseteq (Source \cap enable[c]) \ claimed
        BY DEF Eligible
    <2> QED BY <2>1, <2>2
<1> QED BY <1>1, <1>2

----------------------------------------------------------------------------
LEMMA PlicTypeStep ==
    ASSUME PlicTypeOK, [PlicNext]_plicVars
    PROVE  PlicTypeOK'
<1>1. ASSUME NEW fired \in SUBSET Source, UpdateIntState(fired) PROVE PlicTypeOK'
    <2>1. pending' \in SUBSET Source
        BY <1>1 DEF UpdateIntState, PlicTypeOK
    <2>2. claim' = [c \in Context |-> get_int(c, pending')]
        BY <1>1 DEF UpdateIntState
    <2> DEFINE pend == pending'
    <2> HIDE DEF pend
    <2>3. \A c \in Context : get_int(c, pend) \in Source \cup {0}
        BY <2>1, ClaimAfterUpdate DEF pend
    <2> QED BY <1>1, <2>1, <2>2, <2>3 DEF UpdateIntState, PlicTypeOK, plicRegs, pend
<1>2. ASSUME NEW i \in Source, NEW p \in Level, WritePriority(i, p) PROVE PlicTypeOK'
    BY <1>2 DEF WritePriority, PlicTypeOK
<1>3. ASSUME NEW c \in Context, ReadClaim(c) PROVE PlicTypeOK'
    BY <1>3 DEF ReadClaim, PlicTypeOK, plicRegs
<1>4. ASSUME NEW c \in Context, NEW i \in held[c], WriteComplete(c, i) PROVE PlicTypeOK'
    BY <1>4 DEF WriteComplete, PlicTypeOK, plicRegs
<1>5. ASSUME NEW c \in Context, NEW t \in Level, WriteThreshold(c, t) PROVE PlicTypeOK'
    BY <1>5 DEF WriteThreshold, PlicTypeOK
<1>6. ASSUME NEW c \in Context, NEW s \in SUBSET Source, WriteEnable(c, s) PROVE PlicTypeOK'
    BY <1>6 DEF WriteEnable, PlicTypeOK
<1>7. CASE UNCHANGED plicVars
    BY <1>7 DEF plicVars, PlicTypeOK
<1> QED BY <1>1, <1>2, <1>3, <1>4, <1>5, <1>6, <1>7 DEF PlicNext

\* Every register keeps its range.
THEOREM PlicTypeCorrect == PlicSpec => []PlicTypeOK
<1>1. PlicInit => PlicTypeOK
    BY PlicAssumption DEF PlicInit, PlicTypeOK, Level
<1> QED BY <1>1, PlicTypeStep, PTL DEF PlicSpec

----------------------------------------------------------------------------
(***************************************************************************)
(* ExclusiveClaim is not inductive: the claim registers are out of date,   *)
(* so what they show must be tied to what is held.  Of a source never      *)
(* enabled in two contexts at once:                                        *)
(***************************************************************************)
\* at most one context has it enabled now,
EnabledOnce ==
    \A i \in Source \ shared, c, d \in Context : i \in enable[c] /\ i \in enable[d] => c = d

\* at most one claim register shows it,
ShownOnce ==
    \A i \in Source \ shared, c, d \in Context : claim[c] = i /\ claim[d] = i => c = d

\* that register is its holder's, if it is held,
ShownToHolder ==
    \A i \in Source \ shared, c, d \in Context : i \in held[c] /\ claim[d] = i => c = d

\* and while held it stays claimed, hence not eligible.
HeldIsClaimed ==
    \A i \in Source \ shared, c \in Context : i \in held[c] => i \in claimed

PlicInv == PlicTypeOK /\ EnabledOnce /\ ShownOnce /\ ShownToHolder /\ HeldIsClaimed /\ ExclusiveClaim

LEMMA UpdateKeepsInv ==
    ASSUME PlicInv, PlicTypeOK', NEW fired \in SUBSET Source, UpdateIntState(fired)
    PROVE  PlicInv'
<1> DEFINE pend == pending'
<1>1. pend \in SUBSET Source
    BY DEF PlicTypeOK
<1>2. claim' = [c \in Context |-> get_int(c, pend)]
    BY DEF UpdateIntState
<1> HIDE DEF pend
<1>3. ASSUME NEW c \in Context, NEW i \in Source, claim'[c] = i
      PROVE  i \in enable[c] /\ i \notin claimed
    <2>1. get_int(c, pend) = i
        BY <1>2, <1>3
    <2>2. i # 0
        BY PlicAssumption
    <2> QED BY <1>1, <2>1, <2>2, ClaimAfterUpdate DEF PlicInv
<1>4. UNCHANGED <<enable, claimed, held, shared>>
    BY DEF UpdateIntState, plicRegs
<1>5. EnabledOnce' /\ HeldIsClaimed' /\ ExclusiveClaim'
    BY <1>4 DEF PlicInv, EnabledOnce, HeldIsClaimed, ExclusiveClaim
<1>6. ShownOnce'
    BY <1>3, <1>4 DEF PlicInv, EnabledOnce, ShownOnce
<1>7. ShownToHolder'
    BY <1>3, <1>4 DEF PlicInv, HeldIsClaimed, ShownToHolder
<1> QED BY <1>5, <1>6, <1>7 DEF PlicInv

LEMMA ReadClaimKeepsInv ==
    ASSUME PlicInv, PlicTypeOK', NEW c \in Context, ReadClaim(c)
    PROVE  PlicInv'
<1>1. UNCHANGED <<enable, claim, shared>> /\ claimed' = claimed \cup {claim[c]}
    BY DEF ReadClaim, plicRegs
<1>2. ASSUME NEW i \in Source, NEW d \in Context, i \in held'[d]
      PROVE  i \in held[d] \/ (d = c /\ claim[c] = i)
    BY <1>2 DEF ReadClaim, PlicInv, PlicTypeOK
<1>3. EnabledOnce' /\ ShownOnce'
    BY <1>1 DEF PlicInv, EnabledOnce, ShownOnce
<1>4. ShownToHolder'
    BY <1>1, <1>2 DEF PlicInv, ShownToHolder, ShownOnce
<1>5. HeldIsClaimed'
    BY <1>1, <1>2 DEF PlicInv, HeldIsClaimed
<1>6. ExclusiveClaim'
    BY <1>1, <1>2 DEF PlicInv, ExclusiveClaim, ShownToHolder
<1> QED BY <1>3, <1>4, <1>5, <1>6 DEF PlicInv

LEMMA WriteCompleteKeepsInv ==
    ASSUME PlicInv, PlicTypeOK', NEW c \in Context, NEW k \in held[c], WriteComplete(c, k)
    PROVE  PlicInv'
<1>1. UNCHANGED <<enable, claim, shared>> /\ claimed' = claimed \ {k}
    BY DEF WriteComplete, plicRegs
<1>2. ASSUME NEW i \in Source, NEW d \in Context, i \in held'[d]
      PROVE  i \in held[d] /\ ~(d = c /\ i = k)
    BY <1>2 DEF WriteComplete, PlicInv, PlicTypeOK
<1>3. EnabledOnce' /\ ShownOnce'
    BY <1>1 DEF PlicInv, EnabledOnce, ShownOnce
<1>4. ShownToHolder' /\ ExclusiveClaim'
    BY <1>1, <1>2 DEF PlicInv, ShownToHolder, ExclusiveClaim
<1>5. HeldIsClaimed'
    BY <1>1, <1>2 DEF PlicInv, HeldIsClaimed, ExclusiveClaim
<1> QED BY <1>3, <1>4, <1>5 DEF PlicInv

LEMMA WriteEnableKeepsInv ==
    ASSUME PlicInv, PlicTypeOK', NEW c \in Context, NEW s \in SUBSET Source, WriteEnable(c, s)
    PROVE  PlicInv'
<1>1. UNCHANGED <<claim, claimed, held>> /\ shared \subseteq shared'
    BY DEF WriteEnable
<1>2. ShownOnce' /\ ShownToHolder' /\ HeldIsClaimed' /\ ExclusiveClaim'
    BY <1>1 DEF PlicInv, ShownOnce, ShownToHolder, HeldIsClaimed, ExclusiveClaim
<1>3. \A d \in Context : enable'[d] = IF d = c THEN s ELSE enable[d]
    BY DEF WriteEnable, PlicInv, PlicTypeOK
<1>4. \A i \in Source, d \in Context \ {c} : i \in s /\ i \in enable[d] => i \in shared'
    BY DEF WriteEnable
<1>5. EnabledOnce'
    BY <1>1, <1>3, <1>4 DEF PlicInv, EnabledOnce
<1> QED BY <1>2, <1>5 DEF PlicInv

\* A source routed to one context at a time is served by one hart at a time,
\* however late the claim registers are.
THEOREM SourceHasOneHolder == PlicSpec => []ExclusiveClaim
<1>1. PlicInit => PlicInv
    BY PlicAssumption
       DEF PlicInit, PlicInv, PlicTypeOK, Level, EnabledOnce, ShownOnce, ShownToHolder,
           HeldIsClaimed, ExclusiveClaim
<1>2. PlicInv /\ PlicTypeOK' /\ [PlicNext]_plicVars => PlicInv'
    <2> SUFFICES ASSUME PlicInv, PlicTypeOK', [PlicNext]_plicVars PROVE PlicInv'
        OBVIOUS
    <2>1. CASE UNCHANGED <<enable, claim, claimed, held, shared>>
        BY <2>1 DEF PlicInv, EnabledOnce, ShownOnce, ShownToHolder, HeldIsClaimed, ExclusiveClaim
    <2>2. ASSUME NEW i \in Source, NEW p \in Level, WritePriority(i, p) PROVE PlicInv'
        BY <2>1, <2>2 DEF WritePriority
    <2>3. ASSUME NEW c \in Context, NEW t \in Level, WriteThreshold(c, t) PROVE PlicInv'
        BY <2>1, <2>3 DEF WriteThreshold
    <2>4. CASE UNCHANGED plicVars
        BY <2>1, <2>4 DEF plicVars
    <2> QED
        BY <2>2, <2>3, <2>4, UpdateKeepsInv, ReadClaimKeepsInv, WriteCompleteKeepsInv,
           WriteEnableKeepsInv DEF PlicNext
<1>3. PlicInv => ExclusiveClaim
    BY DEF PlicInv
<1> QED BY <1>1, <1>2, <1>3, PlicTypeCorrect, PTL DEF PlicSpec

\* A claimed source always has a context that will complete it.
THEOREM ClaimedIsHeld == PlicSpec => []NoOrphanClaim
<1>1. PlicInit => NoOrphanClaim
    BY DEF PlicInit, NoOrphanClaim
<1>2. PlicTypeOK /\ NoOrphanClaim /\ [PlicNext]_plicVars => NoOrphanClaim'
    <2> SUFFICES ASSUME PlicTypeOK, NoOrphanClaim, [PlicNext]_plicVars PROVE NoOrphanClaim'
        OBVIOUS
    <2>1. CASE UNCHANGED <<claimed, held>>
        BY <2>1 DEF NoOrphanClaim
    <2>2. ASSUME NEW c \in Context, ReadClaim(c) PROVE NoOrphanClaim'
        BY <2>2 DEF ReadClaim, NoOrphanClaim, PlicTypeOK
    <2>3. ASSUME NEW c \in Context, NEW i \in held[c], WriteComplete(c, i) PROVE NoOrphanClaim'
        BY <2>3 DEF WriteComplete, NoOrphanClaim, PlicTypeOK
    <2>4. CASE \E fired \in SUBSET Source : UpdateIntState(fired)
        BY <2>1, <2>4 DEF UpdateIntState
    <2>5. CASE \E i \in Source, p \in Level : WritePriority(i, p)
        BY <2>1, <2>5 DEF WritePriority
    <2>6. ASSUME NEW c \in Context, NEW t \in Level, WriteThreshold(c, t) PROVE NoOrphanClaim'
        BY <2>1, <2>6 DEF WriteThreshold
    <2>7. ASSUME NEW c \in Context, NEW s \in SUBSET Source, WriteEnable(c, s) PROVE NoOrphanClaim'
        BY <2>1, <2>7 DEF WriteEnable
    <2>8. CASE UNCHANGED plicVars
        BY <2>1, <2>8 DEF plicVars
    <2> QED BY <2>2, <2>3, <2>4, <2>5, <2>6, <2>7, <2>8 DEF PlicNext
<1> QED BY <1>1, <1>2, PlicTypeCorrect, PTL DEF PlicSpec

----------------------------------------------------------------------------
(* The platform.                                                           *)

\* A core in the handler has claimed the interrupt and not completed it.
HandlerHolds ==
    \A h \in Core : pc[h] \in Handler => Uart \in held[Ctx[h]]

LEMMA Contexts ==
    /\ Uart \in Source /\ Source = {Uart} /\ {Uart} \in SUBSET Source /\ {} \in SUBSET Source
    /\ \A h \in Core : Ctx[h] \in Context
    /\ \A c \in Context : \E h \in Core : c = Ctx[h]
    /\ \A h, k \in Core : Ctx[h] = Ctx[k] => h = k
    /\ 1 \in Level /\ MaxLevel \in Nat
BY PlatformAssumption, PlicAssumption DEF Core, Ctx, Uart, Level

----------------------------------------------------------------------------
\* Where a step of Platform changes the controller, it is a step of PlicNext.
LEMMA StepOfPlic ==
    ASSUME PlicTypeOK, HandlerHolds, [Next]_vars
    PROVE  [PlicNext]_plicVars
<1>1. CASE UNCHANGED plicVars
    BY <1>1
<1>2. CASE UpdateIntc
    <2>1. \E fired \in SUBSET Source : UpdateIntState(fired)
        BY <1>2, Contexts DEF UpdateIntc
    <2> QED BY <2>1 DEF PlicNext
<1>3. ASSUME NEW h \in Core, SetPriority(h) PROVE PlicNext
    BY <1>3, Contexts DEF SetPriority, PlicNext
<1>4. ASSUME NEW h \in Core, Route(h) PROVE PlicNext
    <2>1. WriteEnable(Ctx[h], {Uart})
        BY <1>4 DEF Route
    <2> QED BY <2>1, Contexts DEF PlicNext
<1>5. ASSUME NEW h \in Core, Claim(h) PROVE PlicNext
    <2>1. ReadClaim(Ctx[h])
        BY <1>5 DEF Claim
    <2> QED BY <2>1, Contexts DEF PlicNext
<1>6. ASSUME NEW h \in Core, Complete(h) PROVE PlicNext
    <2>1. WriteComplete(Ctx[h], Uart) /\ Uart \in held[Ctx[h]]
        BY <1>6 DEF Complete, At, HandlerHolds, Handler
    <2> QED BY <2>1, Contexts DEF PlicNext
<1>7. ASSUME NEW h \in Core, Mask(h) PROVE PlicNext
    <2>1. \E c \in Context : WriteEnable(c, {})
        BY <1>7 DEF Mask
    <2> QED BY <2>1, Contexts DEF PlicNext
<1>8. ASSUME NEW h \in Core, Unmask(h) PROVE PlicNext
    <2>1. \E c \in Context : WriteEnable(c, {Uart})
        BY <1>8 DEF Unmask
    <2> QED BY <2>1, Contexts DEF PlicNext
<1>9. CASE DevIdle \/ DevStep
    BY <1>9 DEF DevIdle, DevStep
<1>10. ASSUME NEW h \in Core,
              Compute(h) \/ ResetPort(h) \/ Trap(h) \/ Status(h) \/ Receive(h) \/ Transmit(h)
       PROVE  UNCHANGED plicVars
    BY <1>10 DEF Compute, ResetPort, Trap, Status, Receive, Transmit
<1>11. CASE UNCHANGED vars
    BY <1>11 DEF vars
<1> QED
    BY <1>1, <1>2, <1>3, <1>4, <1>5, <1>6, <1>7, <1>8, <1>9, <1>10, <1>11 DEF Next, Driver

----------------------------------------------------------------------------
(***************************************************************************)
(* The guest's side: the interrupt is enabled in one context at most, and  *)
(* in none while core 0 has yet to route it.                               *)
(***************************************************************************)
PcTyped == pc \in [Core -> Setup \cup Handler \cup {"main", "claim", "unmask"}]

NotYetRouted ==
    \A h \in Core : pc[h] \in Setup \cup {"unmask"} =>
        h = "core0" /\ \A c \in Context : Uart \notin enable[c]

RoutedOnce ==
    \A c, d \in Context : Uart \in enable[c] /\ Uart \in enable[d] => c = d

GuestInv == PcTyped /\ HandlerHolds /\ NotYetRouted /\ RoutedOnce /\ shared = {}

\* Steps that route the interrupt.
LEMMA RoutingKeepsInv ==
    ASSUME PlicTypeOK, GuestInv, NEW h \in Core, Route(h) \/ Mask(h) \/ Unmask(h)
    PROVE  GuestInv'
<1> USE Contexts
<1>1. h = "core0"
    BY DEF Route, Mask, Unmask, At, GuestInv, NotYetRouted, Setup
<1>2. UNCHANGED held
    BY DEF Route, Mask, Unmask, WriteEnable
<1>3. PICK there \in {"main", "unmask"} : pc' = [pc EXCEPT ![h] = there]
    BY DEF Route, Mask, Unmask, Goto
<1>4. PcTyped' /\ HandlerHolds'
    BY <1>2, <1>3 DEF GuestInv, PcTyped, HandlerHolds, Handler
<1>5. CASE Route(h) \/ Unmask(h)
    <2>1. PICK c \in Context : WriteEnable(c, {Uart})
        BY <1>5 DEF Route, Unmask
    <2>2. \A d \in Context : Uart \notin enable[d]
        BY <1>5 DEF Route, Unmask, At, GuestInv, NotYetRouted, Setup
    <2>3. enable' = [enable EXCEPT ![c] = {Uart}] /\ shared' = shared
        BY <2>1, <2>2 DEF WriteEnable
    <2>4. \A d \in Context : Uart \in enable'[d] => d = c
        BY <2>2, <2>3 DEF PlicTypeOK
    <2>5. pc'[h] = "main" /\ \A k \in Core \ {h} : pc'[k] \notin Setup \cup {"unmask"}
        BY <1>1, <1>3, <1>5
           DEF Route, Unmask, Goto, GuestInv, PcTyped, NotYetRouted
    <2>6. RoutedOnce' /\ NotYetRouted'
        BY <2>4, <2>5 DEF RoutedOnce, NotYetRouted, Setup
    <2> QED BY <1>4, <2>3, <2>6 DEF GuestInv
<1>6. CASE Mask(h)
    <2>1. PICK c \in Context : Uart \in enable[c] /\ WriteEnable(c, {})
        BY <1>6 DEF Mask
    <2>2. enable' = [enable EXCEPT ![c] = {}] /\ shared' = shared
        BY <2>1 DEF WriteEnable
    <2>3. \A d \in Context : Uart \notin enable'[d]
        BY <2>1, <2>2 DEF GuestInv, RoutedOnce, PlicTypeOK
    <2>4. \A k \in Core \ {h} : pc'[k] = pc[k]
        BY <1>3 DEF GuestInv, PcTyped
    <2>5. NotYetRouted'
        BY <1>1, <2>3, <2>4 DEF NotYetRouted, GuestInv
    <2>6. RoutedOnce'
        BY <2>3 DEF RoutedOnce
    <2> QED BY <1>4, <2>2, <2>5, <2>6 DEF GuestInv
<1> QED BY <1>5, <1>6

\* Steps of the set-up and the handler that leave the routing alone.
LEMMA HandlerKeepsInv ==
    ASSUME PlicTypeOK, GuestInv, NEW h \in Core,
           \/ ResetPort(h) \/ SetPriority(h) \/ Trap(h) \/ Claim(h)
           \/ Status(h) \/ Receive(h) \/ Complete(h)
    PROVE  GuestInv'
<1> USE Contexts
<1>1. UNCHANGED <<enable, shared>>
    BY DEF ResetPort, SetPriority, Trap, Claim, Status, Receive, Complete, WritePriority,
           ReadClaim, WriteComplete, plicVars, plicRegs
<1>2. PICK there \in {"priority", "route", "main", "claim", "status", "receive", "complete"} :
          /\ pc' = [pc EXCEPT ![h] = there]
          /\ there \in Setup => pc[h] \in Setup
    BY DEF ResetPort, SetPriority, Trap, Claim, Status, Receive, Complete, Goto, At, Setup
<1>3. PcTyped'
    BY <1>2 DEF GuestInv, PcTyped, Setup, Handler
<1>4. NotYetRouted' /\ RoutedOnce' /\ shared' = {}
    BY <1>1, <1>2 DEF GuestInv, PcTyped, NotYetRouted, RoutedOnce, Setup
<1>5. \A k \in Core : pc'[k] = IF k = h THEN pc'[h] ELSE pc[k]
    BY <1>2 DEF GuestInv, PcTyped
<1>6. HandlerHolds'
    <2>1. CASE Claim(h)
        <3>1. ReadClaim(Ctx[h]) /\ (pc'[h] \in Handler => claim[Ctx[h]] # 0)
            BY <2>1 DEF Claim, Goto, GuestInv, PcTyped, Handler
        <3>2. claim[Ctx[h]] # 0 => claim[Ctx[h]] = Uart
            BY DEF PlicTypeOK
        <3>3. \A k \in Core : held[Ctx[k]] \subseteq held'[Ctx[k]]
            BY <3>1 DEF ReadClaim, PlicTypeOK
        <3>4. claim[Ctx[h]] = Uart => Uart \in held'[Ctx[h]]
            BY <3>1, PlicAssumption DEF ReadClaim, PlicTypeOK
        <3> QED BY <1>5, <3>1, <3>2, <3>3, <3>4 DEF HandlerHolds, GuestInv
    <2>2. CASE Complete(h)
        <3>1. pc'[h] = "main" /\ \A c \in Context \ {Ctx[h]} : held'[c] = held[c]
            BY <2>2 DEF Complete, Goto, WriteComplete, PlicTypeOK, GuestInv, PcTyped
        <3>2. \A k \in Core \ {h} : held'[Ctx[k]] = held[Ctx[k]]
            BY <3>1
        <3> QED BY <1>5, <3>1, <3>2 DEF HandlerHolds, GuestInv, Handler
    <2>3. CASE ResetPort(h) \/ SetPriority(h) \/ Trap(h) \/ Status(h) \/ Receive(h)
        <3>1. UNCHANGED held
            BY <2>3 DEF ResetPort, SetPriority, Trap, Status, Receive, WritePriority, plicVars
        <3>2. pc'[h] \in Handler => pc[h] \in Handler
            BY <2>3 DEF ResetPort, SetPriority, Trap, Status, Receive, Goto, At, Handler,
                        GuestInv, PcTyped
        <3> QED BY <1>5, <3>1, <3>2 DEF HandlerHolds, GuestInv
    <2> QED BY <2>1, <2>2, <2>3
<1> QED BY <1>3, <1>4, <1>6 DEF GuestInv

LEMMA GuestStep ==
    ASSUME PlicTypeOK, GuestInv, [Next]_vars
    PROVE  GuestInv'
<1>1. CASE UNCHANGED <<pc, enable, held, shared>>
    BY <1>1 DEF GuestInv, PcTyped, HandlerHolds, NotYetRouted, RoutedOnce
<1>2. CASE UpdateIntc \/ DevIdle \/ DevStep
    BY <1>1, <1>2 DEF UpdateIntc, UpdateIntState, DevIdle, DevStep, guestVars, plicVars, plicRegs
<1>3. ASSUME NEW h \in Core, Compute(h) \/ Transmit(h) PROVE GuestInv'
    BY <1>1, <1>3 DEF Compute, Transmit, guestVars, plicVars
<1>4. CASE UNCHANGED vars
    BY <1>1, <1>4 DEF vars, guestVars, plicVars
<1> QED
    BY <1>2, <1>3, <1>4, RoutingKeepsInv, HandlerKeepsInv DEF Next, Driver

----------------------------------------------------------------------------
LEMMA GuestInit == Init => GuestInv
BY Contexts DEF Init, PlicInit, GuestInv, PcTyped, HandlerHolds, NotYetRouted, RoutedOnce,
                Setup, Handler, Core

LEMMA Invariants == Spec => [](PlicTypeOK /\ GuestInv)
<1>1. Init => PlicTypeOK
    BY PlicAssumption DEF Init, PlicInit, PlicTypeOK, Level
<1>2. PlicTypeOK /\ GuestInv /\ [Next]_vars => PlicTypeOK'
    <2>1. PlicTypeOK /\ [PlicNext]_plicVars => PlicTypeOK'
        BY PlicTypeStep
    <2> QED BY <2>1, StepOfPlic DEF GuestInv
<1>3. PlicTypeOK /\ GuestInv /\ [Next]_vars => GuestInv'
    BY GuestStep
<1> QED BY <1>1, <1>2, <1>3, GuestInit, PTL DEF Spec

\* Platform implements RVPLICtrl: under the order of the run loop the cores
\* use the controller as PlicSpec allows, completing only what they claimed.
THEOREM PlatformUsesPlic == Spec => PlicSpec
<1>1. Init => PlicInit
    BY DEF Init
<1>2. PlicTypeOK /\ GuestInv /\ [Next]_vars => [PlicNext]_plicVars
    BY StepOfPlic DEF GuestInv
<1> QED BY <1>1, <1>2, Invariants, PTL DEF Spec, PlicSpec

\* Two cores never serve the port at once, however the interrupt is moved.
THEOREM PortHasOneHandler == Spec => []OneHandler
<1>1. GuestInv /\ ExclusiveClaim => OneHandler
    BY Contexts DEF GuestInv, HandlerHolds, ExclusiveClaim, OneHandler
<1> QED BY <1>1, Invariants, PlatformUsesPlic, SourceHasOneHolder, PTL

----------------------------------------------------------------------------
(***************************************************************************)
(* The port: what goes through its queues is numbered.                     *)
(***************************************************************************)
\* The characters d + 1 .. d + n in order.
Numbered(d, n) == [i \in 1 .. n |-> d + i]

LEMMA NumberedSeq ==
    ASSUME NEW d \in Nat, NEW n \in Nat
    PROVE  Numbered(d, n) \in Seq(Nat) /\ Len(Numbered(d, n)) = n
BY DEF Numbered

LEMMA NumberedFromOne ==
    ASSUME NEW n \in Nat
    PROVE  Numbered(0, n) = [i \in 1 .. n |-> i]
BY DEF Numbered

LEMMA NumberedExtends ==
    ASSUME NEW d \in Nat, NEW m \in Nat, NEW n \in Nat
    PROVE  Numbered(d, m) \o Numbered(d + m, n) = Numbered(d, m + n)
<1> DEFINE s == Numbered(d, m)
           t == Numbered(d + m, n)
           u == Numbered(d, m + n)
<1>1. s \in Seq(Nat) /\ t \in Seq(Nat) /\ u \in Seq(Nat) /\ Len(s) = m /\ Len(t) = n /\ Len(u) = m + n
    <2>1. d + m \in Nat /\ m + n \in Nat
        OBVIOUS
    <2> QED BY <2>1, NumberedSeq
<1>2. /\ s \o t \in Seq(Nat) /\ Len(s \o t) = m + n
      /\ \A i \in 1 .. m + n : (s \o t)[i] = IF i <= m THEN s[i] ELSE t[i - m]
    <2> HIDE DEF s, t, u
    <2> QED BY <1>1, ConcatProperties
<1>3. \A i \in 1 .. m + n : (s \o t)[i] = u[i]
    <2> TAKE i \in 1 .. m + n
    <2>1. u[i] = d + i
        BY DEF Numbered
    <2>2. i <= m => s[i] = d + i
        BY DEF Numbered
    <2>3. i > m => t[i - m] = d + i
        BY DEF Numbered
    <2> QED BY <1>2, <2>1, <2>2, <2>3
<1> HIDE DEF s, t, u
<1>4. s \o t = u
    BY <1>1, <1>2, <1>3, SeqEqual
<1> QED BY <1>4 DEF s, t, u

\* A character that comes next, or several.
LEMMA NumberedAppend ==
    ASSUME NEW s \in Seq(Nat), NEW t \in Seq(Nat), NEW n \in Nat, s \o t = Numbered(0, n)
    PROVE  Append(t, n + 1) \in Seq(Nat) /\ s \o Append(t, n + 1) = Numbered(0, n + 1)
<1>1. n + 1 \in Nat /\ <<n + 1>> \in Seq(Nat) /\ Append(t, n + 1) = t \o <<n + 1>>
    BY AppendIsConcat, SMTT(30)
<1>2. Numbered(0 + n, 1) = <<n + 1>>
    BY DEF Numbered
<1>3. s \o (t \o <<n + 1>>) = Numbered(0, n) \o <<n + 1>>
    BY <1>1, ConcatAssociative, SMTT(30)
<1>4. Numbered(0, n) \o Numbered(0 + n, 1) = Numbered(0, n + 1)
    BY NumberedExtends
<1> QED BY <1>1, <1>2, <1>3, <1>4, AppendProperties

\* A character that moves from the front of one queue to the end of another.
LEMMA MoveHead ==
    ASSUME NEW s \in Seq(Nat), NEW t \in Seq(Nat), t # <<>>
    PROVE  Append(s, Head(t)) \in Seq(Nat) /\ Append(s, Head(t)) \o Tail(t) = s \o t
<1>1. Head(t) \in Nat /\ Tail(t) \in Seq(Nat) /\ <<Head(t)>> \in Seq(Nat) /\ t = <<Head(t)>> \o Tail(t)
    BY HeadTailProperties
<1>2. Append(s, Head(t)) = s \o <<Head(t)>>
    BY <1>1, AppendIsConcat
<1>3. (s \o <<Head(t)>>) \o Tail(t) = s \o (<<Head(t)>> \o Tail(t))
    BY <1>1, ConcatAssociative, SMTT(30)
<1> QED BY <1>1, <1>2, <1>3, AppendProperties
----------------------------------------------------------------------------
PortTyped ==
    /\ rx \in Seq(Nat) /\ tx \in Seq(Nat) /\ out \in Seq(Nat) /\ got \in Seq(Nat)
    /\ regs \in [rx_fifo : Nat, tx_fifo : Nat, status : SUBSET {"TX_FIFO_EMPTY", "VALID"},
                 control : SUBSET {"RST_TX", "RST_RX"}]
    /\ dropped <= received

\* Before core 0 has set up the port nobody is interrupted, reads or writes.
QuietSetup ==
    pc["core0"] \in Setup =>
        /\ pc["core1"] = "main" /\ \A c \in Context : claim[c] = 0
        /\ sent = 0 /\ tx = <<>> /\ out = <<>> /\ got = <<>>

\* The status a core has read is still true when it reads the data.
ReceivesInput == \A h \in Core : pc[h] = "receive" => rx # <<>>

PortInv ==
    PlatformTypeOK /\ PortTyped /\ QuietSetup /\ ReceivesInput /\ RxInOrder /\ TxInOrder

PortBase == PlicTypeOK /\ GuestInv /\ GuestInv' /\ OneHandler

\* Steps that leave the queues alone.
QueuesStay == UNCHANGED <<rx, tx, out, got, received, dropped, sent>>

LEMMA ControlKeepsInv ==
    ASSUME PortBase, PortInv, QueuesStay, PlatformTypeOK', QuietSetup',
           \A h \in Core : pc'[h] = "receive" => rx # <<>>,
           regs' \in [rx_fifo : Nat, tx_fifo : Nat, status : SUBSET {"TX_FIFO_EMPTY", "VALID"},
                      control : SUBSET {"RST_TX", "RST_RX"}]
    PROVE  PortInv'
BY DEF PortInv, QueuesStay, PortTyped, ReceivesInput, RxInOrder, TxInOrder

LEMMA LoopKeepsInv ==
    ASSUME PortBase, PortInv, UpdateIntc \/ DevIdle
    PROVE  PortInv'
<1>1. QueuesStay /\ UNCHANGED <<regs, wait_ack, pc, moves>>
    BY DEF QueuesStay, UpdateIntc, DevIdle, uartVars, guestVars
<1>2. PlatformTypeOK'
    <2>1. turn' \in Core \cup {"intc", "dev"}
        BY DEF UpdateIntc, DevIdle, Pass, NextTurn, Core
    <2>2. counter' \in 0 .. StepPeriod - 1
        BY PlatformAssumption DEF UpdateIntc, DevIdle, PortInv, PlatformTypeOK
    <2> QED BY <1>1, <2>1, <2>2 DEF PortInv, PlatformTypeOK, QueuesStay
<1>3. QuietSetup'
    <2>1. CASE UpdateIntc /\ pc["core0"] \in Setup
        <3>1. \A c \in Context : enable[c] = {}
            BY <2>1, Contexts DEF PortBase, GuestInv, NotYetRouted, PlicTypeOK, Core
        <3>2. \A c \in Context : get_int(c, pending') = 0
            BY <2>1, <3>1 DEF UpdateIntc, UpdateIntState, plicRegs, get_int, Eligible
        <3>3. \A c \in Context : claim'[c] = 0
            BY <2>1, <3>2 DEF UpdateIntc, UpdateIntState
        <3> QED BY <1>1, <3>3 DEF QuietSetup, QueuesStay, PortInv
    <2>2. CASE DevIdle
        BY <1>1, <2>2 DEF DevIdle, QuietSetup, QueuesStay, PortInv, plicVars
    <2> QED BY <1>1, <2>1, <2>2 DEF QuietSetup
<1> QED
    BY <1>1, <1>2, <1>3, ControlKeepsInv DEF PortInv, ReceivesInput, PortTyped

LEMMA DevStepKeepsInv ==
    ASSUME PortBase, PortInv, DevStep
    PROVE  PortInv'
<1>1. PICK n \in 0 .. MaxIn - received :
          Step(Numbered(received, n)) /\ received' = received + n
    BY DEF DevStep, Numbered
<1>2. UNCHANGED <<regs, claim, pc, moves, dropped, sent, got>>
    BY <1>1 DEF DevStep, Step, plicVars
<1>3. n \in Nat /\ received \in Nat /\ sent \in Nat /\ dropped \in Nat /\ received - dropped \in Nat
    BY PlatformAssumption DEF PortInv, PlatformTypeOK, PortTyped
<1>4. PlatformTypeOK'
    <2>1. turn' \in Core \cup {"intc", "dev"} /\ counter' \in 0 .. StepPeriod - 1
        BY PlatformAssumption DEF DevStep, Pass, NextTurn, Core
    <2>2. received' \in 0 .. MaxIn
        BY <1>1, <1>3, PlatformAssumption DEF PortInv, PlatformTypeOK
    <2>3. wait_ack' \in BOOLEAN
        BY <1>1 DEF Step, PortInv, PlatformTypeOK
    <2> QED BY <1>2, <2>1, <2>2, <2>3 DEF PortInv, PlatformTypeOK
<1>5. /\ out' = out \o tx /\ tx' = <<>> /\ rx' = rx \o Numbered(received, n)
      /\ out' \in Seq(Nat) /\ tx' \in Seq(Nat) /\ rx' \in Seq(Nat)
    BY <1>1, <1>3, NumberedSeq, ConcatProperties DEF Step, PortInv, PortTyped
<1>6. PortTyped'
    BY <1>1, <1>2, <1>3, <1>5 DEF PortInv, PortTyped
<1>7. QuietSetup'
    BY <1>2, <1>5, ConcatEmptySeq DEF PortInv, PortTyped, QuietSetup
<1>8. ReceivesInput'
    BY <1>2, <1>3, <1>5, NumberedSeq, ConcatEqualIffEmpty DEF PortInv, PortTyped, ReceivesInput
<1>9. RxInOrder'
    <2>1. got \o rx' = (got \o rx) \o Numbered(received, n)
        <3>1. Numbered(received, n) \in Seq(Nat) /\ got \in Seq(Nat) /\ rx \in Seq(Nat)
            BY <1>3, NumberedSeq DEF PortInv, PortTyped
        <3>2. (got \o rx) \o Numbered(received, n) = got \o (rx \o Numbered(received, n))
            BY <3>1, ConcatAssociative, SMTT(30)
        <3> QED BY <1>5, <3>2
    <2>2. got \o rx = Numbered(dropped, received - dropped) /\ received = dropped + (received - dropped)
        BY <1>3 DEF PortInv, RxInOrder, Numbered
    <2>3. got \o rx' = Numbered(dropped, (received - dropped) + n)
        <3>1. PICK k \in Nat : k = received - dropped /\ dropped + k = received
            BY <1>3
        <3>2. Numbered(dropped, k) \o Numbered(dropped + k, n) = Numbered(dropped, k + n)
            BY <1>3, NumberedExtends
        <3>3. got \o rx = Numbered(dropped, k)
            BY <2>2, <3>1
        <3>4. got \o rx' = Numbered(dropped, k) \o Numbered(dropped + k, n)
            BY <2>1, <3>1, <3>3
        <3> QED BY <3>1, <3>2, <3>4
    <2>4. (received - dropped) + n = received' - dropped'
        BY <1>1, <1>2, <1>3
    <2> QED BY <1>2, <2>3, <2>4 DEF RxInOrder, Numbered
<1>10. TxInOrder'
    BY <1>2, <1>5, ConcatEmptySeq DEF PortInv, PortTyped, TxInOrder
<1> QED BY <1>4, <1>6, <1>7, <1>8, <1>9, <1>10 DEF PortInv

LEMMA ResetKeepsInv ==
    ASSUME PortBase, PortInv, NEW h \in Core, ResetPort(h)
    PROVE  PortInv'
<1>1. h = "core0" /\ pc["core0"] = "reset" /\ pc' = [pc EXCEPT !["core0"] = "priority"]
    BY DEF ResetPort, At, Goto, PortBase, GuestInv, NotYetRouted, Setup
<1>2. /\ regs' = [regs EXCEPT !["control"] = {"RST_TX", "RST_RX"}]
      /\ rx' = <<>> /\ tx' = <<>> /\ UNCHANGED <<out, wait_ack, claim, moves, received, sent, got>>
      /\ dropped' = received
    BY DEF ResetPort, do_write, PortInv, PortTyped, plicVars
<1>3. QuietSetup' /\ sent = 0 /\ got = <<>> /\ out = <<>>
    BY <1>1, <1>2 DEF PortInv, PlatformTypeOK, QuietSetup, Setup, Core
<1>4. PlatformTypeOK'
    <2>1. turn' \in Core \cup {"intc", "dev"} /\ counter' = counter
        BY DEF ResetPort, At, Pass, NextTurn, Core
    <2> QED BY <1>2, <2>1 DEF PortInv, PlatformTypeOK, PortBase, GuestInv, PcTyped
<1>5. PortTyped'
    <2>1. regs' \in [rx_fifo : Nat, tx_fifo : Nat, status : SUBSET {"TX_FIFO_EMPTY", "VALID"},
                     control : SUBSET {"RST_TX", "RST_RX"}]
        BY <1>2 DEF PortInv, PortTyped
    <2>2. rx' \in Seq(Nat) /\ tx' \in Seq(Nat) /\ dropped' <= received'
        BY <1>2, PlatformAssumption DEF PortInv, PlatformTypeOK
    <2> QED BY <1>2, <2>1, <2>2 DEF PortInv, PortTyped
<1>6. ReceivesInput'
    BY <1>1 DEF PortInv, PlatformTypeOK, QuietSetup, ReceivesInput, Setup, Core
<1>7. RxInOrder' /\ TxInOrder'
    BY <1>2, <1>3, PlatformAssumption DEF RxInOrder, TxInOrder, PortInv, PlatformTypeOK
<1> QED BY <1>3, <1>4, <1>5, <1>6, <1>7 DEF PortInv

LEMMA TransmitKeepsInv ==
    ASSUME PortBase, PortInv, NEW h \in Core, Transmit(h)
    PROVE  PortInv'
<1>1. /\ regs' = [regs EXCEPT !["tx_fifo"] = sent + 1]
      /\ tx' = Append(tx, sent + 1) /\ sent' = sent + 1 /\ sent < MaxOut /\ pc["core0"] \notin Setup
      /\ UNCHANGED <<rx, out, wait_ack, pc, moves, received, dropped, got>>
    BY DEF Transmit, do_write, PortInv, PortTyped
<1>2. sent \in Nat
    BY DEF PortInv, PlatformTypeOK
<1>3. PlatformTypeOK'
    <2>1. turn' \in Core \cup {"intc", "dev"} /\ counter' = counter
        BY DEF Transmit, At, Pass, NextTurn, Core
    <2> QED BY <1>1, <1>2, <2>1, PlatformAssumption DEF PortInv, PlatformTypeOK
<1>4. out \o tx = Numbered(0, sent)
    BY <1>2, NumberedFromOne DEF PortInv, TxInOrder
<1>5. tx' \in Seq(Nat) /\ out' \o tx' = Numbered(0, sent + 1)
    BY <1>1, <1>2, <1>4, NumberedAppend DEF PortInv, PortTyped
<1>6. PortTyped'
    <2>1. sent + 1 \in Nat
        BY <1>2
    <2>2. regs' \in [rx_fifo : Nat, tx_fifo : Nat, status : SUBSET {"TX_FIFO_EMPTY", "VALID"},
                     control : SUBSET {"RST_TX", "RST_RX"}]
        BY <1>1, <2>1 DEF PortInv, PortTyped
    <2> QED BY <1>1, <1>5, <2>2 DEF PortInv, PortTyped
<1>7. TxInOrder'
    <2>1. sent' \in Nat /\ out' \o tx' = Numbered(0, sent')
        BY <1>1, <1>2, <1>5
    <2> QED BY <2>1, NumberedFromOne DEF TxInOrder
<1> QED
    BY <1>1, <1>3, <1>6, <1>7 DEF PortInv, QuietSetup, ReceivesInput, RxInOrder

LEMMA ReceiveKeepsInv ==
    ASSUME PortBase, PortInv, NEW h \in Core, Receive(h)
    PROVE  PortInv'
<1>1. pc[h] = "receive" /\ pc' = [pc EXCEPT ![h] = "status"] /\ rx # <<>>
    BY DEF Receive, At, Goto, PortInv, ReceivesInput
<1>2. /\ regs' = [regs EXCEPT !.status = @ \cup {"VALID"}, !.rx_fifo = Head(rx)]
      /\ rx' = Tail(rx) /\ got' = Append(got, Head(rx)) /\ wait_ack' = FALSE
      /\ UNCHANGED <<tx, out, moves, received, dropped, sent>>
    BY <1>1 DEF Receive, do_read, PortInv, PortTyped
<1>3. Head(rx) \in Nat /\ Tail(rx) \in Seq(Nat)
    BY <1>1, HeadTailProperties DEF PortInv, PortTyped
<1>4. got' \in Seq(Nat) /\ got' \o rx' = got \o rx
    BY <1>1, <1>2, MoveHead DEF PortInv, PortTyped
<1>5. PlatformTypeOK'
    <2>1. turn' \in Core \cup {"intc", "dev"} /\ counter' = counter
        BY DEF Receive, At, Pass, NextTurn, Core
    <2> QED BY <1>2, <2>1 DEF PortInv, PlatformTypeOK, PortBase, GuestInv, PcTyped
<1>6. PortTyped'
    BY <1>2, <1>3, <1>4 DEF PortInv, PortTyped
<1>7. pc'["core0"] \notin Setup
    BY <1>1 DEF PortInv, PlatformTypeOK, QuietSetup, Setup, Core
<1>8. \A k \in Core : pc'[k] # "receive"
    BY <1>1 DEF PortBase, OneHandler, PortInv, PlatformTypeOK, Handler
<1> QED
    BY <1>2, <1>4, <1>5, <1>6, <1>7, <1>8
       DEF PortInv, QuietSetup, ReceivesInput, RxInOrder, TxInOrder

\* The other steps of the guest.
LEMMA GuestKeepsInv ==
    ASSUME PortBase, PortInv, NEW h \in Core,
           \/ Compute(h) \/ SetPriority(h) \/ Route(h) \/ Trap(h) \/ Claim(h) \/ Status(h)
           \/ Complete(h) \/ Mask(h) \/ Unmask(h)
    PROVE  PortInv'
<1>1. QueuesStay
    BY DEF QueuesStay, Compute, SetPriority, Route, Trap, Claim, Status, Complete, Mask, Unmask,
           do_read, uartVars, guestVars
<1>2. PlatformTypeOK'
    <2>1. turn' \in Core \cup {"intc", "dev"} /\ counter' = counter
        BY DEF Compute, SetPriority, Route, Trap, Claim, Status, Complete, Mask, Unmask,
               At, Pass, NextTurn, Core
    <2>2. moves' \in 0 .. MaxMoves
        BY PlatformAssumption
           DEF Compute, SetPriority, Route, Trap, Claim, Status, Complete, Mask, Unmask,
               guestVars, PortInv, PlatformTypeOK
    <2>3. wait_ack' \in BOOLEAN
        BY DEF Compute, SetPriority, Route, Trap, Claim, Status, Complete, Mask, Unmask,
               do_read, uartVars, PortInv, PlatformTypeOK
    <2> QED
        BY <1>1, <2>1, <2>2, <2>3 DEF QueuesStay, PortInv, PlatformTypeOK, PortBase, GuestInv, PcTyped
<1>3. regs' \in [rx_fifo : Nat, tx_fifo : Nat, status : SUBSET {"TX_FIFO_EMPTY", "VALID"},
                 control : SUBSET {"RST_TX", "RST_RX"}]
    <2>1. CASE Status(h)
        <3>1. rx # <<>> => Head(rx) \in Nat
            BY HeadTailProperties DEF PortInv, PortTyped
        <3> QED BY <2>1, <3>1 DEF Status, do_read, PortInv, PortTyped
    <2>2. CASE ~Status(h)
        BY <2>2 DEF Compute, SetPriority, Route, Trap, Claim, Complete, Mask, Unmask, uartVars,
                    PortInv, PortTyped
    <2> QED BY <2>1, <2>2
<1>4. QuietSetup'
    <2>1. CASE pc["core0"] \in Setup
        <3>1. pc["core1"] = "main" /\ claim[Ctx[h]] = 0 /\ (h = "core0" => pc[h] \in Setup)
            BY <2>1, Contexts DEF PortInv, QuietSetup
        <3>2. Compute(h) \/ (h = "core0" /\ (SetPriority(h) \/ Route(h)))
            BY <3>1 DEF SetPriority, Route, Trap, Claim, Status, Complete, Mask, Unmask, At, Core, Setup
        <3>3. UNCHANGED claim /\ (pc' = pc \/ \E there \in {"route", "main"} : pc' = [pc EXCEPT !["core0"] = there])
            BY <3>2 DEF Compute, SetPriority, Route, WritePriority, WriteEnable, Goto, plicVars, guestVars
        <3> QED BY <1>1, <2>1, <3>1, <3>3
               DEF PortInv, PlatformTypeOK, QuietSetup, QueuesStay, Core, Setup
    <2>2. CASE pc["core0"] \notin Setup
        <3>1. pc'["core0"] \notin Setup
            BY <2>2 DEF Compute, SetPriority, Route, Trap, Claim, Status, Complete, Mask, Unmask,
                        At, Goto, Setup, guestVars, PortInv, PlatformTypeOK, Core
        <3> QED BY <3>1 DEF QuietSetup
    <2> QED BY <2>1, <2>2
<1>5. \A k \in Core : pc'[k] = "receive" => rx # <<>>
    <2>1. CASE Status(h)
        BY <2>1 DEF Status, Goto, do_read, PortInv, PortTyped, PlatformTypeOK, ReceivesInput
    <2>2. CASE ~Status(h)
        BY <2>2 DEF Compute, SetPriority, Route, Trap, Claim, Complete, Mask, Unmask, Goto, guestVars,
                    PortInv, PlatformTypeOK, ReceivesInput
    <2> QED BY <2>1, <2>2
<1> QED BY <1>1, <1>2, <1>3, <1>4, <1>5, ControlKeepsInv

LEMMA PortStep ==
    ASSUME PortBase, PortInv, [Next]_vars
    PROVE  PortInv'
<1>1. CASE UNCHANGED vars
    BY <1>1 DEF vars, plicVars, uartVars, guestVars, PortInv, PlatformTypeOK, PortTyped, QuietSetup,
                ReceivesInput, RxInOrder, TxInOrder
<1> QED
    BY <1>1, LoopKeepsInv, DevStepKeepsInv, ResetKeepsInv, TransmitKeepsInv, ReceiveKeepsInv,
       GuestKeepsInv DEF Next, Driver

LEMMA PortInit == Init => PortInv
<1> SUFFICES ASSUME Init PROVE PortInv
    OBVIOUS
<1>1. PlatformTypeOK
    <2>1. 0 \in 0 .. StepPeriod - 1 /\ 0 \in 0 .. MaxMoves /\ 0 \in 0 .. MaxIn /\ 0 \in 0 .. MaxOut
        BY PlatformAssumption
    <2>2. pc \in [Core -> Setup \cup Handler \cup {"main", "claim", "unmask"}]
        BY DEF Init, Core, Setup
    <2> QED BY <2>1, <2>2 DEF Init, UartInit, PlatformTypeOK
<1>2. PortTyped
    BY DEF Init, UartInit, PortTyped
<1>3. QuietSetup /\ ReceivesInput
    BY DEF Init, UartInit, PlicInit, QuietSetup, ReceivesInput, Core
<1>4. RxInOrder /\ TxInOrder
    BY DEF Init, UartInit, RxInOrder, TxInOrder
<1> QED BY <1>1, <1>2, <1>3, <1>4 DEF PortInv

LEMMA PortInvariant == Spec => []PortInv
<1>1. PlicTypeOK /\ GuestInv /\ GuestInv' /\ OneHandler /\ PortInv /\ [Next]_vars => PortInv'
    BY PortStep DEF PortBase
<1> QED BY <1>1, PortInit, Invariants, PortHasOneHandler, PTL DEF Spec

\* The run loop's counter stays below the period of the port, and the guest's
\* code where it can be.
THEOREM PlatformTypeCorrect == Spec => []PlatformTypeOK
BY PortInvariant, PTL DEF PortInv

\* The guest reads each character once and in order: between its read of the
\* status and of the data no other core takes the character away.
THEOREM InputIsOrdered == Spec => []RxInOrder
BY PortInvariant, PTL DEF PortInv

\* The terminal gets what the cores write, each character once and in order.
THEOREM OutputIsOrdered == Spec => []TxInOrder
BY PortInvariant, PTL DEF PortInv
============================================================================
