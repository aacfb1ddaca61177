------------------------------ MODULE RVCLInt ------------------------------
(***************************************************************************)
(* The core-local interruptor: the clock, the compare register and the     *)
(* software interrupt bit of each hart, and the two lines UpdateIntState   *)
(* samples from them into the cores once a round.  A compare register is   *)
(* written whole or one half at a time.                                    *)
(***************************************************************************)
EXTENDS Naturals

CONSTANTS
    Hart,       \* harts
    Half,       \* values of half a register (2^32 in the code)
    MaxTime     \* bound: the clock stops here

ASSUME ClintAssumption == Half \in Nat \ {0} /\ MaxTime \in Nat

VARIABLES
    mtime, mtimecmp, msip,    \* the registers
    mtip, msipLine            \* the cores' interrupt bits, as last sampled

clintVars == <<mtime, mtimecmp, msip, mtip, msipLine>>

\* A 64-bit register is two halves.
Register == [hi : 0 .. Half - 1, lo : 0 .. Half - 1]
Value(r) == r.hi * Half + r.lo

ClintTypeOK ==
    /\ mtime \in 0 .. MaxTime
    /\ mtimecmp \in [Hart -> Register]
    /\ msip \in [Hart -> {0, 1}]
    /\ mtip \in [Hart -> BOOLEAN] /\ msipLine \in [Hart -> BOOLEAN]

\* The lines are not sampled yet.
ClintInit ==
    /\ mtime = 0
    /\ mtimecmp = [h \in Hart |-> [hi |-> 0, lo |-> 0]]
    /\ msip = [h \in Hart |-> 0]
    /\ mtip = [h \in Hart |-> FALSE] /\ msipLine = [h \in Hart |-> FALSE]

m_s_irq(h) == msip[h] = 1

\* Mutant: the line is up for one tick only.
m_t_irq_pulse(h, time) == time = Value(mtimecmp[h]) + 1

m_t_irq(h, time) == time > Value(mtimecmp[h])

\* Mutant: a line that is up is not lowered.
UpdateIntStateSticky ==
    /\ mtime' = IF mtime < MaxTime THEN mtime + 1 ELSE mtime
    /\ mtip' = [h \in Hart |-> mtip[h] \/ m_t_irq(h, mtime')]
    /\ msipLine' = [h \in Hart |-> msipLine[h] \/ m_s_irq(h)]
    /\ UNCHANGED <<mtimecmp, msip>>

\* Mutant: only the first hart's software interrupt reaches its core.
UpdateIntStateCore0 ==
    /\ mtime' = IF mtime < MaxTime THEN mtime + 1 ELSE mtime
    /\ mtip' = [h \in Hart |-> m_t_irq(h, mtime')]
    /\ msipLine' = [h \in Hart |-> h = "core0" /\ m_s_irq(h)]
    /\ UNCHANGED <<mtimecmp, msip>>

\* A tick, then both lines of every hart.
UpdateIntState ==
    /\ mtime' = IF mtime < MaxTime THEN mtime + 1 ELSE mtime
    /\ mtip' = [h \in Hart |-> m_t_irq(h, mtime')]
    /\ msipLine' = [h \in Hart |-> m_s_irq(h)]
    /\ UNCHANGED <<mtimecmp, msip>>

WriteTimecmp(h, r) ==
    /\ mtimecmp' = [mtimecmp EXCEPT ![h] = r]
    /\ UNCHANGED <<mtime, msip, mtip, msipLine>>

WriteTimecmpHigh(h, r) == WriteTimecmp(h, [mtimecmp[h] EXCEPT !.hi = r.hi])
WriteTimecmpLow(h, r) == WriteTimecmp(h, [mtimecmp[h] EXCEPT !.lo = r.lo])

\* Mutant: the write covers the bits of all harts.
WriteMsipAll(h, bit) ==
    /\ msip' = [k \in Hart |-> bit]
    /\ UNCHANGED <<mtime, mtimecmp, mtip, msipLine>>

WriteMsip(h, bit) ==
    /\ msip' = [msip EXCEPT ![h] = bit]
    /\ UNCHANGED <<mtime, mtimecmp, mtip, msipLine>>
============================================================================
