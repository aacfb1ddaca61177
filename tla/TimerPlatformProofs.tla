------------------------ MODULE TimerPlatformProofs ------------------------
(***************************************************************************)
(* Timers do not expire early and messages are not lost, for any width of  *)
(* the registers, any deadlines and any bounds.                            *)
(***************************************************************************)
EXTENDS TimerPlatform, TLAPS

\* What the compare register holds is what the timer was armed for, but for a
\* high half still to be written.
ArmedFor ==
    \A h \in Core :
        /\ pc[h] # "high" => mtimecmp[h] = deadline[h]
        /\ pc[h] = "high" => mtimecmp[h].lo = deadline[h].lo

\* The line of a core whose turn is still to come this round is up to date:
\* no one else writes its compare register.
Sampled ==
    \A h \in Core :
        turn = h \/ (turn = "core0" /\ h = "core1")
            => mtip[h] = (mtime > Value(mtimecmp[h]))

TimerInv == TimerTypeOK /\ ArmedFor /\ Sampled /\ NotEarly

USE TimerAssumption DEF TimerAssumption

LEMMA ValueNat == \A r \in Register : Value(r) \in Nat
BY ClintAssumption DEF ClintAssumption, Register, Value

LEMMA TypeInit == Init => TimerTypeOK
<1> SUFFICES ASSUME Init PROVE TimerTypeOK
  OBVIOUS
<1>1. [hi |-> 0, lo |-> 0] \in Register
  BY ClintAssumption DEF ClintAssumption, Register
<1>2. ClintTypeOK
  BY <1>1, ClintAssumption DEF ClintAssumption, Init, ClintInit, ClintTypeOK
<1> QED BY <1>1, <1>2 DEF Init, TimerTypeOK, PC, Core

LEMMA TypeNext == TimerTypeOK /\ [Next]_vars => TimerTypeOK'
<1> SUFFICES ASSUME TimerTypeOK, [Next]_vars PROVE TimerTypeOK'
  OBVIOUS
<1> USE DEF TimerTypeOK, ClintTypeOK
<1>1. CASE UpdateIntc
  <2>1. mtime' \in 0 .. MaxTime
    BY <1>1, ClintAssumption DEF ClintAssumption, UpdateIntc, UpdateIntState
  <2>2. \A h \in Core : m_t_irq(h, mtime') \in BOOLEAN /\ m_s_irq(h) \in BOOLEAN
    BY DEF m_t_irq, m_s_irq
  <2>3. mtip' \in [Hart -> BOOLEAN] /\ msipLine' \in [Hart -> BOOLEAN]
    BY <1>1, <2>2 DEF UpdateIntc, UpdateIntState
  <2> QED BY <1>1, <2>1, <2>3 DEF UpdateIntc, UpdateIntState, Pass, NextTurn, guestVars, Core
<1>2. ASSUME NEW h \in Core, Pass(h) PROVE turn' \in Core \cup {"intc"}
  BY <1>2 DEF Pass, NextTurn, Core
<1>3. ASSUME NEW h \in Core, Compute(h) PROVE TimerTypeOK'
  BY <1>2, <1>3 DEF Compute, clintVars, guestVars
<1>4. ASSUME NEW h \in Core, Arm(h) PROVE TimerTypeOK'
  <2>1. PICK r \in Deadline :
          /\ deadline' = [deadline EXCEPT ![h] = r]
          /\ \/ WriteTimecmp(h, r) /\ Goto(h, "enable")
             \/ WriteTimecmpLow(h, r) /\ Goto(h, "high")
    BY <1>4 DEF Arm
  <2>2. r \in Register
    OBVIOUS
  <2>3. [mtimecmp[h] EXCEPT !.lo = r.lo] \in Register
    BY <2>2 DEF Register
  <2>4. /\ mtimecmp' \in [Hart -> Register]
        /\ UNCHANGED <<mtime, msip, mtip, msipLine>>
    BY <2>1, <2>2, <2>3 DEF WriteTimecmp, WriteTimecmpLow
  <2>5. pc' \in [Core -> PC]
    BY <2>1 DEF Goto, PC
  <2>6. arms' \in [Core -> 0 .. MaxArms]
    BY <1>4 DEF Arm
  <2>7. deadline' \in [Core -> Register]
    BY <2>1, <2>2
  <2>8. turn' \in Core \cup {"intc"}
    BY <1>2, <1>4 DEF Arm, At
  <2> QED BY <1>4, <2>4, <2>5, <2>6, <2>7, <2>8 DEF Arm
<1>5. ASSUME NEW h \in Core, ArmHigh(h) PROVE TimerTypeOK'
  <2>1. [mtimecmp[h] EXCEPT !.hi = deadline[h].hi] \in Register
    BY DEF Register
  <2> QED BY <1>2, <1>5, <2>1 DEF ArmHigh, At, Goto, PC, WriteTimecmpHigh, WriteTimecmp
<1>6. ASSUME NEW h \in Core, EnableTimer(h) \/ TrapTimer(h) \/ Expire(h) \/ TrapSoftware(h)
      PROVE  TimerTypeOK'
  BY <1>2, <1>6 DEF EnableTimer, TrapTimer, Expire, TrapSoftware, At, Goto, PC, clintVars
<1>7. ASSUME NEW h \in Core, Post(h) PROVE TimerTypeOK'
  <2>1. Other[h] \in Core /\ sends' \in [Core -> 0 .. MaxSends]
    BY <1>7 DEF Post, Other, Core
  <2> QED BY <1>2, <1>7, <2>1 DEF Post, At, Goto, PC, clintVars
<1>8. ASSUME NEW h \in Core, Raise(h) \/ Lower(h) PROVE TimerTypeOK'
  BY <1>2, <1>8 DEF Raise, Lower, WriteMsip, At, Goto, PC
<1>9. ASSUME NEW h \in Core, Take(h) PROVE TimerTypeOK'
  BY <1>2, <1>9 DEF Take, At, Goto, PC, clintVars
<1>10. CASE UNCHANGED vars
  BY <1>10 DEF vars, clintVars, guestVars
<1> QED BY <1>1, <1>3, <1>4, <1>5, <1>6, <1>7, <1>8, <1>9, <1>10 DEF Next, Driver

\* The registers and the firmware keep their types.
THEOREM TimerTypeCorrect == Spec => []TimerTypeOK
BY TypeInit, TypeNext, PTL DEF Spec

----------------------------------------------------------------------------
LEMMA TimerInvInit == Init => TimerInv
<1> SUFFICES ASSUME Init PROVE TimerInv
  OBVIOUS
<1>1. TimerTypeOK
  BY TypeInit
<1>2. ArmedFor /\ NotEarly /\ Sampled
  BY DEF Init, ClintInit, ArmedFor, NotEarly, Sampled, Core
<1> QED BY <1>1, <1>2 DEF TimerInv

\* The clock does not run backwards and a round's update samples every core.
LEMMA UpdateKeeps == TimerInv /\ UpdateIntc => (ArmedFor /\ Sampled /\ NotEarly)'
<1> SUFFICES ASSUME TimerInv, UpdateIntc PROVE (ArmedFor /\ Sampled /\ NotEarly)'
  OBVIOUS
<1> USE DEF TimerInv, TimerTypeOK, ClintTypeOK
<1>1. /\ mtimecmp' = mtimecmp /\ pc' = pc /\ deadline' = deadline
      /\ mtip' = [h \in Hart |-> mtime' > Value(mtimecmp[h])]
      /\ mtime' = IF mtime < MaxTime THEN mtime + 1 ELSE mtime
  BY DEF UpdateIntc, UpdateIntState, guestVars, m_t_irq
<1>2. mtime' >= mtime /\ mtime \in Nat /\ mtime' \in Nat
  BY <1>1, ClintAssumption DEF ClintAssumption
<1>3. ArmedFor'
  BY <1>1 DEF ArmedFor
<1>4. Sampled'
  BY <1>1 DEF Sampled
<1>5. ASSUME NEW h \in Core, pc[h] = "expired" PROVE mtime' >= Value(deadline[h])
  <2>1. Value(deadline[h]) \in Nat
    BY ValueNat
  <2>2. mtime >= Value(deadline[h])
    BY <1>5 DEF NotEarly
  <2> QED BY <1>2, <2>1, <2>2
<1> QED BY <1>1, <1>3, <1>4, <1>5 DEF NotEarly

\* A core's instruction touches only what is the core's own.
LEMMA CoreKeeps ==
    ASSUME TimerInv, NEW h \in Core,
           turn = h, turn' = NextTurn[h], mtime' = mtime, mtip' = mtip,
           \A k \in Core : k # h => /\ mtimecmp'[k] = mtimecmp[k] /\ pc'[k] = pc[k]
                                    /\ deadline'[k] = deadline[k],
           pc'[h] # "high" => mtimecmp'[h] = deadline'[h],
           pc'[h] = "high" => mtimecmp'[h].lo = deadline'[h].lo,
           pc'[h] = "expired" => mtime >= Value(deadline'[h])
    PROVE  (ArmedFor /\ Sampled /\ NotEarly)'
<1> USE DEF TimerInv
<1>1. ArmedFor'
  BY DEF ArmedFor
<1>2. Sampled'
  <2> SUFFICES ASSUME NEW k \in Core, turn' = k \/ (turn' = "core0" /\ k = "core1")
               PROVE  mtip'[k] = (mtime' > Value(mtimecmp'[k]))
    BY DEF Sampled
  <2>1. h = "core0" /\ k = "core1" /\ turn = "core0"
    BY DEF NextTurn, Core
  <2>2. mtip[k] = (mtime > Value(mtimecmp[k]))
    BY <2>1 DEF Sampled
  <2>3. mtimecmp'[k] = mtimecmp[k]
    BY <2>1
  <2> QED BY <2>2, <2>3
<1>3. NotEarly'
  BY DEF NotEarly
<1> QED BY <1>1, <1>2, <1>3

LEMMA TimerInvNext == TimerInv /\ [Next]_vars => TimerInv'
<1> SUFFICES ASSUME TimerInv, [Next]_vars PROVE (ArmedFor /\ Sampled /\ NotEarly)'
  BY TypeNext DEF TimerInv
<1> USE DEF TimerInv, TimerTypeOK, ClintTypeOK
<1>1. CASE UpdateIntc
  BY <1>1, UpdateKeeps
<1>2. ASSUME NEW h \in Core, Arm(h) PROVE (ArmedFor /\ Sampled /\ NotEarly)'
  <2>1. PICK r \in Deadline :
          /\ deadline' = [deadline EXCEPT ![h] = r]
          /\ \/ WriteTimecmp(h, r) /\ Goto(h, "enable")
             \/ WriteTimecmpLow(h, r) /\ Goto(h, "high")
    BY <1>2 DEF Arm
  <2>2. CASE WriteTimecmp(h, r) /\ Goto(h, "enable")
    BY <1>2, <2>1, <2>2, CoreKeeps DEF Arm, At, Pass, Goto, WriteTimecmp
  <2>3. CASE WriteTimecmpLow(h, r) /\ Goto(h, "high")
    <3>1. mtimecmp'[h].lo = r.lo
      BY <2>3 DEF WriteTimecmpLow, WriteTimecmp, Register
    <3> QED BY <1>2, <2>1, <2>3, <3>1, CoreKeeps DEF Arm, At, Pass, Goto, WriteTimecmpLow, WriteTimecmp
  <2> QED BY <2>1, <2>2, <2>3
<1>3. ASSUME NEW h \in Core, ArmHigh(h) PROVE (ArmedFor /\ Sampled /\ NotEarly)'
  <2>1. mtimecmp[h].lo = deadline[h].lo /\ mtimecmp[h] \in Register /\ deadline[h] \in Register
    BY <1>3 DEF ArmHigh, At, ArmedFor
  <2>2. mtimecmp'[h] = [mtimecmp[h] EXCEPT !.hi = deadline[h].hi]
    BY <1>3 DEF ArmHigh, WriteTimecmpHigh, WriteTimecmp
  <2>3. mtimecmp'[h] = deadline[h]
    BY <2>1, <2>2 DEF Register
  <2> QED BY <1>3, <2>3, CoreKeeps DEF ArmHigh, At, Pass, Goto, WriteTimecmpHigh, WriteTimecmp
<1>4. ASSUME NEW h \in Core, TrapTimer(h) PROVE (ArmedFor /\ Sampled /\ NotEarly)'
  <2>1. mtip[h] /\ turn = h /\ pc[h] = "main"
    BY <1>4 DEF TrapTimer, At, Pass
  <2>2. mtime > Value(mtimecmp[h]) /\ mtimecmp[h] = deadline[h]
    BY <2>1 DEF Sampled, ArmedFor
  <2>3. mtime \in Nat /\ Value(deadline[h]) \in Nat
    BY ValueNat, ClintAssumption DEF ClintAssumption
  <2>4. mtime >= Value(deadline[h])
    BY <2>2, <2>3
  <2> QED BY <1>4, <2>2, <2>4, CoreKeeps DEF TrapTimer, At, Pass, Goto, clintVars
<1>5. ASSUME NEW h \in Core,
             EnableTimer(h) \/ Expire(h) \/ TrapSoftware(h) \/ Post(h) \/ Take(h)
      PROVE  (ArmedFor /\ Sampled /\ NotEarly)'
  <2>1. /\ turn = h /\ turn' = NextTurn[h] /\ pc[h] # "high"
        /\ mtime' = mtime /\ mtip' = mtip /\ mtimecmp' = mtimecmp /\ deadline' = deadline
        /\ \A k \in Core : k # h => pc'[k] = pc[k]
        /\ pc'[h] \notin {"high", "expired"}
    BY <1>5 DEF EnableTimer, Expire, TrapSoftware, Post, Take, At, Pass, Goto, clintVars
  <2>2. mtimecmp[h] = deadline[h]
    BY <2>1 DEF ArmedFor
  <2> QED BY <2>1, <2>2, CoreKeeps
<1>6. ASSUME NEW h \in Core, Raise(h) \/ Lower(h) PROVE (ArmedFor /\ Sampled /\ NotEarly)'
  <2>1. /\ turn = h /\ turn' = NextTurn[h] /\ pc[h] # "high"
        /\ mtime' = mtime /\ mtip' = mtip /\ mtimecmp' = mtimecmp /\ deadline' = deadline
        /\ \A k \in Core : k # h => pc'[k] = pc[k]
        /\ pc'[h] \notin {"high", "expired"}
    BY <1>6 DEF Raise, Lower, WriteMsip, At, Pass, Goto
  <2>2. mtimecmp[h] = deadline[h]
    BY <2>1 DEF ArmedFor
  <2> QED BY <2>1, <2>2, CoreKeeps
<1>7. ASSUME NEW h \in Core, Compute(h) PROVE (ArmedFor /\ Sampled /\ NotEarly)'
  <2>1. /\ turn = h /\ turn' = NextTurn[h] /\ pc' = pc
        /\ mtime' = mtime /\ mtip' = mtip /\ mtimecmp' = mtimecmp /\ deadline' = deadline
    BY <1>7 DEF Compute, Pass, clintVars, guestVars
  <2>2. /\ pc[h] # "high" => mtimecmp[h] = deadline[h]
        /\ pc[h] = "high" => mtimecmp[h].lo = deadline[h].lo
        /\ pc[h] = "expired" => mtime >= Value(deadline[h])
    BY DEF ArmedFor, NotEarly
  <2> QED BY <2>1, <2>2, CoreKeeps
<1>8. CASE UNCHANGED vars
  BY <1>8 DEF vars, clintVars, guestVars, ArmedFor, Sampled, NotEarly
<1> QED BY <1>1, <1>2, <1>3, <1>4, <1>5, <1>6, <1>7, <1>8 DEF Next, Driver

\* A core takes its timer interrupt only once the time it armed has come.
THEOREM TimerIsNotEarly == Spec => []NotEarly
BY TimerInvInit, TimerInvNext, PTL DEF Spec, TimerInv

----------------------------------------------------------------------------
LEMMA MessageNext == TimerTypeOK /\ NoLostMessage /\ [Next]_vars => NoLostMessage'
<1> SUFFICES ASSUME TimerTypeOK, NoLostMessage, [Next]_vars, NEW k \in Core, mailbox'[k]
             PROVE  msip'[k] = 1 \/ pc'[k] = "take" \/ pc'[Other[k]] = "raise"
  BY DEF NoLostMessage
<1> USE DEF TimerTypeOK, ClintTypeOK
<1>1. Other[k] \in Core /\ Other[k] # k /\ \A h \in Core : h # k => h = Other[k] /\ Other[h] = k
  BY DEF Other, Core
<1>2. mailbox[k] => msip[k] = 1 \/ pc[k] = "take" \/ pc[Other[k]] = "raise"
  BY DEF NoLostMessage
<1>3. CASE UpdateIntc
  BY <1>2, <1>3 DEF UpdateIntc, UpdateIntState, guestVars
<1>4. ASSUME NEW h \in Core, Compute(h) \/ TrapTimer(h) \/ TrapSoftware(h) \/ Expire(h) \/ EnableTimer(h)
      PROVE  msip'[k] = 1 \/ pc'[k] = "take" \/ pc'[Other[k]] = "raise"
  BY <1>1, <1>2, <1>4
     DEF Compute, TrapTimer, TrapSoftware, Expire, EnableTimer, At, Goto, clintVars, guestVars
<1>5. ASSUME NEW h \in Core, Arm(h) \/ ArmHigh(h)
      PROVE  msip'[k] = 1 \/ pc'[k] = "take" \/ pc'[Other[k]] = "raise"
  BY <1>1, <1>2, <1>5
     DEF Arm, ArmHigh, At, Goto, WriteTimecmp, WriteTimecmpLow, WriteTimecmpHigh
<1>6. ASSUME NEW h \in Core, Post(h)
      PROVE  msip'[k] = 1 \/ pc'[k] = "take" \/ pc'[Other[k]] = "raise"
  BY <1>1, <1>2, <1>6 DEF Post, At, Goto, clintVars
<1>7. ASSUME NEW h \in Core, Raise(h)
      PROVE  msip'[k] = 1 \/ pc'[k] = "take" \/ pc'[Other[k]] = "raise"
  BY <1>1, <1>2, <1>7 DEF Raise, At, Goto, WriteMsip
<1>8. ASSUME NEW h \in Core, Lower(h)
      PROVE  msip'[k] = 1 \/ pc'[k] = "take" \/ pc'[Other[k]] = "raise"
  BY <1>1, <1>2, <1>8 DEF Lower, At, Goto, WriteMsip
<1>9. ASSUME NEW h \in Core, Take(h)
      PROVE  msip'[k] = 1 \/ pc'[k] = "take" \/ pc'[Other[k]] = "raise"
  BY <1>1, <1>2, <1>9 DEF Take, At, Goto, clintVars
<1>10. CASE UNCHANGED vars
  BY <1>2, <1>10 DEF vars, clintVars, guestVars
<1> QED BY <1>3, <1>4, <1>5, <1>6, <1>7, <1>8, <1>9, <1>10 DEF Next, Driver

\* A message always has an interrupt that announces it.
THEOREM MessageIsNotLost == Spec => []NoLostMessage
<1>1. Init => NoLostMessage
  BY DEF Init, NoLostMessage
<1> QED BY <1>1, MessageNext, TimerTypeCorrect, PTL DEF Spec
============================================================================
