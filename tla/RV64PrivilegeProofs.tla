------------------------ MODULE RV64PrivilegeProofs ------------------------
(***************************************************************************)
(* Traps and privilege for every guest: any code, any CSR values, any      *)
(* interrupt lines.                                                        *)
(***************************************************************************)
EXTENDS RV64Privilege, TLAPS

\* The inductive invariant: what each place in Step_CoreAPI may assume.
\* needTrap and illegal are never both set, which is why a second raiseTrap
\* never meets a first one.
Stages ==
    /\ phase = "idle" => ~needTrap /\ ~illegal
    /\ phase = "exec" => /\ ~needTrap /\ ~illegal /\ took = NoTrap
                         /\ nextPrivMode = currentPrivMode
    /\ phase = "epilogue" => /\ illegal => ~needTrap
                             /\ ~needTrap => took = NoTrap
                                             /\ nextPrivMode = currentPrivMode
                             /\ took # NoTrap => Entered(trapProgramCounter)
                                                 /\ Unmasked
                             /\ took = NoTrap => nextPrivMode <= currentPrivMode

IInv ==
    /\ TypeOK /\ Stages
    /\ OneTrapPerStep /\ TrapEntry /\ RiseOnlyByTrap /\ InterruptGate
    /\ MachineInterruptServed

----------------------------------------------------------------------------
\* bits_to_int_type returns one of the bits it is given.
LEMMA ChosenInterrupt ==
    ASSUME NEW s \in SUBSET M_MODE_INT_MASK, s # {}
    PROVE  bits_to_int_type(s) \in s
<1> DEFINE First(i) == Priority[i] \in s /\ \A j \in 1 .. i - 1 : Priority[j] \notin s
<1>1. Priority[1] = 11 /\ Priority[2] = 3 /\ Priority[3] = 7 /\ Priority[4] = 9
      /\ Priority[5] = 1 /\ Priority[6] = 5
  BY DEF Priority
<1>2. \E i \in 1 .. 6 : Priority[i] \in s
  <2>1. PICK x \in s : x \in {1, 3, 5, 7, 9, 11}
    BY DEF M_MODE_INT_MASK
  <2>2. \E i \in 1 .. 6 : Priority[i] = x
    BY <1>1, <2>1
  <2>3. QED
    BY <2>1, <2>2
<1>3. \E i \in 1 .. 6 : First(i)
  BY <1>2
<1>4. QED
  BY <1>3 DEF bits_to_int_type

\* A trap vector is an address.
LEMMA VectorType ==
    ASSUME NEW tvec \in Tvec, NEW c \in Cause PROVE Vector(tvec, c) \in Nat
  BY DEF Tvec, Cause, Vector

\* raiseTrap, called from mode priv with the new mip, sets up the handler.
LEMMA RaiseTrapEnters ==
    ASSUME TypeOK, NEW priv \in PrivMode, NEW c \in Cause,
           NEW pending \in SUBSET M_MODE_INT_MASK,
           raiseTrap(priv, c, pending), currentPrivMode' = priv,
           c.interrupt => c.cause \in pending \cap csr.mie
                          /\ (priv = M_MODE => csr.status.mie)
                          /\ (priv \in {S_MODE, H_MODE} /\ c.cause \in csr.mideleg
                                => csr.status.sie)
    PROVE  /\ csr' \in CSRs /\ nextPrivMode' \in PrivMode
           /\ trapProgramCounter' \in Nat /\ needTrap' = TRUE
           /\ took' \in [to : PrivMode, cause : Cause] /\ took' # NoTrap
           /\ Entered(trapProgramCounter)' /\ Unmasked'
           /\ aborted' = aborted
<1>0. csr \in CSRs /\ csr.status \in Status /\ currentProgramCounter \in Nat
  BY DEF TypeOK, CSRs
<1>1. csr' = TrapCSRs(priv, c, pending) /\ nextPrivMode' = TrapDest(priv, c)
      /\ trapProgramCounter' = TrapVector(priv, c)
      /\ took' = [to |-> TrapDest(priv, c), cause |-> c]
      /\ needTrap' = TRUE /\ aborted' = aborted
  BY DEF raiseTrap
<1>2. TrapDest(priv, c) \in {S_MODE, M_MODE}
  BY DEF TrapDest
<1>3. trapProgramCounter' \in Nat
  BY <1>0, <1>1, VectorType DEF TrapVector, CSRs
<1>4. took' \in [to : PrivMode, cause : Cause] /\ took' # NoTrap
  BY <1>1, <1>2, GuestAssumption DEF PrivMode, S_MODE, M_MODE
<1>5. CASE TrapDest(priv, c) = S_MODE
  <2>1. priv # M_MODE
        /\ c.cause \in IF c.interrupt THEN csr.mideleg ELSE csr.medeleg
    BY <1>5 DEF TrapDest, S_MODE, M_MODE
  <2>2. csr' = [csr EXCEPT !.mip = pending, !.sepc = currentProgramCounter,
                           !.status = [csr.status EXCEPT !.spie = csr.status.sie,
                                                         !.sie = FALSE,
                                                         !.spp = priv % 2]]
    BY <1>0, <1>1, <1>5 DEF TrapCSRs, CSRs, Status
  <2>3. priv % 2 \in {0, 1} /\ (priv # H_MODE => priv % 2 = priv)
    BY <2>1 DEF PrivMode, U_MODE, S_MODE, H_MODE, M_MODE
  <2>4. csr' \in CSRs
    BY <1>0, <2>2, <2>3 DEF CSRs, Status, U_MODE, S_MODE
  <2>5. /\ csr'.mip = pending /\ csr'.mie = csr.mie /\ csr'.stvec = csr.stvec
        /\ csr'.mideleg = csr.mideleg /\ csr'.medeleg = csr.medeleg
        /\ csr'.status.sie = FALSE /\ csr'.status.spie = csr.status.sie
        /\ csr'.status.spp = priv % 2
    BY <1>0, <2>2 DEF CSRs, Status
  <2>6. Entered(trapProgramCounter)'
    BY <1>1, <1>5, <2>1, <2>3, <2>5 DEF Entered, TrapVector, S_MODE, M_MODE
  <2>7. Unmasked'
    BY <1>1, <1>5, <2>1, <2>5
       DEF Unmasked, PrivMode, U_MODE, S_MODE, H_MODE, M_MODE
  <2>8. QED
    BY <1>1, <1>2, <1>3, <1>4, <2>4, <2>6, <2>7 DEF PrivMode
<1>6. CASE TrapDest(priv, c) = M_MODE
  <2>1. csr' = [csr EXCEPT !.mip = pending, !.mepc = currentProgramCounter,
                           !.status = [csr.status EXCEPT !.mpie = csr.status.mie,
                                                         !.mie = FALSE,
                                                         !.mpp = priv]]
    BY <1>0, <1>1, <1>6 DEF TrapCSRs, CSRs, Status, S_MODE, M_MODE
  <2>2. csr' \in CSRs
    BY <1>0, <2>1 DEF CSRs, Status
  <2>3. /\ csr'.mip = pending /\ csr'.mie = csr.mie /\ csr'.mtvec = csr.mtvec
        /\ csr'.status.mie = FALSE /\ csr'.status.mpie = csr.status.mie
        /\ csr'.status.mpp = priv
    BY <1>0, <2>1 DEF CSRs, Status
  <2>4. Entered(trapProgramCounter)'
    BY <1>1, <1>6, <2>3 DEF Entered, TrapVector, S_MODE, M_MODE
  <2>5. Unmasked'
    BY <1>1, <1>6, <2>3
       DEF Unmasked, PrivMode, U_MODE, S_MODE, H_MODE, M_MODE
  <2>6. QED
    BY <1>1, <1>2, <1>3, <1>4, <2>2, <2>4, <2>5 DEF PrivMode
<1>7. QED
  BY <1>2, <1>5, <1>6

----------------------------------------------------------------------------
LEMMA InitIInv == Init => IInv
<1> SUFFICES ASSUME Init PROVE IInv
  OBVIOUS
<1>1. ZeroStatus \in Status /\ ZeroTvec \in Tvec
  BY DEF ZeroStatus, ZeroTvec, Status, Tvec, PrivMode, U_MODE, S_MODE
<1>2. csr \in CSRs
  BY <1>1 DEF Init, CSRs
<1>3. TypeOK
  BY <1>2, GuestAssumption DEF Init, TypeOK, PrivMode, M_MODE
<1>4. QED
  BY <1>3 DEF Init, IInv, Stages, OneTrapPerStep, TrapEntry, RiseOnlyByTrap,
              InterruptGate, MachineInterruptServed, PrivMode, M_MODE

\* An assertion that fails ends the emulator with the rest of the state intact.
LEMMA AbortKeeps ==
    ASSUME IInv, NEW why \in {"vector_pagefault", "mtvec_mode"}, Abort(why)
    PROVE  IInv'
  BY DEF IInv, TypeOK, Stages, OneTrapPerStep, TrapEntry, Entered, RiseOnlyByTrap,
         InterruptGate, Unmasked, MachineInterruptServed, Abort

\* raiseTrap at any of its call sites leads to the epilogue.
LEMMA RaiseTrapKeeps ==
    ASSUME IInv, NEW priv \in PrivMode, NEW c \in Cause,
           NEW pending \in SUBSET M_MODE_INT_MASK,
           raiseTrap(priv, c, pending), currentPrivMode' = priv,
           c.interrupt => c.cause \in pending \cap csr.mie
                          /\ (priv = M_MODE => csr.status.mie)
                          /\ (priv \in {S_MODE, H_MODE} /\ c.cause \in csr.mideleg
                                => csr.status.sie),
           phase' = "epilogue", illegal' = FALSE,
           currentProgramCounter' = currentProgramCounter
    PROVE  IInv'
<1>1. TypeOK
  BY DEF IInv
<1>2. /\ csr' \in CSRs /\ nextPrivMode' \in PrivMode
      /\ trapProgramCounter' \in Nat /\ needTrap' = TRUE
      /\ took' \in [to : PrivMode, cause : Cause] /\ took' # NoTrap
      /\ Entered(trapProgramCounter)' /\ Unmasked'
      /\ aborted' = aborted
  BY <1>1, RaiseTrapEnters
<1>3. TypeOK'
  BY <1>1, <1>2 DEF TypeOK
<1>4. Stages'
  BY <1>2 DEF Stages
<1>5. QED
  BY <1>2, <1>3, <1>4
     DEF IInv, OneTrapPerStep, TrapEntry, RiseOnlyByTrap, InterruptGate,
         MachineInterruptServed

\* An exception of the fetch, the instruction or the block after `exception'
\* finds needTrap clear.
LEMMA RaiseExceptionKeeps ==
    ASSUME IInv, NEW n, Exception(n) \in Cause, NEW tval, RaiseException(n, tval),
           phase = "exec" \/ (phase = "epilogue" /\ illegal)
    PROVE  IInv'
<1>1. ~needTrap
  BY DEF IInv, Stages
<1>2. TypeOK /\ currentPrivMode \in PrivMode /\ csr.mip \in SUBSET M_MODE_INT_MASK
  BY DEF IInv, TypeOK, CSRs
<1>3. ~Exception(n).interrupt
  BY DEF Exception
<1>4. CASE Abort("vector_pagefault")
  BY <1>4, AbortKeeps
<1>5. CASE /\ raiseTrap(currentPrivMode, Exception(n), csr.mip)
           /\ phase' = "epilogue"
           /\ illegal' = FALSE
           /\ UNCHANGED <<currentPrivMode, currentProgramCounter>>
  BY <1>2, <1>3, <1>5, RaiseTrapKeeps
<1>6. QED
  BY <1>1, <1>4, <1>5 DEF RaiseException

\* An instruction that changes at most the CSRs, or marks itself illegal.
LEMMA InstructionKeeps ==
    ASSUME IInv, Executing, phase' = "epilogue", csr' \in CSRs,
           illegal' \in BOOLEAN,
           UNCHANGED <<currentPrivMode, nextPrivMode, currentProgramCounter,
                       trapProgramCounter, needTrap, took, aborted>>
    PROVE  IInv'
<1>1. ~needTrap /\ took = NoTrap /\ nextPrivMode = currentPrivMode
  BY DEF IInv, Stages, Executing
<1>2. TypeOK'
  BY DEF IInv, TypeOK
<1>3. Stages'
  BY <1>1, <1>2 DEF Stages, TypeOK, PrivMode, U_MODE, S_MODE, H_MODE, M_MODE
<1>4. QED
  BY <1>1, <1>2, <1>3
     DEF IInv, OneTrapPerStep, TrapEntry, RiseOnlyByTrap, InterruptGate,
         MachineInterruptServed

LEMMA IllegalKeeps ==
    ASSUME IInv, Executing, MarkIllegal PROVE IInv'
<1>1. csr' \in CSRs
  BY DEF MarkIllegal, IInv, TypeOK
<1>2. QED
  BY <1>1, InstructionKeeps DEF MarkIllegal

LEMMA CompleteKeeps ==
    ASSUME IInv, Complete PROVE IInv'
<1>1. csr' \in CSRs /\ illegal' \in BOOLEAN
  BY DEF Complete, IInv, TypeOK
<1>2. QED
  BY <1>1, InstructionKeeps DEF Complete

LEMMA CSRInstrKeeps ==
    ASSUME IInv, NEW c, NEW new \in CSRs, CSRInstr(c, new) PROVE IInv'
<1>1. Executing
  BY DEF CSRInstr
<1>2. CASE MarkIllegal
  BY <1>1, <1>2, IllegalKeeps
<1>3. CASE /\ csr' = new
           /\ phase' = "epilogue"
           /\ UNCHANGED <<currentPrivMode, nextPrivMode, currentProgramCounter,
                          trapProgramCounter, needTrap, illegal, took, aborted>>
  <2>1. csr' \in CSRs /\ illegal' \in BOOLEAN
    BY <1>3 DEF IInv, TypeOK
  <2>2. QED
    BY <1>1, <1>3, <2>1, InstructionKeeps
<1>4. QED
  BY <1>2, <1>3 DEF CSRInstr

\* mret and sret lead to a mode no higher than the one they run in.
LEMMA ReturnKeeps ==
    ASSUME IInv, Executing, NEW newcsr \in CSRs, NEW mode \in PrivMode,
           NEW pc \in Nat, mode <= currentPrivMode, Return(newcsr, mode, pc)
    PROVE  IInv'
<1>1. TypeOK'
  BY DEF IInv, TypeOK, Return
<1>2. Stages'
  BY DEF IInv, Stages, Executing, Return
<1>3. QED
  BY <1>1, <1>2
     DEF IInv, OneTrapPerStep, TrapEntry, RiseOnlyByTrap, InterruptGate,
         MachineInterruptServed, Return

LEMMA MretKeeps ==
    ASSUME IInv, mret PROVE IInv'
<1>1. Executing
  BY DEF mret
<1>2. CASE currentPrivMode # M_MODE
  BY <1>1, <1>2, IllegalKeeps DEF mret
<1>3. CASE currentPrivMode = M_MODE
  <2>1. csr \in CSRs /\ csr.status \in Status
    BY DEF IInv, TypeOK, CSRs
  <2>2. csr.status.mpp \in PrivMode /\ csr.mepc \in Nat
    BY <2>1 DEF Status, CSRs
  <2>3. csr.status.mpp <= currentPrivMode
    BY <1>3, <2>2 DEF PrivMode, U_MODE, S_MODE, H_MODE, M_MODE
  <2>4. mretCSRs \in CSRs
    BY <2>1 DEF mretCSRs, CSRs, Status, PrivMode
  <2>5. Return(mretCSRs, csr.status.mpp, csr.mepc)
    BY <1>3 DEF mret
  <2>6. QED
    BY <1>1, <2>2, <2>3, <2>4, <2>5, ReturnKeeps
<1>4. QED
  BY <1>2, <1>3

LEMMA SretKeeps ==
    ASSUME IInv, sret PROVE IInv'
<1>1. Executing
  BY DEF sret
<1>2. CASE currentPrivMode < S_MODE \/ csr.status.tsr
  BY <1>1, <1>2, IllegalKeeps DEF sret
<1>3. CASE ~(currentPrivMode < S_MODE \/ csr.status.tsr)
  <2>1. csr \in CSRs /\ csr.status \in Status /\ currentPrivMode \in PrivMode
    BY DEF IInv, TypeOK, CSRs
  <2>2. csr.status.spp \in {U_MODE, S_MODE} /\ csr.sepc \in Nat
    BY <2>1 DEF Status, CSRs
  <2>3. csr.status.spp \in PrivMode /\ csr.status.spp <= currentPrivMode
    BY <1>3, <2>1, <2>2 DEF PrivMode, U_MODE, S_MODE, H_MODE, M_MODE
  <2>4. sretCSRs \in CSRs
    BY <2>1 DEF sretCSRs, CSRs, Status
  <2>5. Return(sretCSRs, csr.status.spp, csr.sepc)
    BY <1>3 DEF sret
  <2>6. QED
    BY <1>1, <2>2, <2>3, <2>4, <2>5, ReturnKeeps
<1>4. QED
  BY <1>2, <1>3

LEMMA ExecCSRKeeps ==
    ASSUME IInv, ExecCSR PROVE IInv'
<1>0. csr \in CSRs /\ csr.status \in Status /\ csr.mie \in SUBSET M_MODE_INT_MASK
      /\ csr.mip \in SUBSET M_MODE_INT_MASK
  BY DEF IInv, TypeOK, CSRs
<1>1. CASE \E v \in GuestStatus : WriteStatus(v)
  <2>1. PICK v \in GuestStatus : WriteStatus(v)
    BY <1>1
  <2>2. v \in Status
    BY GuestAssumption
  <2>3. [csr EXCEPT !.status = v] \in CSRs
    BY <1>0, <2>2 DEF CSRs
  <2>4. [csr.status EXCEPT !.sie = v.sie, !.spie = v.spie, !.spp = v.spp] \in Status
    BY <1>0, <2>2 DEF Status
  <2>5. [csr EXCEPT !.status = [@ EXCEPT !.sie = v.sie, !.spie = v.spie,
                                         !.spp = v.spp]] \in CSRs
    BY <1>0, <2>4 DEF CSRs
  <2>6. QED
    BY <2>1, <2>3, <2>5, CSRInstrKeeps DEF WriteStatus
<1>2. CASE \E v \in GuestExc : WriteExc(v)
  <2>1. PICK v \in GuestExc : WriteExc(v)
    BY <1>2
  <2>2. [csr EXCEPT !.medeleg = v \cap S_MODE_EXC_MASK] \in CSRs
    BY <1>0 DEF CSRs
  <2>3. QED
    BY <2>1, <2>2, CSRInstrKeeps DEF WriteExc
<1>3. CASE \E v \in GuestInt : WriteInt(v)
  <2>1. PICK v \in GuestInt : WriteInt(v)
    BY <1>3
  <2>2. /\ [csr EXCEPT !.mideleg = v \cap S_MODE_INT_MASK] \in CSRs
        /\ [csr EXCEPT !.mie = v \cap M_MODE_INT_MASK] \in CSRs
        /\ [csr EXCEPT !.mip = v \cap M_MODE_INT_MASK] \in CSRs
    BY <1>0 DEF CSRs
  <2>3. Supervisor(csr.mie, v) \in SUBSET M_MODE_INT_MASK
        /\ Supervisor(csr.mip, v) \in SUBSET M_MODE_INT_MASK
    BY <1>0 DEF Supervisor, S_MODE_INT_MASK, M_MODE_INT_MASK
  <2>4. /\ [csr EXCEPT !.mie = Supervisor(csr.mie, v)] \in CSRs
        /\ [csr EXCEPT !.mip = Supervisor(csr.mip, v)] \in CSRs
    BY <1>0, <2>3 DEF CSRs
  <2>5. QED
    BY <2>1, <2>2, <2>4, CSRInstrKeeps DEF WriteInt
<1>4. CASE \E v \in GuestTvec : WriteTvec(v)
  <2>1. PICK v \in GuestTvec : WriteTvec(v)
    BY <1>4
  <2>2. v \in Tvec /\ [v EXCEPT !.mode = IF @ > 1 THEN 0 ELSE @] \in Tvec
    BY GuestAssumption DEF Tvec
  <2>3. [csr EXCEPT !.mtvec = v] \in CSRs
    BY <1>0, <2>2 DEF CSRs
  <2>4. [csr EXCEPT !.stvec = [v EXCEPT !.mode = IF @ > 1 THEN 0 ELSE @]] \in CSRs
    BY <1>0, <2>2 DEF CSRs
  <2>5. CASE Executing /\ Abort("mtvec_mode")
    BY <2>5, AbortKeeps
  <2>6. CASE Executing /\ MarkIllegal
    BY <2>6, IllegalKeeps
  <2>7. QED
    BY <2>1, <2>3, <2>4, <2>5, <2>6, CSRInstrKeeps DEF WriteTvec
<1>5. CASE \E v \in GuestEpc : WriteEpc(v)
  <2>1. PICK v \in GuestEpc : WriteEpc(v)
    BY <1>5
  <2>2. v \in Nat
    BY GuestAssumption
  <2>3. [csr EXCEPT !.mepc = v] \in CSRs /\ [csr EXCEPT !.sepc = v] \in CSRs
    BY <1>0, <2>2 DEF CSRs
  <2>4. QED
    BY <2>1, <2>3, CSRInstrKeeps DEF WriteEpc
<1>6. CASE \E v \in GuestSatp : WriteSatp(v)
  <2>1. PICK v \in GuestSatp : WriteSatp(v)
    BY <1>6
  <2>2. [csr EXCEPT !.satp = v] \in CSRs
    BY <1>0 DEF CSRs
  <2>3. QED
    BY <2>1, <2>2, CSRInstrKeeps DEF WriteSatp
<1>7. QED
  BY <1>1, <1>2, <1>3, <1>4, <1>5, <1>6 DEF ExecCSR

\* preExec: what it may take satisfies what raiseTrap relies on, and where it
\* takes nothing an unserved machine interrupt is one it hides.
LEMMA PreExecKeeps ==
    ASSUME IInv, preExec PROVE IInv'
<1>1. PICK lines \in Lines :
          LET pending == (csr.mip \cap {1, 5}) \cup lines
              priv == nextPrivMode
              bits == Takeable(priv, pending \cap csr.mie)
          IN  /\ currentPrivMode' = priv
              /\ IF bits # {}
                 THEN /\ raiseTrap(priv, Interrupt(bits_to_int_type(bits)), pending)
                      /\ phase' = "epilogue"
                 ELSE /\ csr' = [csr EXCEPT !.mip = pending]
                      /\ needTrap' = FALSE
                      /\ took' = NoTrap
                      /\ phase' = "exec"
                      /\ UNCHANGED <<nextPrivMode, trapProgramCounter, aborted>>
  BY DEF preExec
<1> DEFINE pending == (csr.mip \cap {1, 5}) \cup lines
           bits == Takeable(nextPrivMode, pending \cap csr.mie)
<1>2. /\ phase = "idle" /\ ~illegal
      /\ currentProgramCounter' = currentProgramCounter /\ illegal' = illegal
  BY DEF preExec, IInv, Stages
<1>3. csr \in CSRs /\ nextPrivMode \in PrivMode /\ illegal \in BOOLEAN
  BY DEF IInv, TypeOK
<1>4. pending \in SUBSET M_MODE_INT_MASK
  BY GuestAssumption DEF M_MODE_INT_MASK
<1>5. bits \subseteq pending \cap csr.mie
  BY DEF Takeable
<1>6. nextPrivMode = M_MODE => bits = {} \/ csr.status.mie
  BY DEF Takeable
<1>7. nextPrivMode \in {S_MODE, H_MODE} /\ bits \cap csr.mideleg # {} => csr.status.sie
  BY <1>5 DEF Takeable, S_MODE, H_MODE, M_MODE
<1>8. CASE bits # {}
  <2> DEFINE c == Interrupt(bits_to_int_type(bits))
  <2>1. bits_to_int_type(bits) \in bits
    BY <1>4, <1>5, <1>8, ChosenInterrupt
  <2>2. c \in Cause /\ c.interrupt /\ c.cause \in bits
    BY <1>4, <1>5, <2>1 DEF Interrupt, Cause, M_MODE_INT_MASK
  <2>3. c.cause \in pending \cap csr.mie
    BY <1>5, <2>2
  <2>4. /\ currentPrivMode' = nextPrivMode /\ raiseTrap(nextPrivMode, c, pending)
        /\ phase' = "epilogue"
    BY <1>1, <1>8
  <2> HIDE DEF bits, pending, c
  <2>5. QED
    BY <1>2, <1>3, <1>4, <1>6, <1>7, <1>8, <2>2, <2>3, <2>4, RaiseTrapKeeps
<1>9. CASE bits = {}
  <2>1. /\ csr' = [csr EXCEPT !.mip = pending] /\ currentPrivMode' = nextPrivMode
        /\ needTrap' = FALSE /\ took' = NoTrap /\ phase' = "exec"
        /\ UNCHANGED <<nextPrivMode, trapProgramCounter, aborted>>
    BY <1>1, <1>9
  <2>2. csr' \in CSRs
    BY <1>3, <1>4, <2>1 DEF CSRs
  <2>3. csr'.mip = pending /\ csr'.mie = csr.mie /\ csr'.mideleg = csr.mideleg
        /\ csr'.status = csr.status
    BY <1>3, <2>1 DEF CSRs
  <2>4. TypeOK'
    BY <1>2, <1>3, <2>1, <2>2 DEF IInv, TypeOK
  <2>5. Stages'
    BY <1>2, <2>1 DEF Stages
  <2>6. MachineInterruptServed'
    <3>1. SUFFICES ASSUME nextPrivMode < M_MODE,
                          (pending \cap csr.mie) \ csr.mideleg # {}
                   PROVE  /\ nextPrivMode >= S_MODE /\ ~csr.status.sie
                          /\ pending \cap csr.mie \cap csr.mideleg # {}
      BY <2>1, <2>3 DEF MachineInterruptServed
    <3>2. nextPrivMode # M_MODE /\ pending \cap csr.mie # {}
      BY <3>1, <1>3 DEF M_MODE
    <3>3. pending \cap csr.mie \cap csr.mideleg # {}
          /\ ~(nextPrivMode < S_MODE \/ csr.status.sie)
      BY <1>9, <3>2 DEF Takeable
    <3>4. QED
      BY <3>3, <1>3 DEF PrivMode, U_MODE, S_MODE, H_MODE, M_MODE
  <2>7. QED
    BY <2>1, <2>4, <2>5, <2>6
       DEF IInv, OneTrapPerStep, TrapEntry, RiseOnlyByTrap, InterruptGate
<1>10. QED
  BY <1>8, <1>9

LEMMA EpilogueEndKeeps ==
    ASSUME IInv, EpilogueEnd PROVE IInv'
<1>1. TypeOK'
  BY GuestAssumption DEF EpilogueEnd, IInv, TypeOK
<1>2. Stages'
  BY DEF EpilogueEnd, Stages
<1>3. took # NoTrap => needTrap /\ Entered(trapProgramCounter) /\ Unmasked
  BY DEF EpilogueEnd, IInv, TypeOK, Stages
<1>4. TrapEntry' /\ InterruptGate'
  BY <1>3 DEF EpilogueEnd, TrapEntry, InterruptGate, Entered, Unmasked
<1>5. RiseOnlyByTrap'
  <2>1. took = NoTrap => nextPrivMode <= currentPrivMode
    BY DEF EpilogueEnd, IInv, Stages
  <2>2. took # NoTrap => took.to = nextPrivMode
    BY <1>3 DEF Entered
  <2>3. currentPrivMode \in Int /\ nextPrivMode \in Int
    BY DEF IInv, TypeOK, PrivMode, U_MODE, S_MODE, H_MODE, M_MODE
  <2>4. QED
    BY <2>1, <2>2, <2>3 DEF EpilogueEnd, RiseOnlyByTrap
<1>6. QED
  BY <1>1, <1>2, <1>4, <1>5
     DEF EpilogueEnd, IInv, OneTrapPerStep, MachineInterruptServed

LEMMA Inductive == IInv /\ [Next]_vars => IInv'
<1> SUFFICES ASSUME IInv, [Next]_vars PROVE IInv'
  OBVIOUS
<1>1. CASE preExec
  BY <1>1, PreExecKeeps
<1>2. CASE FetchFault
  <2>1. PICK n \in {0, 1, 12} : RaiseException(n, currentProgramCounter)
    BY <1>2 DEF FetchFault
  <2>2. Exception(n) \in Cause /\ phase = "exec"
    BY <1>2 DEF FetchFault, Executing, Exception, Cause
  <2>3. QED
    BY <2>1, <2>2, RaiseExceptionKeeps
<1>3. CASE ExecFault
  <2>1. PICK n \in Faults : RaiseException(n, 0)
    BY <1>3 DEF ExecFault
  <2>2. Exception(n) \in Cause /\ phase = "exec"
    BY <1>3, GuestAssumption DEF ExecFault, Executing, Exception, Cause
  <2>3. QED
    BY <2>1, <2>2, RaiseExceptionKeeps
<1>4. CASE ecall
  <2>1. Exception(currentPrivMode + 8) \in Cause
    BY DEF IInv, TypeOK, PrivMode, U_MODE, S_MODE, H_MODE, M_MODE, Exception, Cause
  <2>2. phase = "exec" /\ RaiseException(currentPrivMode + 8, 0)
    BY <1>4 DEF ecall, Executing
  <2>3. QED
    BY <2>1, <2>2, RaiseExceptionKeeps
<1>5. CASE Complete
  BY <1>5, CompleteKeeps
<1>6. CASE ExecIllegal
  BY <1>6, IllegalKeeps DEF ExecIllegal
<1>7. CASE mret
  BY <1>7, MretKeeps
<1>8. CASE sret
  BY <1>8, SretKeeps
<1>9. CASE sfence_vma
  BY <1>9, IllegalKeeps, CompleteKeeps DEF sfence_vma
<1>10. CASE ExecCSR
  BY <1>10, ExecCSRKeeps
<1>11. CASE EpilogueIllegal
  <2>1. Exception(2) \in Cause
    BY DEF Exception, Cause
  <2>2. QED
    BY <1>11, <2>1, RaiseExceptionKeeps DEF EpilogueIllegal
<1>12. CASE EpilogueEnd
  BY <1>12, EpilogueEndKeeps
<1>13. CASE UNCHANGED vars
  BY <1>13
     DEF vars, IInv, TypeOK, Stages, OneTrapPerStep, TrapEntry, Entered,
         RiseOnlyByTrap, InterruptGate, Unmasked, MachineInterruptServed
<1>14. QED
  BY <1>1, <1>2, <1>3, <1>4, <1>5, <1>6, <1>7, <1>8, <1>9, <1>10, <1>11, <1>12,
     <1>13 DEF Next

LEMMA Invariance == Spec => []IInv
  BY InitIInv, Inductive, PTL DEF Spec

----------------------------------------------------------------------------
\* The types of TypeOK, for all guests.
THEOREM TypeCorrect == Spec => []TypeOK
<1>1. IInv => TypeOK
  BY DEF IInv
<1>2. QED
  BY Invariance, <1>1, PTL

\* raiseTrap is never entered twice in one step: its first assertion holds.
THEOREM NoSecondTrap == Spec => []OneTrapPerStep
<1>1. IInv => OneTrapPerStep
  BY DEF IInv
<1>2. QED
  BY Invariance, <1>1, PTL

\* After a step that trapped the core stands at its handler with interrupts of
\* that mode off and the return registers set (raiseTrap).
THEOREM HandlerEntered == Spec => []TrapEntry
<1>1. IInv => TrapEntry
  BY DEF IInv
<1>2. QED
  BY Invariance, <1>1, PTL

\* Privilege rises in raiseTrap only: mret and sret never raise it.
THEOREM PrivilegeRises == Spec => []RiseOnlyByTrap
<1>1. IInv => RiseOnlyByTrap
  BY DEF IInv
<1>2. QED
  BY Invariance, <1>1, PTL

\* preExec takes no interrupt that is masked, disabled or not pending.
THEOREM InterruptsGated == Spec => []InterruptGate
<1>1. IInv => InterruptGate
  BY DEF IInv
<1>2. QED
  BY Invariance, <1>1, PTL

\* preExec leaves a machine interrupt waiting below M_MODE only behind a masked
\* delegated one.
THEOREM MachineInterruptTaken == Spec => []MachineInterruptServed
<1>1. IInv => MachineInterruptServed
  BY DEF IInv
<1>2. QED
  BY Invariance, <1>1, PTL

----------------------------------------------------------------------------
\* A trap into S_MODE leaves the machine's state alone.
LEMMA SupervisorTrapKeepsMachine ==
    ASSUME TypeOK, NEW priv \in PrivMode, NEW c, NEW pending,
           raiseTrap(priv, c, pending), nextPrivMode' # M_MODE
    PROVE  MachineState' = MachineState
<1>1. csr \in CSRs /\ csr.status \in Status
  BY DEF TypeOK, CSRs
<1>2. TrapDest(priv, c) = S_MODE /\ csr' = TrapCSRs(priv, c, pending)
  BY DEF raiseTrap, TrapDest
<1>3. csr' = [csr EXCEPT !.mip = pending, !.sepc = currentProgramCounter,
                         !.status = [csr.status EXCEPT !.spie = csr.status.sie,
                                                       !.sie = FALSE,
                                                       !.spp = priv % 2]]
  BY <1>1, <1>2 DEF TrapCSRs, CSRs
<1>4. QED
  BY <1>1, <1>3 DEF MachineState, CSRs, Status

LEMMA ExceptionKeepsMachine ==
    ASSUME TypeOK, NEW n, NEW tval, RaiseException(n, tval), nextPrivMode' # M_MODE
    PROVE  MachineState' = MachineState
<1>1. CASE \E why \in {"double_trap", "vector_pagefault"} : Abort(why)
  BY <1>1 DEF Abort, MachineState
<1>2. CASE raiseTrap(currentPrivMode, Exception(n), csr.mip)
  BY <1>2, SupervisorTrapKeepsMachine DEF TypeOK
<1>3. QED
  BY <1>1, <1>2 DEF RaiseException

\* Below M_MODE a CSR instruction reaches only the supervisor's CSRs.
LEMMA CSRInstrKeepsMachine ==
    ASSUME TypeOK, NEW c, NEW new, CSRInstr(c, new), currentPrivMode # M_MODE,
           c \notin MachineCSR =>
               /\ new.mideleg = csr.mideleg /\ new.medeleg = csr.medeleg
               /\ new.mie \ S_MODE_INT_MASK = csr.mie \ S_MODE_INT_MASK
               /\ new.mtvec = csr.mtvec /\ new.mepc = csr.mepc
               /\ new.status.mie = csr.status.mie /\ new.status.mpie = csr.status.mpie
               /\ new.status.mpp = csr.status.mpp /\ new.status.tvm = csr.status.tvm
               /\ new.status.tsr = csr.status.tsr
    PROVE  MachineState' = MachineState
<1>1. CASE csr' = csr
  BY <1>1 DEF MachineState
<1>2. CASE csr' = new /\ csr_op_permission_check(c)
  <2>1. c \notin MachineCSR
    BY <1>2
       DEF csr_op_permission_check, TypeOK, PrivMode, U_MODE, S_MODE, H_MODE, M_MODE
  <2>2. QED
    BY <1>2, <2>1 DEF MachineState
<1>3. QED
  BY <1>1, <1>2 DEF CSRInstr, MarkIllegal

LEMMA ExecCSRKeepsMachine ==
    ASSUME TypeOK, ExecCSR, currentPrivMode # M_MODE
    PROVE  MachineState' = MachineState
<1>0. csr \in CSRs /\ csr.status \in Status
  BY DEF TypeOK, CSRs
<1>1. CASE \E v \in GuestStatus : WriteStatus(v)
  <2>1. PICK v \in GuestStatus : WriteStatus(v)
    BY <1>1
  <2>2. CASE CSRInstr("mstatus", [csr EXCEPT !.status = v])
    BY <2>2, CSRInstrKeepsMachine DEF MachineCSR
  <2>3. CASE CSRInstr("sstatus", [csr EXCEPT !.status =
                [@ EXCEPT !.sie = v.sie, !.spie = v.spie, !.spp = v.spp]])
    <3> DEFINE st == [csr.status EXCEPT !.sie = v.sie, !.spie = v.spie, !.spp = v.spp]
               new == [csr EXCEPT !.status = st]
    <3>1. /\ st.mie = csr.status.mie /\ st.mpie = csr.status.mpie
          /\ st.mpp = csr.status.mpp /\ st.tvm = csr.status.tvm
          /\ st.tsr = csr.status.tsr
      BY <1>0 DEF Status
    <3>2. /\ new.mideleg = csr.mideleg /\ new.medeleg = csr.medeleg
          /\ new.mie = csr.mie /\ new.mtvec = csr.mtvec /\ new.mepc = csr.mepc
          /\ new.status = st
      BY <1>0 DEF CSRs
    <3>3. CSRInstr("sstatus", new)
      BY <2>3
    <3> HIDE DEF st, new
    <3>4. QED
      BY <3>1, <3>2, <3>3, CSRInstrKeepsMachine
  <2>4. QED
    BY <2>1, <2>2, <2>3 DEF WriteStatus
<1>2. CASE \E v \in GuestExc : WriteExc(v)
  BY <1>2, CSRInstrKeepsMachine DEF WriteExc, MachineCSR
<1>3. CASE \E v \in GuestInt : WriteInt(v)
  <2>1. PICK v \in GuestInt : WriteInt(v)
    BY <1>3
  <2>2. CASE \/ CSRInstr("mideleg", [csr EXCEPT !.mideleg = v \cap S_MODE_INT_MASK])
             \/ CSRInstr("mie", [csr EXCEPT !.mie = v \cap M_MODE_INT_MASK])
             \/ CSRInstr("mip", [csr EXCEPT !.mip = v \cap M_MODE_INT_MASK])
    BY <2>2, CSRInstrKeepsMachine DEF MachineCSR
  <2>3. CASE CSRInstr("sie", [csr EXCEPT !.mie = Supervisor(csr.mie, v)])
    <3> DEFINE new == [csr EXCEPT !.mie = Supervisor(csr.mie, v)]
    <3>1. /\ new.mideleg = csr.mideleg /\ new.medeleg = csr.medeleg
          /\ new.mtvec = csr.mtvec /\ new.mepc = csr.mepc /\ new.status = csr.status
          /\ new.mie = Supervisor(csr.mie, v)
      BY <1>0 DEF CSRs
    <3>2. new.mie \ S_MODE_INT_MASK = csr.mie \ S_MODE_INT_MASK
      BY <3>1 DEF Supervisor
    <3>3. CSRInstr("sie", new)
      BY <2>3
    <3> HIDE DEF new
    <3>4. QED
      BY <3>1, <3>2, <3>3, CSRInstrKeepsMachine
  <2>4. CASE CSRInstr("sip", [csr EXCEPT !.mip = Supervisor(csr.mip, v)])
    BY <1>0, <2>4, CSRInstrKeepsMachine DEF CSRs
  <2>5. QED
    BY <2>1, <2>2, <2>3, <2>4 DEF WriteInt
<1>4. CASE \E v \in GuestTvec : WriteTvec(v)
  <2>1. PICK v \in GuestTvec : WriteTvec(v)
    BY <1>4
  <2>2. CASE CSRInstr("mtvec", [csr EXCEPT !.mtvec = v])
    BY <2>2, CSRInstrKeepsMachine DEF MachineCSR
  <2>3. CASE \/ Abort("mtvec_mode") \/ MarkIllegal
    BY <2>3 DEF Abort, MarkIllegal, MachineState
  <2>4. CASE CSRInstr("stvec",
                [csr EXCEPT !.stvec = [v EXCEPT !.mode = IF @ > 1 THEN 0 ELSE @]])
    <3> DEFINE new == [csr EXCEPT !.stvec = [v EXCEPT !.mode = IF @ > 1 THEN 0 ELSE @]]
    <3>1. /\ new.mideleg = csr.mideleg /\ new.medeleg = csr.medeleg
          /\ new.mie = csr.mie /\ new.mtvec = csr.mtvec /\ new.mepc = csr.mepc
          /\ new.status = csr.status
      BY <1>0 DEF CSRs
    <3>2. CSRInstr("stvec", new)
      BY <2>4
    <3> HIDE DEF new
    <3>3. QED
      BY <3>1, <3>2, CSRInstrKeepsMachine
  <2>5. QED
    BY <2>1, <2>2, <2>3, <2>4 DEF WriteTvec
<1>5. CASE \E v \in GuestEpc : WriteEpc(v)
  <2>1. PICK v \in GuestEpc : WriteEpc(v)
    BY <1>5
  <2>2. CASE CSRInstr("mepc", [csr EXCEPT !.mepc = v])
    BY <2>2, CSRInstrKeepsMachine DEF MachineCSR
  <2>3. CASE CSRInstr("sepc", [csr EXCEPT !.sepc = v])
    BY <1>0, <2>3, CSRInstrKeepsMachine DEF CSRs
  <2>4. QED
    BY <2>1, <2>2, <2>3 DEF WriteEpc
<1>6. CASE \E v \in GuestSatp : WriteSatp(v)
  <2>1. PICK v \in GuestSatp : CSRInstr("satp", [csr EXCEPT !.satp = v])
    BY <1>6 DEF WriteSatp
  <2>2. QED
    BY <1>0, <2>1, CSRInstrKeepsMachine DEF CSRs
<1>7. QED
  BY <1>1, <1>2, <1>3, <1>4, <1>5, <1>6 DEF ExecCSR

LEMMA StepKeepsMachine ==
    ASSUME IInv, Next, currentPrivMode # M_MODE, nextPrivMode' # M_MODE
    PROVE  MachineState' = MachineState
<1>0. TypeOK /\ csr \in CSRs /\ csr.status \in Status
  BY DEF IInv, TypeOK, CSRs
<1>1. CASE preExec
  <2>1. CASE \E c, pending : raiseTrap(nextPrivMode, c, pending)
    BY <1>0, <2>1, SupervisorTrapKeepsMachine DEF TypeOK
  <2>2. CASE \E pending : csr' = [csr EXCEPT !.mip = pending]
    BY <1>0, <2>2 DEF MachineState, CSRs
  <2>3. QED
    BY <1>1, <2>1, <2>2 DEF preExec
<1>2. CASE FetchFault
  BY <1>0, <1>2, ExceptionKeepsMachine DEF FetchFault
<1>3. CASE ExecFault
  BY <1>0, <1>3, ExceptionKeepsMachine DEF ExecFault
<1>4. CASE ecall
  BY <1>0, <1>4, ExceptionKeepsMachine DEF ecall
<1>5. CASE EpilogueIllegal
  BY <1>0, <1>5, ExceptionKeepsMachine DEF EpilogueIllegal
<1>6. CASE Complete \/ ExecIllegal \/ mret \/ sfence_vma \/ EpilogueEnd
  <2>1. csr' = csr
    BY <1>6 DEF Complete, ExecIllegal, MarkIllegal, mret, sfence_vma, EpilogueEnd
  <2>2. QED
    BY <2>1 DEF MachineState
<1>7. CASE sret
  <2>1. CASE csr' = csr
    BY <2>1 DEF MachineState
  <2>2. CASE csr' = sretCSRs
    BY <1>0, <2>2 DEF MachineState, sretCSRs, CSRs, Status
  <2>3. QED
    BY <1>7, <2>1, <2>2 DEF sret, MarkIllegal, Return
<1>8. CASE ExecCSR
  BY <1>0, <1>8, ExecCSRKeepsMachine
<1>9. QED
  BY <1>1, <1>2, <1>3, <1>4, <1>5, <1>6, <1>7, <1>8 DEF Next

\* Guest software below M_MODE never changes what M_MODE relies on.
THEOREM MachineProtected == Spec => MachineStateProtected
<1>1. IInv /\ [Next]_vars =>
          [MachineState' # MachineState =>
              currentPrivMode = M_MODE \/ nextPrivMode' = M_MODE]_vars
  BY StepKeepsMachine
<1>2. QED
  BY Invariance, <1>1, PTL DEF Spec, MachineStateProtected
============================================================================
