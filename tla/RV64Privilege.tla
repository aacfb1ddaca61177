--------------------------- MODULE RV64Privilege ---------------------------
(***************************************************************************)
(* Privilege modes, traps and CSRs of one RV64Core: preExec, raiseTrap,    *)
(* mret, sret, the CSR instructions (inline_impl/rv64_privilege.hpp) and   *)
(* the order in which Step_CoreAPI (src/rv64_exec.cpp) runs them.          *)
(*                                                                         *)
(* One call of Step_CoreAPI is preExec, then the instruction unless        *)
(* preExec trapped, then the block behind the label `exception'.  `phase'  *)
(* is the place the call has reached; nothing else runs in between.        *)
(*                                                                         *)
(* Data abstraction: an instruction is named by what it does to this       *)
(* state; where a completed instruction continues is any guest PC.  The    *)
(* value registers (mcause, scause, mtval, stval, mscratch, sscratch, the  *)
(* counters), which steer nothing (`took' keeps the cause for the          *)
(* properties), and sum, mxr, fs and the constant fields are left out.     *)
(***************************************************************************)
EXTENDS PrivModes, FiniteSets

CONSTANTS
    GuestPC,      \* addresses of guest code, all even
    GuestEpc,     \* values written to mepc and sepc, unmasked by the code
    GuestTvec,    \* values written to mtvec and stvec
    GuestStatus,  \* values written to mstatus and sstatus
    GuestExc,     \* values written to medeleg
    GuestInt,     \* values written to mideleg, mie, sie, mip and sip
    Faults,       \* causes of the faults an executing instruction can raise
    Lines,        \* values the platform's IntStatus_t takes
    GuestSatp,    \* values written to satp
    NoTrap        \* no trap was taken in this step

S_MODE_INT_MASK == {1, 5, 9}
M_MODE_INT_MASK == {1, 3, 5, 7, 9, 11}
S_MODE_EXC_MASK == (0 .. 15) \ {11}

Tvec == [mode : 0 .. 3, base : Nat]
Status == [sie : BOOLEAN, mie : BOOLEAN, spie : BOOLEAN, mpie : BOOLEAN,
           spp : {U_MODE, S_MODE}, mpp : PrivMode,
           mprv : BOOLEAN, tvm : BOOLEAN, tsr : BOOLEAN]
Cause == [cause : 0 .. 15, interrupt : BOOLEAN]

ASSUME GuestAssumption ==
    /\ GuestPC \subseteq {p \in Nat : p % 2 = 0}
    /\ GuestEpc \subseteq Nat
    /\ GuestTvec \subseteq Tvec
    /\ GuestStatus \subseteq Status
    /\ GuestExc \subseteq SUBSET Nat
    /\ GuestInt \subseteq SUBSET Nat
    /\ Faults \subseteq {0, 3, 4, 5, 6, 7, 13, 15}
    /\ Lines \subseteq SUBSET {3, 7, 9, 11}
    /\ NoTrap \notin [to : PrivMode, cause : Cause]

VARIABLES
    csr,                   \* the CSRs, one field each
    currentPrivMode, nextPrivMode,
    currentProgramCounter, trapProgramCounter,
    needTrap,
    illegal,               \* is_instr_illegal of the running step
    phase,
    took,                  \* the trap raiseTrap took in this step, if any
    aborted                \* the assertion that ended the emulator, or "no"

vars == <<csr, currentPrivMode, nextPrivMode, currentProgramCounter,
          trapProgramCounter, needTrap, illegal, phase, took, aborted>>

CSRs == [status : Status, mideleg : SUBSET S_MODE_INT_MASK,
         medeleg : SUBSET S_MODE_EXC_MASK, mie : SUBSET M_MODE_INT_MASK,
         mip : SUBSET M_MODE_INT_MASK, mtvec : Tvec, stvec : Tvec,
         mepc : Nat, sepc : Nat, satp : GuestSatp]

TypeOK ==
    /\ csr \in CSRs
    /\ currentPrivMode \in PrivMode /\ nextPrivMode \in PrivMode
    /\ currentProgramCounter \in Nat /\ trapProgramCounter \in Nat
    /\ needTrap \in BOOLEAN /\ illegal \in BOOLEAN
    /\ phase \in {"idle", "exec", "epilogue"}
    /\ took \in [to : PrivMode, cause : Cause] \cup {NoTrap}
    /\ aborted \in {"no", "double_trap", "vector_pagefault", "mtvec_mode"}

ZeroStatus == [sie |-> FALSE, mie |-> FALSE, spie |-> FALSE, mpie |-> FALSE,
               spp |-> U_MODE, mpp |-> U_MODE,
               mprv |-> FALSE, tvm |-> FALSE, tsr |-> FALSE]
ZeroTvec == [mode |-> 0, base |-> 0]

\* reset() and the constructor; satp is zero too.
Init ==
    /\ csr \in [status : {ZeroStatus}, mideleg : {{}}, medeleg : {{}}, mie : {{}},
                mip : {{}}, mtvec : {ZeroTvec}, stvec : {ZeroTvec}, mepc : {0},
                sepc : {0}, satp : GuestSatp]
    /\ currentPrivMode = M_MODE /\ nextPrivMode = M_MODE
    /\ currentProgramCounter \in GuestPC
    /\ trapProgramCounter = 0
    /\ needTrap = FALSE /\ illegal = FALSE
    /\ phase = "idle"
    /\ took = NoTrap
    /\ aborted = "no"

----------------------------------------------------------------------------
\* The interrupt taken first among a set of pending ones:
\* MEI, MSI, MTI, SEI, SSI, STI.
Priority == <<11, 3, 7, 9, 1, 5>>
bits_to_int_type(s) ==
    Priority[CHOOSE i \in 1 .. 6 : /\ Priority[i] \in s
                                  /\ \A j \in 1 .. i - 1 : Priority[j] \notin s]

TrapDest(priv, c) ==
    IF priv # M_MODE /\ c.cause \in (IF c.interrupt THEN csr.mideleg ELSE csr.medeleg)
    THEN S_MODE ELSE M_MODE

\* (base << 2) + cause * 4 in vectored mode, for exceptions as well.
Vector(tvec, c) == 4 * tvec.base + (IF tvec.mode = 1 THEN 4 * c.cause ELSE 0)

\* Mutant: the interrupt enables are saved but not cleared.
TrapCSRsEnabled(priv, c, pending) ==
    IF TrapDest(priv, c) = S_MODE
    THEN [csr EXCEPT !.mip = pending, !.sepc = currentProgramCounter,
                     !.status = [@ EXCEPT !.spie = csr.status.sie, !.spp = priv % 2]]
    ELSE [csr EXCEPT !.mip = pending, !.mepc = currentProgramCounter,
                     !.status = [@ EXCEPT !.mpie = csr.status.mie, !.mpp = priv]]

\* The status and trap registers after a trap from mode priv.
TrapCSRs(priv, c, pending) ==
    IF TrapDest(priv, c) = S_MODE
    THEN [csr EXCEPT !.mip = pending, !.sepc = currentProgramCounter,
                     !.status = [@ EXCEPT !.spie = csr.status.sie, !.sie = FALSE,
                                          !.spp = priv % 2]]
    ELSE [csr EXCEPT !.mip = pending, !.mepc = currentProgramCounter,
                     !.status = [@ EXCEPT !.mpie = csr.status.mie, !.mie = FALSE,
                                          !.mpp = priv]]

TrapVector(priv, c) ==
    Vector(IF TrapDest(priv, c) = S_MODE THEN csr.stvec ELSE csr.mtvec, c)

Abort(why) ==
    /\ aborted' = why
    /\ UNCHANGED <<csr, currentPrivMode, nextPrivMode, currentProgramCounter,
                   trapProgramCounter, needTrap, illegal, phase, took>>

\* raiseTrap, called in mode priv with mip as pending.
raiseTrap(priv, c, pending) ==
    /\ csr' = TrapCSRs(priv, c, pending)
    /\ trapProgramCounter' = TrapVector(priv, c)
    /\ nextPrivMode' = TrapDest(priv, c)
    /\ needTrap' = TRUE
    /\ took' = [to |-> TrapDest(priv, c), cause |-> c]
    /\ UNCHANGED aborted

Exception(n) == [cause |-> n, interrupt |-> FALSE]
Interrupt(n) == [cause |-> n, interrupt |-> TRUE]

\* A trap raised by the instruction, with the two assertions of raiseTrap.
RaiseException(n, tval) ==
    IF needTrap THEN Abort("double_trap")
    ELSE IF n = 12 /\ tval = TrapVector(currentPrivMode, Exception(n))
    THEN Abort("vector_pagefault")
    ELSE /\ raiseTrap(currentPrivMode, Exception(n), csr.mip)
         /\ phase' = "epilogue"
         /\ illegal' = FALSE
         /\ UNCHANGED <<currentPrivMode, currentProgramCounter>>

----------------------------------------------------------------------------
\* Mutant: mie is not consulted in M_MODE.
TakeableMasked(priv, int_bits) ==
    IF priv = M_MODE
    THEN int_bits \ csr.mideleg
    ELSE IF int_bits \cap csr.mideleg # {} /\ ~(priv < S_MODE \/ csr.status.sie)
    THEN {} ELSE int_bits

\* Mutant: sie is obeyed in U_MODE too.
TakeableSie(priv, int_bits) ==
    IF priv = M_MODE
    THEN IF csr.status.mie THEN int_bits \ csr.mideleg ELSE {}
    ELSE IF int_bits \cap csr.mideleg # {} /\ ~csr.status.sie
    THEN {} ELSE int_bits

\* preExec.  The interrupts among which preExec chooses the one to take; none
\* when it returns without a trap.  Below M_MODE the choice is made from all
\* pending interrupts as soon as one of them is delegated, and S_MODE with
\* sie clear then takes none of them.
Takeable(priv, int_bits) ==
    IF priv = M_MODE
    THEN IF csr.status.mie THEN int_bits \ csr.mideleg ELSE {}
    ELSE IF int_bits \cap csr.mideleg # {} /\ ~(priv < S_MODE \/ csr.status.sie)
    THEN {} ELSE int_bits

preExec ==
    /\ phase = "idle" /\ aborted = "no"
    /\ \E lines \in Lines :
          LET pending == (csr.mip \cap {1, 5}) \cup lines
              priv == nextPrivMode
              bits == Takeable(priv, pending \cap csr.mie)
          IN  /\ currentPrivMode' = priv
              /\ IF bits # {}
                 THEN /\ raiseTrap(priv, Interrupt(bits_to_int_type(bits)), pending)
                      /\ phase' = "epilogue"
                 ELSE /\ csr' = [csr EXCEPT !.mip = pending]
                      /\ needTrap' = FALSE
                      /\ took' = NoTrap
                      /\ phase' = "exec"
                      /\ UNCHANGED <<nextPrivMode, trapProgramCounter, aborted>>
    /\ UNCHANGED <<currentProgramCounter, illegal>>

----------------------------------------------------------------------------
Executing == phase = "exec" /\ aborted = "no"
Aligned == currentProgramCounter % 2 = 0

\* The fetch traps: a misaligned PC, a page the bus cannot read or, where
\* InstFetch translates, a page fault.
FetchFault ==
    /\ Executing
    /\ \E n \in {0, 1, 12} :
          /\ n = 0 <=> ~Aligned
          /\ n = 12 => currentPrivMode # M_MODE
          /\ RaiseException(n, currentProgramCounter)

\* The instruction traps: a jump to an odd address, ebreak, a load, store or
\* AMO fault.
ExecFault ==
    /\ Executing /\ Aligned
    /\ \E n \in Faults : RaiseException(n, 0)

ecall ==
    /\ Executing /\ Aligned
    /\ RaiseException(currentPrivMode + 8, 0)

\* The instruction completes and touches none of this state.
Complete ==
    /\ Executing /\ Aligned
    /\ phase' = "epilogue"
    /\ UNCHANGED <<csr, currentPrivMode, nextPrivMode, currentProgramCounter,
                   trapProgramCounter, needTrap, illegal, took, aborted>>

\* is_instr_illegal = true.
MarkIllegal ==
    /\ phase' = "epilogue"
    /\ illegal' = TRUE
    /\ UNCHANGED <<csr, currentPrivMode, nextPrivMode, currentProgramCounter,
                   trapProgramCounter, needTrap, took, aborted>>

\* An undefined encoding, an unknown CSR, or a read-only CSR written.
ExecIllegal == Executing /\ Aligned /\ MarkIllegal

\* The common part of mret and sret once they are permitted.
Return(newcsr, mode, pc) ==
    /\ csr' = newcsr
    /\ nextPrivMode' = mode
    /\ needTrap' = TRUE
    /\ trapProgramCounter' = pc
    /\ phase' = "epilogue"
    /\ UNCHANGED <<currentPrivMode, currentProgramCounter, illegal, took, aborted>>

mretCSRs ==
    LET st == csr.status
    IN [csr EXCEPT !.status = [st EXCEPT !.mie = st.mpie, !.mpie = TRUE,
                                         !.mprv = (st.mpp = M_MODE /\ st.mprv),
                                         !.mpp = U_MODE]]

\* Mutant: mret is permitted in every mode.
mretAnyMode ==
    Executing /\ Aligned /\ Return(mretCSRs, csr.status.mpp, csr.mepc)

mret ==
    /\ Executing /\ Aligned
    /\ IF currentPrivMode # M_MODE THEN MarkIllegal
       ELSE Return(mretCSRs, csr.status.mpp, csr.mepc)

sretCSRs ==
    [csr EXCEPT !.status = [csr.status EXCEPT !.sie = csr.status.spie, !.spie = TRUE,
                                              !.mprv = FALSE, !.spp = U_MODE]]

\* Mutant: tsr is looked at only after the return has been set up.
sretLateCheck ==
    /\ Executing /\ Aligned
    /\ IF currentPrivMode < S_MODE THEN MarkIllegal
       ELSE /\ csr' = sretCSRs
            /\ nextPrivMode' = csr.status.spp
            /\ needTrap' = TRUE
            /\ trapProgramCounter' = csr.sepc
            /\ phase' = "epilogue"
            /\ illegal' = csr.status.tsr
            /\ UNCHANGED <<currentPrivMode, currentProgramCounter, took, aborted>>

sret ==
    /\ Executing /\ Aligned
    /\ IF currentPrivMode < S_MODE \/ csr.status.tsr THEN MarkIllegal
       ELSE Return(sretCSRs, csr.status.spp, csr.sepc)

\* What it does to the TLB is Sv39Tlb's SV39_FlushTLB_sfence_vma.
sfence_vma ==
    /\ Executing /\ Aligned
    /\ IF \/ currentPrivMode < S_MODE
          \/ currentPrivMode = S_MODE /\ csr.status.tvm
       THEN MarkIllegal ELSE Complete

----------------------------------------------------------------------------
\* The CSRs of this module by the privilege bits 9:8 of their number.
MachineCSR == {"mstatus", "medeleg", "mideleg", "mie", "mip", "mtvec", "mepc"}
SupervisorCSR == {"sstatus", "sie", "sip", "stvec", "sepc", "satp"}

\* Mutant: bit 9 of the CSR number is ignored.
csr_op_permission_checkBit8(c) == S_MODE <= currentPrivMode

csr_op_permission_check(c) ==
    (IF c \in MachineCSR THEN M_MODE ELSE S_MODE) <= currentPrivMode

\* csrrw and, with a non-zero rs1, csrrs and csrrc and their immediate forms,
\* on CSR c: they differ in the value, which is any the guest may form, and
\* leave the CSRs as new.
CSRInstr(c, new) ==
    /\ Executing /\ Aligned
    /\ IF \/ ~csr_op_permission_check(c)
          \/ c = "satp" /\ currentPrivMode = S_MODE /\ csr.status.tvm
       THEN MarkIllegal
       ELSE /\ csr' = new
            /\ phase' = "epilogue"
            /\ UNCHANGED <<currentPrivMode, nextPrivMode, currentProgramCounter,
                           trapProgramCounter, needTrap, illegal, took, aborted>>

\* csr_write: what each CSR keeps of the value v written to it.
Supervisor(old, v) == (old \ S_MODE_INT_MASK) \cup (v \cap S_MODE_INT_MASK)
WriteStatus(v) ==
    \/ CSRInstr("mstatus", [csr EXCEPT !.status = v])
    \/ CSRInstr("sstatus", [csr EXCEPT !.status = [@ EXCEPT !.sie = v.sie, !.spie = v.spie,
                                                            !.spp = v.spp]])
\* Mutant: medeleg is written unmasked.
WriteExcUnmasked(v) == CSRInstr("medeleg", [csr EXCEPT !.medeleg = v])
WriteExc(v) == CSRInstr("medeleg", [csr EXCEPT !.medeleg = v \cap S_MODE_EXC_MASK])
WriteInt(v) ==
    \/ CSRInstr("mideleg", [csr EXCEPT !.mideleg = v \cap S_MODE_INT_MASK])
    \/ CSRInstr("mie", [csr EXCEPT !.mie = v \cap M_MODE_INT_MASK])
    \/ CSRInstr("sie", [csr EXCEPT !.mie = Supervisor(csr.mie, v)])
    \/ CSRInstr("mip", [csr EXCEPT !.mip = v \cap M_MODE_INT_MASK])
    \/ CSRInstr("sip", [csr EXCEPT !.mip = Supervisor(csr.mip, v)])
WriteTvec(v) ==
    \/ v.mode <= 1 /\ CSRInstr("mtvec", [csr EXCEPT !.mtvec = v])
    \/ v.mode > 1 /\ Executing /\ Aligned
       /\ IF csr_op_permission_check("mtvec") THEN Abort("mtvec_mode") ELSE MarkIllegal
    \/ CSRInstr("stvec", [csr EXCEPT !.stvec = [v EXCEPT !.mode = IF @ > 1 THEN 0 ELSE @]])
WriteEpc(v) ==
    \/ CSRInstr("mepc", [csr EXCEPT !.mepc = v])
    \/ CSRInstr("sepc", [csr EXCEPT !.sepc = v])
WriteSatp(v) == CSRInstr("satp", [csr EXCEPT !.satp = v])

ExecCSR ==
    \/ \E v \in GuestStatus : WriteStatus(v)
    \/ \E v \in GuestExc : WriteExc(v)
    \/ \E v \in GuestInt : WriteInt(v)
    \/ \E v \in GuestTvec : WriteTvec(v)
    \/ \E v \in GuestEpc : WriteEpc(v)
    \/ \E v \in GuestSatp : WriteSatp(v)

----------------------------------------------------------------------------
\* The label `exception': an illegal instruction traps here, then the PC moves.
EpilogueIllegal ==
    /\ phase = "epilogue" /\ aborted = "no"
    /\ illegal
    /\ RaiseException(2, 0)

EpilogueEnd ==
    /\ phase = "epilogue" /\ aborted = "no"
    /\ ~illegal
    /\ IF needTrap THEN currentProgramCounter' = trapProgramCounter
                   ELSE currentProgramCounter' \in GuestPC
    /\ needTrap' = FALSE
    /\ phase' = "idle"
    /\ UNCHANGED <<csr, currentPrivMode, nextPrivMode, trapProgramCounter,
                   illegal, took, aborted>>

Next ==
    \/ preExec
    \/ FetchFault \/ ExecFault \/ ecall \/ Complete \/ ExecIllegal
    \/ mret \/ sret \/ sfence_vma \/ ExecCSR
    \/ EpilogueIllegal \/ EpilogueEnd

Spec == Init /\ [][Next]_vars

----------------------------------------------------------------------------
\* A step takes at most one trap: assert(!this->needTrap) in raiseTrap never
\* fires, although preExec, the fetch, the instruction and the block behind
\* `exception' can each raise one.
OneTrapPerStep == aborted # "double_trap"

\* The core has entered the handler at pc of the mode it trapped to: that
\* mode's interrupts are off and its registers say where to return to.  A trap
\* to S_MODE has a cause that was delegated and comes from a mode no higher
\* than S_MODE (H_MODE, which mpp can name although the core lacks it, aside).
Entered(pc) ==
    /\ took.to \in {S_MODE, M_MODE} /\ nextPrivMode = took.to
    /\ took.to = M_MODE =>
          /\ pc = Vector(csr.mtvec, took.cause)
          /\ ~csr.status.mie /\ csr.status.mpp = currentPrivMode
    /\ took.to = S_MODE =>
          /\ pc = Vector(csr.stvec, took.cause)
          /\ ~csr.status.sie
          /\ currentPrivMode # H_MODE => csr.status.spp = currentPrivMode
          /\ took.cause.cause \in IF took.cause.interrupt THEN csr.mideleg
                                                           ELSE csr.medeleg

\* Every step that traps leaves the core at its handler, consistently set up.
TrapEntry == phase = "idle" /\ took # NoTrap => Entered(currentProgramCounter)

\* The only way up in privilege is a trap.
RiseOnlyByTrap ==
    phase = "idle" /\ nextPrivMode > currentPrivMode =>
        took # NoTrap /\ took.to = nextPrivMode

\* An interrupt is taken only if it is pending and enabled and the mode it is
\* taken in has not masked it (mpie and spie hold the masks it found).
Unmasked ==
    took.cause.interrupt =>
        /\ took.cause.cause \in csr.mip \cap csr.mie
        /\ took.to = M_MODE => currentPrivMode < M_MODE \/ csr.status.mpie
        /\ took.to = S_MODE => currentPrivMode < S_MODE \/ csr.status.spie
InterruptGate == phase = "idle" /\ took # NoTrap => Unmasked

\* An instruction runs below M_MODE only if no enabled interrupt for M_MODE is
\* waiting, except where preExec lets a masked delegated one hide it: in
\* S_MODE (or H_MODE) with sie clear.
MachineInterruptServed ==
    /\ phase = "exec" /\ currentPrivMode < M_MODE
    /\ (csr.mip \cap csr.mie) \ csr.mideleg # {}
    => /\ currentPrivMode >= S_MODE /\ ~csr.status.sie
       /\ csr.mip \cap csr.mie \cap csr.mideleg # {}

\* Software below M_MODE cannot change what M_MODE relies on: only M_MODE
\* itself and a trap into it do.
MachineState == <<csr.status.mie, csr.status.mpie, csr.status.mpp, csr.status.tvm,
                  csr.status.tsr, csr.mideleg, csr.medeleg, csr.mie \ S_MODE_INT_MASK,
                  csr.mtvec, csr.mepc>>
MachineStateProtected ==
    [][MachineState' # MachineState =>
          currentPrivMode = M_MODE \/ nextPrivMode' = M_MODE]_vars
============================================================================
