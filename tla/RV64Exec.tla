------------------------------ MODULE RV64Exec ------------------------------
(***************************************************************************)
(* Decoding and execution: what Step_CoreAPI (rv64_exec.cpp) does between  *)
(* the fetch of an instruction and the trap or the next pc.                *)
(*                                                                         *)
(* A hart is [n, x, pc, npc, trap, stored, call]: the width of its         *)
(* registers (64), the registers, the pc, the target of a jump, the trap   *)
(* raised, the memory written, and what is left to other parts of the      *)
(* core: reservations (RV64Memory), traps, returns and CSRs                *)
(* (RV64Privilege).                                                        *)
(*                                                                         *)
(* A 32-bit instruction is the record of its fields in the r_type of the   *)
(* union RVInst_t, with the name of its opcode; the other types are read   *)
(* off these fields.  A compressed one is [val |-> its 16 bits].           *)
(* Left out are minstret and the tval of an illegal instruction, which is  *)
(* the instruction.                                                        *)
(* RV64Isa is used by the properties only.                                 *)
(***************************************************************************)
EXTENDS RV64Alu, RV64Isa

CONSTANTS
    Loaded(_, _),        \* external: the low bits at an address of the memory
    Faulting             \* external: addresses the MMU refuses

PC_ALIGN == 2
NoPc == -1
NoTrap == [cause |-> "none", tval |-> 0]
NoStore == [addr |-> 0, size |-> 0, data |-> 0]

Hart(n, x, pc) ==
    [n |-> n, x |-> x, pc |-> pc, npc |-> NoPc, trap |-> NoTrap, stored |-> NoStore, call |-> "none"]

----------------------------------------------------------------------------
setGPR(s, rd, v) == IF rd = 0 THEN s ELSE [s EXCEPT !.x[rd] = v % 2^s.n]

raiseTrap(s, cause, tval) == [s EXCEPT !.trap = [cause |-> cause, tval |-> tval]]
Illegal(s) == raiseTrap(s, "illegal_instr", 0)
Call(s, name) == [s EXCEPT !.call = name]

Address(s, reg, offset) == (s.x[reg] + offset) % 2^s.n
Bits(s, size) == (size * s.n) \div 8

memRead(s, rd, addr, size, unsigned) ==
    LET m == Bits(s, size)
        v == Loaded(addr, m)
    IN  IF addr % size # 0 THEN raiseTrap(s, "load_misalign", addr)
        ELSE IF addr \in Faulting THEN raiseTrap(s, "load_fault", addr)
        ELSE setGPR(s, rd, IF unsigned THEN v ELSE Extend(v, m, s.n))

memWrite(s, addr, size, v) ==
    IF addr % size # 0 THEN raiseTrap(s, "store_misalign", addr)
    ELSE IF addr \in Faulting THEN raiseTrap(s, "store_fault", addr)
    ELSE [s EXCEPT !.stored = [addr |-> addr, size |-> size, data |-> v % 2^Bits(s, size)]]

\* Mutant: the link register is written before the target is checked.
JumpTo_link_first(s, target, rd, link) ==
    LET t == setGPR(s, rd, link)
    IN  IF target % PC_ALIGN # 0 THEN raiseTrap(t, "instr_misalign", target) ELSE [t EXCEPT !.npc = target]

JumpTo(s, target, rd, link) ==
    IF target % PC_ALIGN # 0 THEN raiseTrap(s, "instr_misalign", target)
    ELSE [setGPR(s, rd, link) EXCEPT !.npc = target]

----------------------------------------------------------------------------
(* 32-bit instructions: the immediates of the types of RVInst_t.           *)

imm12(i) == Signed(i.funct7 * 32 + i.rs2, 12)
s_imm(i) == Signed(i.funct7 * 32 + i.rd, 12)
b_imm(i) == Signed((i.funct7 \div 64) * 4096 + (i.rd % 2) * 2048 + (i.funct7 % 64) * 32
                   + (i.rd \div 2) * 2, 13)
u_imm(i) == Signed(i.funct7 * 8192 + i.rs2 * 256 + i.rs1 * 8 + i.funct3, 20) * 4096
j_imm(i) == Signed((i.funct7 \div 64) * 1048576 + i.rs1 * 32768 + i.funct3 * 4096 + (i.rs2 % 2) * 2048
                   + (i.funct7 % 64) * 32 + (i.rs2 \div 2) * 2, 21)

Taken(s, i) ==
    LET a == s.x[i.rs1]
        b == s.x[i.rs2]
    IN  CASE i.funct3 = 0 -> a = b
          [] i.funct3 = 1 -> a # b
          [] i.funct3 = 4 -> Signed(a, s.n) < Signed(b, s.n)
          [] i.funct3 = 5 -> Signed(a, s.n) >= Signed(b, s.n)
          [] i.funct3 = 6 -> a < b
          [] i.funct3 = 7 -> a >= b

ExecBranch(s, i) ==
    IF i.funct3 \in {2, 3} THEN Illegal(s)
    ELSE IF Taken(s, i) THEN JumpTo(s, (s.pc + b_imm(i)) % 2^s.n, 0, 0)
    ELSE s

ExecLoad(s, i) ==
    IF i.funct3 = 7 THEN Illegal(s)
    ELSE memRead(s, i.rd, Address(s, i.rs1, imm12(i)), 2^(i.funct3 % 4), i.funct3 >= 4)

ExecStore(s, i) ==
    IF i.funct3 > 3 THEN Illegal(s)
    ELSE memWrite(s, Address(s, i.rs1, s_imm(i)), 2^i.funct3, s.x[i.rs2])

\* The operation of funct7 and funct3; "NOP" for none.
Op(funct7, funct3) ==
    CASE funct7 = 0 -> <<"ADD", "SLL", "SLT", "SLTU", "XOR", "SRL", "OR", "AND">>[funct3 + 1]
      [] funct7 = 1 -> <<"MUL", "MULH", "MULHSU", "MULHU", "DIV", "DIVU", "REM", "REMU">>[funct3 + 1]
      [] funct7 = 32 /\ funct3 = 0 -> "SUB"
      [] funct7 = 32 /\ funct3 = 5 -> "SRA"
      [] OTHER -> "NOP"

WordOp == {"ADD", "SUB", "SLL", "SRL", "SRA", "MUL", "DIV", "DIVU", "REM", "REMU"}

ExecOp(s, i, word) ==
    LET op == Op(i.funct7, i.funct3)
    IN  IF op = "NOP" \/ (word /\ op \notin WordOp) THEN Illegal(s)
        ELSE setGPR(s, i.rd, alu_exec(s.x[i.rs1], s.x[i.rs2], op, word, s.n))

\* A shift checks its upper bits: SLLI that its signed immediate is below 64,
\* SRLI and SRAI funct6, the word shifts funct7.
ShiftOk(i, word) ==
    IF i.funct3 = 1 THEN imm12(i) < 64 /\ (word => i.funct7 = 0)
    ELSE IF word THEN i.funct7 \in {0, 32} ELSE i.funct7 \div 2 \in {0, 16}

ExecOpImm(s, i, word) ==
    LET shift == i.funct3 \in {1, 5}
        op == IF i.funct3 = 5 THEN IF i.funct7 >= 32 THEN "SRA" ELSE "SRL" ELSE Op(0, i.funct3)
        imm == IF i.funct3 = 5 THEN imm12(i) % 64 ELSE imm12(i) % 2^s.n
    IN  IF (shift /\ ~ShiftOk(i, word)) \/ (word /\ i.funct3 \notin {0, 1, 5}) THEN Illegal(s)
        ELSE setGPR(s, i.rd, alu_exec(s.x[i.rs1], imm, op, word, s.n))

\* The operation of funct5; "none" for none, and for LR and SC.
AmoOp(funct5) ==
    CASE funct5 = 0  -> "ADD"
      [] funct5 = 1  -> "SWAP"
      [] funct5 = 4  -> "XOR"
      [] funct5 = 8  -> "OR"
      [] funct5 = 12 -> "AND"
      [] funct5 = 16 -> "MIN"
      [] funct5 = 20 -> "MAX"
      [] funct5 = 24 -> "MINU"
      [] funct5 = 28 -> "MAXU"
      [] OTHER       -> "none"

ExecAmo(s, i) ==
    LET funct5 == i.funct7 \div 4
        size == 2^i.funct3
        addr == s.x[i.rs1]
        amo == pa_amo_op(Loaded(addr, Bits(s, size)), s.x[i.rs2], AmoOp(funct5), size = 4, s.n)
    IN  IF i.funct3 \notin {2, 3} THEN Illegal(s)
        ELSE IF funct5 = 2 THEN IF i.rs2 # 0 THEN Illegal(s) ELSE Call(s, "LR")
        ELSE IF funct5 = 3 THEN Call(s, "SC")
        ELSE IF AmoOp(funct5) = "none" THEN Illegal(s)
        ELSE IF addr \in Faulting THEN raiseTrap(s, "store_fault", addr)
        ELSE [setGPR(s, i.rd, amo.dst) EXCEPT
                 !.stored = [addr |-> addr, size |-> size, data |-> amo.to_write]]

\* sret and wfi with a register are neither executed nor illegal.
ExecSystem(s, i) ==
    LET bare == i.rs1 = 0 /\ i.rd = 0
    IN  IF i.funct3 = 4 THEN Illegal(s)
        ELSE IF i.funct3 # 0 THEN Call(s, "csr")
        ELSE CASE i.funct7 = 0 /\ bare /\ i.rs2 = 0  -> Call(s, "ecall")
               [] i.funct7 = 0 /\ bare /\ i.rs2 = 1  -> Call(s, "ebreak")
               [] i.funct7 = 8 /\ bare /\ i.rs2 = 2  -> Call(s, "sret")
               [] i.funct7 = 8 /\ bare /\ i.rs2 = 5  -> s
               [] i.funct7 = 8 /\ ~bare              -> s
               [] i.funct7 = 24 /\ bare /\ i.rs2 = 2 -> Call(s, "mret")
               [] i.funct7 = 9                       -> Call(s, "sfence_vma")
               [] OTHER                              -> Illegal(s)

\* The outer switch.  jalr clears the low bit of its offset, not of the sum.
ExecBase(s, i) ==
    CASE i.opcode = "LUI"     -> setGPR(s, i.rd, u_imm(i))
      [] i.opcode = "AUIPC"   -> setGPR(s, i.rd, s.pc + u_imm(i))
      [] i.opcode = "JAL"     -> JumpTo(s, (s.pc + j_imm(i)) % 2^s.n, i.rd, s.pc + 4)
      [] i.opcode = "JALR"    -> JumpTo(s, Address(s, i.rs1, 2 * (imm12(i) \div 2)), i.rd, s.pc + 4)
      [] i.opcode = "BRANCH"  -> ExecBranch(s, i)
      [] i.opcode = "LOAD"    -> ExecLoad(s, i)
      [] i.opcode = "STORE"   -> ExecStore(s, i)
      [] i.opcode = "OPIMM"   -> ExecOpImm(s, i, FALSE)
      [] i.opcode = "OPIMM32" -> ExecOpImm(s, i, TRUE)
      [] i.opcode = "OP"      -> ExecOp(s, i, FALSE)
      [] i.opcode = "OP32"    -> ExecOp(s, i, TRUE)
      [] i.opcode = "AMO"     -> ExecAmo(s, i)
      [] i.opcode = "FENCE"   -> s
      [] i.opcode = "SYSTEM"  -> ExecSystem(s, i)
      [] OTHER                -> Illegal(s)

----------------------------------------------------------------------------
(* Compressed instructions.                                                *)

\* Mutant: the mask is one bit short.
binary_concat_short(v, r, l, shift) == ((v \div 2^l) % 2^(r - l)) * 2^shift

\* Bits r to l of v, moved to bit shift.
binary_concat(v, r, l, shift) == ((v \div 2^l) % 2^(r - l + 1)) * 2^shift

\* The names of RV64C_OpCode_enum: the low two bits, then the upper three.
rvc_opcode(v) ==
    LET code == (v % 4) * 8 + (v \div 8192)
    IN  CASE code = 0  -> "ADDI4SPN"
          [] code = 2  -> "LW"
          [] code = 3  -> "LD"
          [] code = 6  -> "SW"
          [] code = 7  -> "SD"
          [] code = 8  -> "ADDI"
          [] code = 9  -> "ADDIW"
          [] code = 10 -> "LI"
          [] code = 11 -> "ADDI16SPN_LUI"
          [] code = 12 -> "ALU"
          [] code = 13 -> "J"
          [] code = 14 -> "BEQZ"
          [] code = 15 -> "BNEZ"
          [] code = 16 -> "SLLI"
          [] code = 18 -> "LWSP"
          [] code = 19 -> "LDSP"
          [] code = 20 -> "JR_MV_EB_JALR_ADD"
          [] code = 22 -> "SWSP"
          [] code = 23 -> "SDSP"
          [] OTHER     -> "none"

r5(v, l) == binary_concat(v, l + 4, l, 0)
r3(v, l) == 8 + binary_concat(v, l + 2, l, 0)

\* The immediate of the ADDI, LI and ANDI forms, and the shift amounts.
c_uimm(v) == binary_concat(v, 12, 12, 5) + binary_concat(v, 6, 2, 0)
c_imm(v) == Signed(c_uimm(v), 6)

c_addi4spn_imm(v) ==
    binary_concat(v, 12, 11, 4) + binary_concat(v, 10, 7, 6) + binary_concat(v, 6, 6, 2)
    + binary_concat(v, 5, 5, 3)
c_word_imm(v) == binary_concat(v, 6, 6, 2) + binary_concat(v, 5, 5, 6) + binary_concat(v, 12, 10, 3)
c_double_imm(v) == binary_concat(v, 6, 5, 6) + binary_concat(v, 12, 10, 3)
c_addi16sp_imm(v) ==
    Signed(binary_concat(v, 12, 12, 9) + binary_concat(v, 6, 6, 4) + binary_concat(v, 5, 5, 6)
           + binary_concat(v, 4, 3, 7) + binary_concat(v, 2, 2, 5), 10)
c_lui_imm(v) == Signed(binary_concat(v, 12, 12, 17) + binary_concat(v, 6, 2, 12), 18)
c_j_imm(v) ==
    Signed(binary_concat(v, 12, 12, 11) + binary_concat(v, 11, 11, 4) + binary_concat(v, 10, 9, 8)
           + binary_concat(v, 8, 8, 10) + binary_concat(v, 7, 7, 6) + binary_concat(v, 6, 6, 7)
           + binary_concat(v, 5, 3, 1) + binary_concat(v, 2, 2, 5), 12)
c_b_imm(v) ==
    Signed(binary_concat(v, 12, 12, 8) + binary_concat(v, 11, 10, 3) + binary_concat(v, 6, 5, 6)
           + binary_concat(v, 4, 3, 1) + binary_concat(v, 2, 2, 5), 9)
c_lwsp_imm(v) == binary_concat(v, 6, 4, 2) + binary_concat(v, 3, 2, 6) + binary_concat(v, 12, 12, 5)
c_ldsp_imm(v) == binary_concat(v, 6, 5, 3) + binary_concat(v, 4, 2, 6) + binary_concat(v, 12, 12, 5)
c_swsp_imm(v) == binary_concat(v, 12, 9, 2) + binary_concat(v, 8, 7, 6)
c_sdsp_imm(v) == binary_concat(v, 12, 10, 3) + binary_concat(v, 9, 7, 6)

\* x[rd] = x[rd] op b
Alu(s, rd, b, op, word) == setGPR(s, rd, alu_exec(s.x[rd], b % 2^s.n, op, word, s.n))

\* A zero immediate is no operation, but for c.addi4spn where it is illegal.
NonZero(imm, s, t) == IF imm = 0 THEN s ELSE t

ExecRvcAlu(s, v) ==
    LET rd == r3(v, 7)
        b == s.x[r3(v, 2)]
        word == binary_concat(v, 12, 12, 0) = 1
        funct2 == binary_concat(v, 6, 5, 0)
    IN  IF binary_concat(v, 11, 11, 0) = 0
        THEN NonZero(c_uimm(v), s,
                     Alu(s, rd, c_uimm(v), IF binary_concat(v, 10, 10, 0) = 1 THEN "SRA" ELSE "SRL", FALSE))
        ELSE IF binary_concat(v, 10, 10, 0) = 0 THEN Alu(s, rd, c_imm(v), "AND", FALSE)
        ELSE CASE funct2 = 0 -> Alu(s, rd, b, "SUB", word)
               [] funct2 = 1 -> Alu(s, rd, b, IF word THEN "ADD" ELSE "XOR", word)
               [] funct2 = 2 /\ ~word -> Alu(s, rd, b, "OR", FALSE)
               [] funct2 = 3 /\ ~word -> Alu(s, rd, b, "AND", FALSE)
               [] OTHER -> Illegal(s)

ExecRvcRegister(s, v) ==
    LET rs1 == r5(v, 7)
        rs2 == r5(v, 2)
        link == binary_concat(v, 12, 12, 0) = 1
        target == 2 * (s.x[rs1] \div 2)
    IN  IF rs2 # 0
        THEN IF link THEN Alu(s, rs1, s.x[rs2], "ADD", FALSE) ELSE setGPR(s, rs1, s.x[rs2])
        ELSE IF rs1 = 0 THEN IF link THEN Call(s, "ebreak") ELSE Illegal(s)
        ELSE JumpTo(s, target, IF link THEN 1 ELSE 0, s.pc + 2)

\* The compressed jumps do not check their target.
Branch(s, offset) == [s EXCEPT !.npc = (s.pc + offset) % 2^s.n]

ExecRvc(s, v) ==
    LET op == rvc_opcode(v)
        rd == r5(v, 7)
        base == s.x[r3(v, 7)]
        at(offset) == (base + offset) % 2^s.n
        sp(offset) == Address(s, 2, offset)
    IN  CASE op = "ADDI4SPN" -> IF c_addi4spn_imm(v) = 0 THEN Illegal(s)
                                ELSE setGPR(s, r3(v, 2), s.x[2] + c_addi4spn_imm(v))
          [] op = "LW"    -> memRead(s, r3(v, 2), at(c_word_imm(v)), 4, FALSE)
          [] op = "LD"    -> memRead(s, r3(v, 2), at(c_double_imm(v)), 8, FALSE)
          [] op = "SW"    -> memWrite(s, at(c_word_imm(v)), 4, s.x[r3(v, 2)])
          [] op = "SD"    -> memWrite(s, at(c_double_imm(v)), 8, s.x[r3(v, 2)])
          [] op = "ADDI"  -> NonZero(c_imm(v), s, Alu(s, rd, c_imm(v), "ADD", FALSE))
          [] op = "ADDIW" -> Alu(s, rd, c_imm(v), "ADD", TRUE)
          [] op = "LI"    -> setGPR(s, rd, c_imm(v))
          [] op = "ADDI16SPN_LUI" ->
                IF rd = 2 THEN NonZero(c_addi16sp_imm(v), s, setGPR(s, rd, s.x[rd] + c_addi16sp_imm(v)))
                          ELSE NonZero(c_lui_imm(v), s, setGPR(s, rd, c_lui_imm(v)))
          [] op = "ALU"   -> ExecRvcAlu(s, v)
          [] op = "J"     -> Branch(s, c_j_imm(v))
          [] op = "BEQZ"  -> IF base = 0 THEN Branch(s, c_b_imm(v)) ELSE s
          [] op = "BNEZ"  -> IF base # 0 THEN Branch(s, c_b_imm(v)) ELSE s
          [] op = "SLLI"  -> NonZero(c_uimm(v), s, Alu(s, rd, c_uimm(v), "SLL", FALSE))
          [] op = "LWSP"  -> memRead(s, rd, sp(c_lwsp_imm(v)), 4, FALSE)
          [] op = "LDSP"  -> memRead(s, rd, sp(c_ldsp_imm(v)), 8, FALSE)
          [] op = "JR_MV_EB_JALR_ADD" -> ExecRvcRegister(s, v)
          [] op = "SWSP"  -> memWrite(s, sp(c_swsp_imm(v)), 4, s.x[r5(v, 2)])
          [] op = "SDSP"  -> memWrite(s, sp(c_sdsp_imm(v)), 8, s.x[r5(v, 2)])
          [] OTHER        -> Illegal(s)

----------------------------------------------------------------------------
(* Step_CoreAPI.                                                           *)

is_compressed(i) == "val" \in DOMAIN i

Execute(s, i) == IF is_compressed(i) THEN ExecRvc(s, i.val) ELSE ExecBase(s, i)

\* The pc after the instruction; a trap goes to the vector RV64Privilege finds.
Epilogue(s, i) ==
    IF s.trap # NoTrap THEN s
    ELSE [s EXCEPT !.pc = IF s.npc # NoPc THEN s.npc
                          ELSE (s.pc + (IF is_compressed(i) THEN 2 ELSE 4)) % 2^s.n]

CONSTANT
    Program      \* what is executed: in each part every instruction on every hart,
                 \* given by its width, registers and pc

\* A hart has registers of n bits, x0 is zero, its pc is even, as every jump
\* keeps it, and what it loads has the bits it asks for.
TypedHart(s) ==
    /\ s.n \in Nat /\ s.n >= 6 /\ s.n % 2 = 0
    /\ s.x \in [0 .. 31 -> 0 .. 2^s.n - 1] /\ s.x[0] = 0
    /\ s.pc \in 0 .. 2^s.n - 1 /\ s.pc % PC_ALIGN = 0
    /\ \A r \in 0 .. 31, m \in {s.n \div 2, s.n} : Loaded(s.x[r], m) \in 0 .. 2^m - 1

\* The fields have their bits; a compressed instruction has three above bit 12
\* and its two lowest are not both set.
TypedInst(i) ==
    IF is_compressed(i) THEN i.val \in Nat /\ i.val \div 8192 \in 0 .. 7 /\ i.val % 4 # 3
    ELSE /\ i.rd \in 0 .. 31 /\ i.rs1 \in 0 .. 31 /\ i.rs2 \in 0 .. 31
         /\ i.funct3 \in 0 .. 7 /\ i.funct7 \in 0 .. 127

\* The shifts of words count on half a register being a power of two.
ShiftsWords(i) == ~is_compressed(i) /\ i.opcode = "OP32"
PowerOfTwo(m) == \E e \in 0 .. m : m = 2^e

ASSUME ProgramAssumption ==
    \A k \in DOMAIN Program :
        /\ \A s \in Program[k].harts : TypedHart(s)
        /\ \A i \in Program[k].insts :
              TypedInst(i) /\ (ShiftsWords(i) => \A s \in Program[k].harts : PowerOfTwo(s.n \div 2))

VARIABLES
    hart,
    inst,
    before       \* history: the hart before the instruction

vars == <<hart, inst, before>>

Init ==
    /\ \E k \in DOMAIN Program :
          /\ \E s \in Program[k].harts : hart = Hart(s.n, s.x, s.pc)
          /\ inst \in Program[k].insts
    /\ before = hart

Step_CoreAPI ==
    /\ hart = before
    /\ hart' = Epilogue(Execute(hart, inst), inst)
    /\ UNCHANGED <<inst, before>>

Spec == Init /\ [][Step_CoreAPI]_vars

----------------------------------------------------------------------------
(* Properties.                                                             *)

Done == hart # before

\* The 32-bit reading of a register.
Low(v, word) == IF word THEN v % 2^(hart.n \div 2) ELSE v
Width(word) == IF word THEN hart.n \div 2 ELSE hart.n

\* alu_exec and its decoding give every register-register instruction the
\* result of the architecture, at both widths and at the edges of division,
\* shifts and signs; a word result is sign-extended.
AluMatchesIsa ==
    \A op \in DOMAIN Encoding, word \in BOOLEAN :
        /\ Done
        /\ ~is_compressed(inst) /\ inst.opcode = (IF word THEN "OP32" ELSE "OP")
        /\ <<inst.funct7, inst.funct3>> = Encoding[op]
        /\ inst.rd # 0
        => IF word /\ Encoding[op] \notin WordEncoding THEN hart.trap.cause = "illegal_instr"
           ELSE LET r == hart.x[inst.rd]
                IN  /\ IsResult(op, Low(before.x[inst.rs1], word), Low(before.x[inst.rs2], word),
                                Low(r, word), Width(word))
                    /\ word => r = SInt(Low(r, word), Width(word)) % 2^hart.n

\* An atomic operation returns what was in memory and writes what the
\* architecture computes from it.  A minimum or maximum of words is left out
\* when the source register does not hold a sign-extended word: pa_amo_op
\* compares all of it.
AmoMatchesIsa ==
    \A op \in DOMAIN AmoEncoding, word \in BOOLEAN :
        /\ Done /\ hart.trap = NoTrap
        /\ ~is_compressed(inst) /\ inst.opcode = "AMO"
        /\ inst.funct7 \div 4 = AmoEncoding[op] /\ inst.funct3 = (IF word THEN 2 ELSE 3)
        => LET src == before.x[inst.rs2]
               memory == Loaded(before.x[inst.rs1], Width(word))
               extended == src = SInt(Low(src, word), Width(word)) % 2^hart.n
           IN  /\ inst.rd # 0 => hart.x[inst.rd] = SInt(memory, Width(word)) % 2^hart.n
               /\ op \notin {"MIN", "MAX", "MINU", "MAXU"} \/ extended
                     => IsAmo(op, memory, Low(src, word), hart.stored.data, Width(word))

\* A compressed instruction does what the instruction it stands for does, with
\* its own length for the link register: two decoders, two sets of immediates
\* and two copies of every operation agree.  Left out are the reserved c.lui
\* and jumps to an odd address, whose low bit only the compressed ones clear.
CompressedAgrees ==
    /\ Done /\ is_compressed(inst) /\ ~Reserved(inst.val)
    /\ IsRegisterJump(inst.val) => before.x[Reg(inst.val, 7)] % 2 = 0
    => LET base == ExecBase(before, Expand(inst.val))
           links == IsRegisterJump(inst.val) /\ Bit(inst.val, 12) = 1
       IN  /\ hart.x = IF links THEN [base.x EXCEPT ![1] = (before.pc + 2) % 2^before.n] ELSE base.x
           /\ hart.npc = base.npc /\ hart.trap = base.trap
           /\ hart.stored = base.stored /\ hart.call = base.call

\* An instruction that traps has changed no register and no memory, and the pc
\* is its own.
TrapsArePrecise ==
    hart.trap # NoTrap => hart.x = before.x /\ hart.pc = before.pc /\ hart.stored = NoStore
============================================================================
