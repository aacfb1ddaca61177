------------------------------ MODULE RV64Isa ------------------------------
(***************************************************************************)
(* What the unprivileged architecture says of the instructions RV64Exec    *)
(* models, stated without the core's own definitions: an operation by a    *)
(* relation between its operands and its result, at any width; a           *)
(* compressed instruction by the 32-bit instruction it stands for, with    *)
(* the bits of its immediate in the order of the manual's tables.          *)
(*                                                                         *)
(* The architecture is external to the repository.                         *)
(***************************************************************************)
EXTENDS Binary, Sequences

SInt(v, w) == (v % 2^(w - 1)) - Bit(v, w - 1) * 2^(w - 1)
Abs(v) == IF v < 0 THEN -v ELSE v

\* The remainder belongs to a division towards zero of a by b.
IsRemainder(r, a, b) == Abs(r) < Abs(b) /\ (r # 0 => (r < 0 <=> a < 0))

\* r is the result of op on a and b, all of w bits.
IsResult(op, a, b, r, w) ==
    LET s == b % w
        sa == SInt(a, w)
        sb == SInt(b, w)
        sr == SInt(r, w)
        bits(F(_)) == \A i \in 0 .. w - 1 : Bit(r, i) = F(i)
        high(p, q) == p - q * 2^w \in 0 .. 2^w - 1
        overflow == b = 2^w - 1 /\ a = 2^(w - 1)
        less == IF Bit(a, w - 1) # Bit(b, w - 1) THEN Bit(a, w - 1) = 1 ELSE a < b
    IN  CASE op = "ADD"  -> (a + b - r) % 2^w = 0
          [] op = "SUB"  -> (a - b - r) % 2^w = 0
          [] op = "SLL"  -> bits(LAMBDA i : IF i < s THEN 0 ELSE Bit(a, i - s))
          [] op = "SRL"  -> bits(LAMBDA i : IF i + s < w THEN Bit(a, i + s) ELSE 0)
          [] op = "SRA"  -> bits(LAMBDA i : IF i + s < w THEN Bit(a, i + s) ELSE Bit(a, w - 1))
          [] op = "XOR"  -> bits(LAMBDA i : IF Bit(a, i) = Bit(b, i) THEN 0 ELSE 1)
          [] op = "OR"   -> bits(LAMBDA i : IF Bit(a, i) = 1 THEN 1 ELSE Bit(b, i))
          [] op = "AND"  -> bits(LAMBDA i : IF Bit(a, i) = 1 THEN Bit(b, i) ELSE 0)
          [] op = "SLT"  -> r \in {0, 1} /\ (r = 1 <=> less)
          [] op = "SLTU" -> r \in {0, 1} /\ (r = 1 <=> a < b)
          [] op = "MUL"  -> (a * b - r) % 2^w = 0
          [] op = "MULH" -> high(sa * sb, sr)
          [] op = "MULHU"  -> high(a * b, r)
          [] op = "MULHSU" -> high(sa * b, sr)
          [] op = "DIV"  -> IF b = 0 THEN sr = -1 ELSE IF overflow THEN r = a
                            ELSE IsRemainder(sa - sb * sr, sa, sb)
          [] op = "DIVU" -> IF b = 0 THEN r = 2^w - 1 ELSE a - b * r \in 0 .. b - 1
          [] op = "REM"  -> IF b = 0 THEN r = a ELSE IF overflow THEN r = 0
                            ELSE IsRemainder(sr, sa, sb) /\ (sa - sr) % Abs(sb) = 0
          [] op = "REMU" -> IF b = 0 THEN r = a ELSE r < b /\ (a - r) % b = 0

\* funct7 and funct3 of the register-register operations.
Encoding ==
    [ADD |-> <<0, 0>>, SUB |-> <<32, 0>>, SLL |-> <<0, 1>>, SLT |-> <<0, 2>>, SLTU |-> <<0, 3>>,
     XOR |-> <<0, 4>>, SRL |-> <<0, 5>>, SRA |-> <<32, 5>>, OR |-> <<0, 6>>, AND |-> <<0, 7>>,
     MUL |-> <<1, 0>>, MULH |-> <<1, 1>>, MULHSU |-> <<1, 2>>, MULHU |-> <<1, 3>>,
     DIV |-> <<1, 4>>, DIVU |-> <<1, 5>>, REM |-> <<1, 6>>, REMU |-> <<1, 7>>]

WordEncoding ==
    {Encoding[op] : op \in {"ADD", "SUB", "SLL", "SRL", "SRA", "MUL", "DIV", "DIVU", "REM", "REMU"}}

\* An atomic operation on memory m and register a writes r.
IsAmo(op, m, a, r, w) ==
    CASE op = "SWAP" -> r = a
      [] op \in {"ADD", "AND", "OR", "XOR"} -> IsResult(op, m, a, r, w)
      [] op = "MIN"  -> r \in {m, a} /\ SInt(r, w) <= SInt(m, w) /\ SInt(r, w) <= SInt(a, w)
      [] op = "MAX"  -> r \in {m, a} /\ SInt(r, w) >= SInt(m, w) /\ SInt(r, w) >= SInt(a, w)
      [] op = "MINU" -> r \in {m, a} /\ r <= m /\ r <= a
      [] op = "MAXU" -> r \in {m, a} /\ r >= m /\ r >= a

\* funct5 of the atomic operations.
AmoEncoding ==
    [SWAP |-> 1, ADD |-> 0, XOR |-> 4, AND |-> 12, OR |-> 8, MIN |-> 16, MAX |-> 20,
     MINU |-> 24, MAXU |-> 28]

----------------------------------------------------------------------------
(* Compressed instructions.                                                *)

\* The bits of v from bit hi down, each moved to the place the table gives.
Scatter(v, hi, places) ==
    SumOf([k \in DOMAIN places |-> Bit(v, hi - k + 1) * 2^places[k]], Len(places))

RType(opcode, funct7, funct3, rd, rs1, rs2) ==
    [opcode |-> opcode, rd |-> rd, funct3 |-> funct3, rs1 |-> rs1, rs2 |-> rs2, funct7 |-> funct7]
IType(opcode, funct3, rd, rs1, imm) == RType(opcode, (imm \div 32) % 128, funct3, rd, rs1, imm % 32)
SType(funct3, rs1, rs2, imm) == RType("STORE", (imm \div 32) % 128, funct3, imm % 32, rs1, rs2)
\* imm[12|10:5] and imm[4:1|11].
BType(funct3, rs1, rs2, imm) ==
    RType("BRANCH", Bit(imm, 12) * 64 + ((imm \div 32) % 64), funct3,
          ((imm \div 2) % 16) * 2 + Bit(imm, 11), rs1, rs2)
\* imm[31:12].
UType(rd, imm) ==
    LET u == imm \div 4096
    IN  RType("LUI", (u \div 8192) % 128, u % 8, rd, (u \div 8) % 32, (u \div 256) % 32)
\* imm[20|10:1|11|19:12].
JType(rd, imm) ==
    RType("JAL", Bit(imm, 20) * 64 + ((imm \div 32) % 64), (imm \div 4096) % 8, rd, (imm \div 32768) % 32,
          ((imm \div 2) % 16) * 2 + Bit(imm, 11))

Undefined == RType("none", 0, 0, 0, 0, 0)

Reg(v, lo) == (v \div 2^lo) % 32
Reg3(v, lo) == 8 + ((v \div 2^lo) % 8)

Quadrant0(v) ==
    LET word == Scatter(v, 12, <<5, 4, 3>>) + Scatter(v, 6, <<2, 6>>)
        double == Scatter(v, 12, <<5, 4, 3>>) + Scatter(v, 6, <<7, 6>>)
        spn == Scatter(v, 12, <<5, 4, 9, 8, 7, 6, 2, 3>>)
        f == v \div 8192
    IN  CASE f = 0 /\ spn # 0 -> IType("OPIMM", 0, Reg3(v, 2), 2, spn)
          [] f = 2 -> IType("LOAD", 2, Reg3(v, 2), Reg3(v, 7), word)
          [] f = 3 -> IType("LOAD", 3, Reg3(v, 2), Reg3(v, 7), double)
          [] f = 6 -> SType(2, Reg3(v, 7), Reg3(v, 2), word)
          [] f = 7 -> SType(3, Reg3(v, 7), Reg3(v, 2), double)
          [] OTHER -> Undefined

Quadrant1(v) ==
    LET rd == Reg(v, 7)
        rd3 == Reg3(v, 7)
        rs3 == Reg3(v, 2)
        six == Scatter(v, 12, <<5>>) + Scatter(v, 6, <<4, 3, 2, 1, 0>>)
        imm == SInt(six, 6)
        sixteen == SInt(Scatter(v, 12, <<9>>) + Scatter(v, 6, <<4, 6, 8, 7, 5>>), 10)
        upper == SInt(Scatter(v, 12, <<17>>) + Scatter(v, 6, <<16, 15, 14, 13, 12>>), 18)
        jump == SInt(Scatter(v, 12, <<11, 4, 9, 8, 10, 6, 7, 3, 2, 1, 5>>), 12)
        branch == SInt(Scatter(v, 12, <<8, 4, 3>>) + Scatter(v, 6, <<7, 6, 2, 1, 5>>), 9)
        f == v \div 8192
        f2 == (v \div 1024) % 4
        arith == <<Bit(v, 12), (v \div 32) % 4>>
    IN  CASE f = 0 -> IType("OPIMM", 0, rd, rd, imm)
          [] f = 1 -> IType("OPIMM32", 0, rd, rd, imm)
          [] f = 2 -> IType("OPIMM", 0, rd, 0, imm)
          [] f = 3 /\ rd = 2 -> IType("OPIMM", 0, 2, 2, sixteen)
          [] f = 3 /\ rd # 2 -> UType(rd, upper)
          [] f = 4 /\ f2 = 0 -> IType("OPIMM", 5, rd3, rd3, six)
          [] f = 4 /\ f2 = 1 -> IType("OPIMM", 5, rd3, rd3, 1024 + six)
          [] f = 4 /\ f2 = 2 -> IType("OPIMM", 7, rd3, rd3, imm)
          [] f = 4 /\ f2 = 3 /\ arith = <<0, 0>> -> RType("OP", 32, 0, rd3, rd3, rs3)
          [] f = 4 /\ f2 = 3 /\ arith = <<0, 1>> -> RType("OP", 0, 4, rd3, rd3, rs3)
          [] f = 4 /\ f2 = 3 /\ arith = <<0, 2>> -> RType("OP", 0, 6, rd3, rd3, rs3)
          [] f = 4 /\ f2 = 3 /\ arith = <<0, 3>> -> RType("OP", 0, 7, rd3, rd3, rs3)
          [] f = 4 /\ f2 = 3 /\ arith = <<1, 0>> -> RType("OP32", 32, 0, rd3, rd3, rs3)
          [] f = 4 /\ f2 = 3 /\ arith = <<1, 1>> -> RType("OP32", 0, 0, rd3, rd3, rs3)
          [] f = 5 -> JType(0, jump)
          [] f = 6 -> BType(0, rd3, 0, branch)
          [] f = 7 -> BType(1, rd3, 0, branch)
          [] OTHER -> Undefined

Quadrant2(v) ==
    LET rd == Reg(v, 7)
        rs2 == Reg(v, 2)
        six == Scatter(v, 12, <<5>>) + Scatter(v, 6, <<4, 3, 2, 1, 0>>)
        f == v \div 8192
        link == Bit(v, 12)
    IN  CASE f = 0 -> IType("OPIMM", 1, rd, rd, six)
          [] f = 2 -> IType("LOAD", 2, rd, 2, Scatter(v, 12, <<5>>) + Scatter(v, 6, <<4, 3, 2, 7, 6>>))
          [] f = 3 -> IType("LOAD", 3, rd, 2, Scatter(v, 12, <<5>>) + Scatter(v, 6, <<4, 3, 8, 7, 6>>))
          [] f = 4 /\ rs2 # 0 -> RType("OP", 0, 0, rd, IF link = 1 THEN rd ELSE 0, rs2)
          [] f = 4 /\ rs2 = 0 /\ rd # 0 -> IType("JALR", 0, link, rd, 0)
          [] f = 4 /\ rs2 = 0 /\ rd = 0 /\ link = 1 -> IType("SYSTEM", 0, 0, 0, 1)
          [] f = 6 -> SType(2, 2, rs2, Scatter(v, 12, <<5, 4, 3, 2, 7, 6>>))
          [] f = 7 -> SType(3, 2, rs2, Scatter(v, 12, <<5, 4, 3, 8, 7, 6>>))
          [] OTHER -> Undefined

Expand(v) == CASE v % 4 = 0 -> Quadrant0(v) [] v % 4 = 1 -> Quadrant1(v) [] v % 4 = 2 -> Quadrant2(v)

\* c.lui with a zero immediate.
Reserved(v) == v % 4 = 1 /\ v \div 8192 = 3 /\ Reg(v, 7) # 2 /\ Bit(v, 12) = 0 /\ Reg(v, 2) = 0

\* c.jr and c.jalr.
IsRegisterJump(v) == v % 4 = 2 /\ v \div 8192 = 4 /\ Reg(v, 2) = 0 /\ Reg(v, 7) # 0
============================================================================
