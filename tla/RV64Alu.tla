------------------------------ MODULE RV64Alu ------------------------------
(***************************************************************************)
(* The arithmetic of the core: alu_exec (rv64_common.hpp) and the atomic   *)
(* operations of pa_amo_op (rv64_amo.hpp).                                 *)
(*                                                                         *)
(* The width n of a register is a parameter; it is 64 in the code.  A      *)
(* 32-bit operation works on half of it.  A register is a number below     *)
(* 2^n, which a signed type reads as two's complement.  Shift amounts are  *)
(* masked with n - 1, so n is a power of two where they count.             *)
(***************************************************************************)
EXTENDS Binary

Signed(v, n) == IF v >= 2^(n - 1) THEN v - 2^n ELSE v
\* The low m bits of v, sign-extended to n bits.
Extend(v, m, n) == Signed(v % 2^m, m) % 2^n

Magnitude(v) == IF v < 0 THEN -v ELSE v
\* Division and remainder of C++: towards zero, the sign of the dividend.
Quotient(a, b) ==
    IF (a < 0) = (b < 0) THEN Magnitude(a) \div Magnitude(b) ELSE -(Magnitude(a) \div Magnitude(b))
Remainder(a, b) == a - b * Quotient(a, b)

ShiftLeft(a, s, n) == (a % 2^(n - s)) * 2^s
ShiftRight(a, s) == a \div 2^s         \* arithmetic on a negative number

\* The operators of C++ on the bits of a and b, of which there are n.
BitAnd(a, b, n) == FromBits([i \in 0 .. n - 1 |-> Bit(a, i) * Bit(b, i)], n)
BitOr(a, b, n) == FromBits([i \in 0 .. n - 1 |-> Bit(a, i) + Bit(b, i) - Bit(a, i) * Bit(b, i)], n)
BitXor(a, b, n) == FromBits([i \in 0 .. n - 1 |-> (Bit(a, i) + Bit(b, i)) % 2], n)

\* The switch of alu_exec.  word says whether the operation is a 32-bit one,
\* whose operands are sign-extended words; low gives their unsigned reading
\* where the code casts to uint32_t.
AluResult(a, b, op, word, n) ==
    LET h == n \div 2
        shamt == b % (IF word THEN h ELSE n)
        low(v) == IF word THEN v % 2^h ELSE v
        sa == Signed(a, n)
        sb == Signed(b, n)
        min == -(2^(n - 1))
    IN  CASE op = "ADD"    -> a + b
          [] op = "SUB"    -> a - b
          [] op = "SLL"    -> ShiftLeft(a, shamt, n)
          [] op = "SLT"    -> IF sa < sb THEN 1 ELSE 0
          [] op = "SLTU"   -> IF a < b THEN 1 ELSE 0
          [] op = "XOR"    -> BitXor(a, b, n)
          [] op = "SRL"    -> ShiftRight(low(a), shamt)
          [] op = "SRA"    -> ShiftRight(sa, shamt)
          [] op = "OR"     -> BitOr(a, b, n)
          [] op = "AND"    -> BitAnd(a, b, n)
          [] op = "MUL"    -> sa * sb
          [] op = "MULH"   -> (sa * sb) \div 2^n
          [] op = "MULHU"  -> (a * b) \div 2^n
          [] op = "MULHSU" -> (sa * b) \div 2^n
          [] op = "DIV"    -> IF b = 0 THEN -1 ELSE IF sa = min /\ sb = -1 THEN min ELSE Quotient(sa, sb)
          [] op = "DIVU"   -> IF b = 0 THEN -1 ELSE low(a) \div low(b)
          [] op = "REM"    -> IF b = 0 THEN a ELSE IF sa = min /\ sb = -1 THEN 0 ELSE Remainder(sa, sb)
          [] op = "REMU"   -> IF b = 0 THEN a ELSE low(a) % low(b)

\* Mutant: the result of a 32-bit operation is not sign-extended.
alu_exec_unextended(a, b, op, word, n) ==
    LET operand(v) == IF word THEN Extend(v, n \div 2, n) ELSE v
    IN  AluResult(operand(a), operand(b), op, word, n) % 2^(IF word THEN n \div 2 ELSE n)

alu_exec(a, b, op, word, n) ==
    LET operand(v) == IF word THEN Extend(v, n \div 2, n) ELSE v
    IN  Extend(AluResult(operand(a), operand(b), op, word, n), IF word THEN n \div 2 ELSE n, n)

\* What an atomic operation computes from the source register and the memory
\* operand, which is a sign-extended word in a 32-bit one.
AmoResult(src, res, op, n) ==
    CASE op = "SWAP" -> src
      [] op = "ADD"  -> src + res
      [] op = "AND"  -> BitAnd(src, res, n)
      [] op = "OR"   -> BitOr(src, res, n)
      [] op = "XOR"  -> BitXor(src, res, n)
      [] op = "MAX"  -> IF Signed(src, n) < Signed(res, n) THEN res ELSE src
      [] op = "MIN"  -> IF Signed(res, n) < Signed(src, n) THEN res ELSE src
      [] op = "MAXU" -> IF src < res THEN res ELSE src
      [] op = "MINU" -> IF res < src THEN res ELSE src

\* Mutant: the memory operand of a 32-bit operation is not sign-extended.
pa_amo_op_unextended(memory, src, op, word, n) ==
    LET m == IF word THEN n \div 2 ELSE n
    IN  [dst |-> memory % 2^m, to_write |-> AmoResult(src, memory % 2^m, op, n) % 2^m]

\* The value for the register and the value for the memory.
pa_amo_op(memory, src, op, word, n) ==
    LET m == IF word THEN n \div 2 ELSE n
        res == Extend(memory, m, n)
    IN  [dst |-> res, to_write |-> AmoResult(src, res, op, n) % 2^m]
============================================================================
