--------------------------- MODULE RV64ExecProofs ---------------------------
(***************************************************************************)
(* Theorems about RV64Exec, for registers of any even width, any memory    *)
(* and any program:                                                        *)
(*   - a trap is precise;                                                  *)
(*   - alu_exec and its decoder compute what the architecture defines;     *)
(*   - so does pa_amo_op;                                                  *)
(*   - a compressed instruction does what the one it stands for does.      *)
(* The model computes with \div, % and powers of two, the architecture with *)
(* exact integers, signs and bits: between the two stands the arithmetic   *)
(* of 2^n, of which the provers know nothing.  It is built here from what  *)
(* the library says of finite sets (2^n is the number of subsets of 1..n)  *)
(* and of well-founded relations (a set of naturals with 0 and, with each  *)
(* of its elements, the next, is all of them).                             *)
(***************************************************************************)
EXTENDS RV64Exec, FiniteSetTheorems, WellFoundedInduction, TLAPS

----------------------------------------------------------------------------
(* A trap is precise.                                                      *)

IsHart(s) ==
    s = [n |-> s.n, x |-> s.x, pc |-> s.pc, npc |-> s.npc, trap |-> s.trap, stored |-> s.stored,
         call |-> s.call]

\* From s to t the pc stays, and a trap is raised only if nothing is written.
Precise(s, t) ==
    /\ IsHart(t)
    /\ t.n = s.n /\ t.pc = s.pc
    /\ t.trap = s.trap \/ (t.x = s.x /\ t.stored = s.stored)

----------------------------------------------------------------------------
(* What the instructions are built from.                                   *)

LEMMA NothingIsPrecise ==
    ASSUME NEW s, IsHart(s)
    PROVE  Precise(s, s)
BY DEF Precise

\* What has raised no trap may go on to write memory, or to jump.
LEMMA WritePrecise ==
    ASSUME NEW s, NEW t, Precise(s, t), t.trap = s.trap, NEW v
    PROVE  Precise(s, [t EXCEPT !.stored = v]) /\ Precise(s, [t EXCEPT !.npc = v])
BY DEF Precise, IsHart

\* A register write raises no trap.
LEMMA setGPRPrecise ==
    ASSUME NEW s, IsHart(s), NEW rd, NEW v
    PROVE  Precise(s, setGPR(s, rd, v)) /\ setGPR(s, rd, v).trap = s.trap
<1>1. CASE rd = 0
    BY <1>1 DEF Precise, setGPR
<1>2. CASE rd # 0
    BY <1>2 DEF Precise, setGPR, IsHart
<1> QED BY <1>1, <1>2

LEMMA raiseTrapPrecise ==
    ASSUME NEW s, IsHart(s), NEW cause, NEW tval
    PROVE  Precise(s, raiseTrap(s, cause, tval)) /\ Precise(s, Illegal(s))
BY DEF Precise, raiseTrap, Illegal, IsHart

LEMMA CallPrecise ==
    ASSUME NEW s, IsHart(s), NEW name
    PROVE  Precise(s, Call(s, name))
BY DEF Precise, Call, IsHart

LEMMA JumpToPrecise ==
    ASSUME NEW s, IsHart(s), NEW target, NEW rd, NEW link
    PROVE  Precise(s, JumpTo(s, target, rd, link))
<1>1. CASE target % PC_ALIGN # 0
    BY <1>1, raiseTrapPrecise DEF JumpTo
<1>2. CASE target % PC_ALIGN = 0
    <2> DEFINE t == setGPR(s, rd, link)
    <2>1. Precise(s, t) /\ t.trap = s.trap
        BY setGPRPrecise
    <2>2. JumpTo(s, target, rd, link) = [t EXCEPT !.npc = target]
        BY <1>2 DEF JumpTo
    <2> HIDE DEF t
    <2>3. Precise(s, [t EXCEPT !.npc = target])
        BY <2>1, WritePrecise, Zenon
    <2> QED BY <2>2, <2>3
<1> QED BY <1>1, <1>2

\* A load or a store that faults writes neither register nor memory.
LEMMA memReadPrecise ==
    ASSUME NEW s, IsHart(s), NEW rd, NEW addr, NEW size, NEW unsigned
    PROVE  Precise(s, memRead(s, rd, addr, size, unsigned))
BY setGPRPrecise, raiseTrapPrecise DEF memRead

LEMMA memWritePrecise ==
    ASSUME NEW s, IsHart(s), NEW addr, NEW size, NEW v
    PROVE  Precise(s, memWrite(s, addr, size, v))
<1>1. CASE addr % size # 0 \/ addr \in Faulting
    BY <1>1, raiseTrapPrecise DEF memWrite
<1>2. CASE addr % size = 0 /\ addr \notin Faulting
    BY <1>2 DEF memWrite, Precise, IsHart
<1> QED BY <1>1, <1>2

----------------------------------------------------------------------------
(* 32-bit instructions.                                                    *)

LEMMA ExecAmoPrecise ==
    ASSUME NEW s, IsHart(s), NEW i
    PROVE  Precise(s, ExecAmo(s, i))
<1> DEFINE funct5 == i.funct7 \div 4
           size == 2^i.funct3
           addr == s.x[i.rs1]
           amo == pa_amo_op(Loaded(addr, Bits(s, size)), s.x[i.rs2], AmoOp(funct5), size = 4, s.n)
           t == setGPR(s, i.rd, amo.dst)
           written == [addr |-> addr, size |-> size, data |-> amo.to_write]
           u == [t EXCEPT !.stored = written]
<1>1. Precise(s, u)
    <2>1. Precise(s, t) /\ t.trap = s.trap
        BY setGPRPrecise
    <2> HIDE DEF t, written
    <2> QED BY <2>1, WritePrecise
<1>2. ExecAmo(s, i) \in {Illegal(s), Call(s, "LR"), Call(s, "SC"),
                         raiseTrap(s, "store_fault", addr), u}
    <2> HIDE DEF addr, amo, u
    <2>1. ExecAmo(s, i) = IF i.funct3 \notin {2, 3} THEN Illegal(s)
                          ELSE IF funct5 = 2 THEN IF i.rs2 # 0 THEN Illegal(s) ELSE Call(s, "LR")
                          ELSE IF funct5 = 3 THEN Call(s, "SC")
                          ELSE IF AmoOp(funct5) = "none" THEN Illegal(s)
                          ELSE IF addr \in Faulting THEN raiseTrap(s, "store_fault", addr)
                          ELSE u
        BY Zenon DEF ExecAmo, addr, amo, u
    <2> QED BY <2>1
<1> HIDE DEF addr, u
<1> QED BY <1>1, <1>2, raiseTrapPrecise, CallPrecise

LEMMA ExecSystemPrecise ==
    ASSUME NEW s, IsHart(s), NEW i
    PROVE  Precise(s, ExecSystem(s, i))
<1>1. ExecSystem(s, i) \in {s, Illegal(s), Call(s, "csr"), Call(s, "ecall"), Call(s, "ebreak"),
                            Call(s, "sret"), Call(s, "mret"), Call(s, "sfence_vma")}
    BY DEF ExecSystem
<1> QED BY <1>1, NothingIsPrecise, raiseTrapPrecise, CallPrecise

LEMMA ExecBasePrecise ==
    ASSUME NEW s, IsHart(s), NEW i
    PROVE  Precise(s, ExecBase(s, i))
<1>1. Precise(s, ExecBranch(s, i))
    BY NothingIsPrecise, raiseTrapPrecise, JumpToPrecise DEF ExecBranch
<1>2. Precise(s, ExecLoad(s, i)) /\ Precise(s, ExecStore(s, i))
    BY raiseTrapPrecise, memReadPrecise, memWritePrecise DEF ExecLoad, ExecStore
<1>3. \A word \in BOOLEAN : Precise(s, ExecOpImm(s, i, word)) /\ Precise(s, ExecOp(s, i, word))
    BY raiseTrapPrecise, setGPRPrecise DEF ExecOpImm, ExecOp
<1>4. \/ ExecBase(s, i) \in {s, Illegal(s), ExecBranch(s, i), ExecLoad(s, i), ExecStore(s, i),
                             ExecAmo(s, i), ExecSystem(s, i)}
      \/ \E word \in BOOLEAN : ExecBase(s, i) \in {ExecOpImm(s, i, word), ExecOp(s, i, word)}
      \/ ExecBase(s, i) \in {setGPR(s, i.rd, u_imm(i)), setGPR(s, i.rd, s.pc + u_imm(i))}
      \/ ExecBase(s, i) = JumpTo(s, (s.pc + j_imm(i)) % 2^s.n, i.rd, s.pc + 4)
      \/ ExecBase(s, i) = JumpTo(s, Address(s, i.rs1, 2 * (imm12(i) \div 2)), i.rd, s.pc + 4)
    BY DEF ExecBase
<1> QED
    BY <1>1, <1>2, <1>3, <1>4, NothingIsPrecise, raiseTrapPrecise, setGPRPrecise, JumpToPrecise,
       ExecAmoPrecise, ExecSystemPrecise

----------------------------------------------------------------------------
(* Compressed instructions.                                                *)

LEMMA AluPrecise ==
    ASSUME NEW s, IsHart(s), NEW rd, NEW b, NEW op, NEW word
    PROVE  Precise(s, Alu(s, rd, b, op, word))
BY setGPRPrecise DEF Alu

LEMMA NonZeroPrecise ==
    ASSUME NEW s, IsHart(s), NEW imm, NEW t, Precise(s, t)
    PROVE  Precise(s, NonZero(imm, s, t))
BY NothingIsPrecise DEF NonZero

LEMMA ExecRvcAluPrecise ==
    ASSUME NEW s, IsHart(s), NEW v
    PROVE  Precise(s, ExecRvcAlu(s, v))
<1> DEFINE rd == r3(v, 7)
           b == s.x[r3(v, 2)]
           word == binary_concat(v, 12, 12, 0) = 1
           funct2 == binary_concat(v, 6, 5, 0)
           shift == Alu(s, rd, c_uimm(v), IF binary_concat(v, 10, 10, 0) = 1 THEN "SRA" ELSE "SRL", FALSE)
<1>1. CASE binary_concat(v, 11, 11, 0) = 0 \/ binary_concat(v, 10, 10, 0) = 0
    <2>1. ExecRvcAlu(s, v) \in {NonZero(c_uimm(v), s, shift), Alu(s, rd, c_imm(v), "AND", FALSE)}
        BY <1>1 DEF ExecRvcAlu
    <2> QED BY <2>1, AluPrecise, NonZeroPrecise
<1>2. CASE binary_concat(v, 11, 11, 0) # 0 /\ binary_concat(v, 10, 10, 0) # 0
    <2> DEFINE sub == Alu(s, rd, b, "SUB", word)
               xor == Alu(s, rd, b, IF word THEN "ADD" ELSE "XOR", word)
               or == Alu(s, rd, b, "OR", FALSE)
               and == Alu(s, rd, b, "AND", FALSE)
    <2>1. ExecRvcAlu(s, v) = CASE funct2 = 0 -> sub
                               [] funct2 = 1 -> xor
                               [] funct2 = 2 /\ ~word -> or
                               [] funct2 = 3 /\ ~word -> and
                               [] OTHER -> Illegal(s)
        BY <1>2 DEF ExecRvcAlu
    <2>2. Precise(s, sub) /\ Precise(s, or) /\ Precise(s, and)
        BY AluPrecise
    <2>3. Precise(s, xor)
        <3> HIDE DEF rd, b, word
        <3> QED BY AluPrecise
    <2> HIDE DEF sub, xor, or, and, funct2, word
    <2>4. ExecRvcAlu(s, v) \in {sub, xor, or, and, Illegal(s)}
        BY <2>1
    <2> QED BY <2>2, <2>3, <2>4, raiseTrapPrecise
<1> QED BY <1>1, <1>2

LEMMA ExecRvcRegisterPrecise ==
    ASSUME NEW s, IsHart(s), NEW v
    PROVE  Precise(s, ExecRvcRegister(s, v))
<1> DEFINE rs1 == r5(v, 7)
           rs2 == r5(v, 2)
           link == binary_concat(v, 12, 12, 0) = 1
           target == 2 * (s.x[rs1] \div 2)
<1>1. \/ ExecRvcRegister(s, v) \in {Call(s, "ebreak"), Illegal(s)}
      \/ ExecRvcRegister(s, v) = Alu(s, rs1, s.x[rs2], "ADD", FALSE)
      \/ ExecRvcRegister(s, v) = setGPR(s, rs1, s.x[rs2])
      \/ ExecRvcRegister(s, v) = JumpTo(s, target, IF link THEN 1 ELSE 0, s.pc + 2)
    BY DEF ExecRvcRegister
<1> HIDE DEF rs1, rs2, link, target
<1> QED BY <1>1, AluPrecise, setGPRPrecise, CallPrecise, raiseTrapPrecise, JumpToPrecise

LEMMA BranchPrecise ==
    ASSUME NEW s, IsHart(s), NEW offset
    PROVE  Precise(s, Branch(s, offset))
BY DEF Branch, Precise, IsHart

LEMMA ExecRvcPrecise ==
    ASSUME NEW s, IsHart(s), NEW v
    PROVE  Precise(s, ExecRvc(s, v))
<1>1. \/ ExecRvc(s, v) \in {s, Illegal(s), ExecRvcAlu(s, v), ExecRvcRegister(s, v)}
      \/ \E rd, w : ExecRvc(s, v) = setGPR(s, rd, w)
      \/ \E rd, a, size, u : ExecRvc(s, v) = memRead(s, rd, a, size, u)
      \/ \E a, size, w : ExecRvc(s, v) = memWrite(s, a, size, w)
      \/ \E rd, b, op, word : ExecRvc(s, v) = Alu(s, rd, b, op, word)
      \/ \E imm, rd, b, op, word : ExecRvc(s, v) = NonZero(imm, s, Alu(s, rd, b, op, word))
      \/ \E imm, rd, w : ExecRvc(s, v) = NonZero(imm, s, setGPR(s, rd, w))
      \/ \E offset : ExecRvc(s, v) = Branch(s, offset)
    BY DEF ExecRvc
<1> QED
    BY <1>1, NothingIsPrecise, raiseTrapPrecise, ExecRvcAluPrecise, ExecRvcRegisterPrecise,
       setGPRPrecise, memReadPrecise, memWritePrecise, AluPrecise, NonZeroPrecise, BranchPrecise

----------------------------------------------------------------------------
\* Nothing is executed twice: hart is before or what the instruction made of it.
ExecInv ==
    /\ \E k \in DOMAIN Program :
          inst \in Program[k].insts /\ \E s \in Program[k].harts : before = Hart(s.n, s.x, s.pc)
    /\ hart = before \/ hart = Epilogue(Execute(before, inst), inst)

LEMMA ExecInvHolds == Spec => []ExecInv
<1>1. Init => ExecInv
    BY DEF Init, ExecInv
<1>2. ExecInv /\ [Step_CoreAPI]_vars => ExecInv'
    BY DEF ExecInv, Step_CoreAPI, vars
<1> QED BY <1>1, <1>2, PTL DEF Spec

\* Whatever an instruction traps on, an illegal encoding, a misaligned or
\* refused access or a jump to an odd address, it has written nothing.
THEOREM TrapsPrecise == Spec => []TrapsArePrecise
<1>1. ExecInv => TrapsArePrecise
    <2> SUFFICES ASSUME ExecInv PROVE TrapsArePrecise
        OBVIOUS
    <2>1. IsHart(before) /\ before.trap = NoTrap /\ before.stored = NoStore
        BY DEF ExecInv, Hart, IsHart
    <2>2. CASE hart = before
        BY <2>1, <2>2 DEF TrapsArePrecise
    <2>3. CASE hart = Epilogue(Execute(before, inst), inst)
        <3> DEFINE t == Execute(before, inst)
        <3>1. Precise(before, t)
            BY <2>1, ExecBasePrecise, ExecRvcPrecise DEF ExecInv, Execute
        <3>2. CASE t.trap # NoTrap
            BY <2>1, <2>3, <3>1, <3>2 DEF Precise, Epilogue, TrapsArePrecise
        <3>3. CASE t.trap = NoTrap
            <4>1. hart.trap = NoTrap
                BY <2>3, <3>1, <3>3 DEF Precise, Epilogue, IsHart
            <4> QED BY <4>1 DEF TrapsArePrecise
        <3> QED BY <3>2, <3>3
    <2> QED BY <2>2, <2>3 DEF ExecInv
<1> QED BY <1>1, ExecInvHolds, PTL

----------------------------------------------------------------------------
(* Powers of two, quotients and remainders.                                *)

Less == {p \in Nat \X Nat : p[1] < p[2]}

\* Induction over the natural numbers, for a set of them.
LEMMA Induction ==
    ASSUME NEW T, T \subseteq Nat, 0 \in T, \A n \in T : n + 1 \in T
    PROVE  T = Nat
<1> DEFINE U == Nat \ T
<1>1. IsWellFoundedOn(Less, Nat)
    BY NatLessThanWellFounded DEF OpToRel, Less
<1>2. ASSUME U # {} PROVE FALSE
    <2>1. PICK m \in U : \A n \in U : <<n, m>> \notin Less
        BY <1>1, <1>2, WFMin
    <2>2. m \in Nat /\ m # 0 /\ m - 1 \in Nat /\ m - 1 < m
        OBVIOUS
    <2>3. m - 1 \in T
        BY <2>1, <2>2 DEF Less
    <2>4. (m - 1) + 1 \in T
        BY <2>3
    <2> QED BY <2>2, <2>4
<1> QED BY <1>2

\* Powers of two, as what counts the subsets of an interval.
LEMMA PowCounts ==
    ASSUME NEW n \in Nat
    PROVE  /\ IsFiniteSet(SUBSET (1 .. n)) /\ Cardinality(SUBSET (1 .. n)) = 2^n
           /\ 2^n \in Nat \ {0}
<1>1. IsFiniteSet(1 .. n) /\ Cardinality(1 .. n) = n
    BY FS_Interval
<1>2. IsFiniteSet(SUBSET (1 .. n)) /\ Cardinality(SUBSET (1 .. n)) = 2^n
    BY <1>1, FS_SUBSET
<1>3. Cardinality(SUBSET (1 .. n)) \in Nat
    BY <1>2, FS_CardinalityType
<1>4. {} \in SUBSET (1 .. n)
    OBVIOUS
<1>5. Cardinality(SUBSET (1 .. n)) # 0
    BY <1>2, <1>4, FS_EmptySet
<1> QED BY <1>2, <1>3, <1>5

LEMMA PowSucc ==
    ASSUME NEW n \in Nat
    PROVE  2^(n + 1) = 2 * 2^n
<1> DEFINE A == SUBSET (1 .. n)
           B == {t \cup {n + 1} : t \in A}
           f == [t \in A |-> t \cup {n + 1}]
<1>1. IsFiniteSet(A) /\ Cardinality(A) = 2^n /\ 2^n \in Nat
    BY PowCounts
<1>2. n + 1 \in Nat /\ Cardinality(SUBSET (1 .. n + 1)) = 2^(n + 1)
    BY PowCounts
<1>3. SUBSET (1 .. n + 1) = A \cup B
    <2>1. ASSUME NEW t \in SUBSET (1 .. n + 1) PROVE t \in A \cup B
        <3>1. CASE n + 1 \in t
            <4>1. t \ {n + 1} \in A /\ t = (t \ {n + 1}) \cup {n + 1}
                BY <3>1
            <4> QED BY <4>1
        <3>2. CASE n + 1 \notin t
            BY <3>2
        <3> QED BY <3>1, <3>2
    <2>2. 1 .. n \subseteq 1 .. n + 1 /\ n + 1 \in 1 .. n + 1
        OBVIOUS
    <2>3. A \cup B \subseteq SUBSET (1 .. n + 1)
        BY <2>2
    <2> QED BY <2>1, <2>3
<1>4. A \cap B = {}
    OBVIOUS
<1>5. ExistsBijection(A, B)
    <2>1. \A t \in A : n + 1 \notin t
        OBVIOUS
    <2>2. f \in [A -> B] /\ \A b \in B : \E t \in A : f[t] = b
        OBVIOUS
    <2>3. ASSUME NEW t \in A, NEW u \in A, f[t] = f[u] PROVE t = u
        <3>1. t \cup {n + 1} = u \cup {n + 1} /\ n + 1 \notin t /\ n + 1 \notin u
            BY <2>1, <2>3
        <3> QED BY <3>1
    <2> HIDE DEF f, A, B
    <2>4. f \in Injection(A, B)
        BY <2>2, <2>3, Zenon DEF Injection, IsInjective
    <2>5. f \in Surjection(A, B)
        BY <2>2, Zenon DEF Surjection
    <2>6. f \in Bijection(A, B)
        BY <2>4, <2>5 DEF Bijection
    <2> QED BY <2>6 DEF ExistsBijection
<1>6. IsFiniteSet(B) /\ Cardinality(B) = 2^n
    <2> HIDE DEF A, B
    <2> QED BY <1>1, <1>5, FS_Bijection
<1>7. Cardinality(A \cup B) = 2^n + 2^n
    <2> HIDE DEF A, B
    <2>1. Cardinality(A \cup B) = Cardinality(A) + Cardinality(B) - Cardinality(A \cap B)
        BY <1>1, <1>6, FS_Union
    <2>2. Cardinality(A \cap B) = 0
        BY <1>4, FS_EmptySet
    <2> QED BY <1>1, <1>6, <2>1, <2>2
<1>8. 2^(n + 1) = 2^n + 2^n
    BY <1>2, <1>3, <1>7
<1> QED BY <1>1, <1>8

LEMMA Pow ==
    ASSUME NEW n \in Nat
    PROVE  2^n \in Nat \ {0} /\ 2^(n + 1) = 2 * 2^n
           /\ (n > 0 => 2^n = 2 * 2^(n - 1) /\ 2^(n - 1) \in Nat \ {0})
<1>1. ASSUME n > 0 PROVE 2^n = 2 * 2^(n - 1) /\ 2^(n - 1) \in Nat \ {0}
    <2>1. n - 1 \in Nat /\ (n - 1) + 1 = n
        BY <1>1
    <2> QED BY <2>1, PowCounts, PowSucc
<1> QED BY <1>1, PowCounts, PowSucc

\* The product of two powers.
LEMMA PowAdd ==
    ASSUME NEW m \in Nat, NEW n \in Nat
    PROVE  2^(m + n) = 2^m * 2^n
<1> DEFINE T == {k \in Nat : 2^(m + k) = 2^m * 2^k}
<1>1. 0 \in T
    <2>1. 2^0 = 1 /\ m + 0 = m /\ 2^m \in Nat
        BY Pow
    <2> QED BY <2>1
<1>2. ASSUME NEW k \in T PROVE k + 1 \in T
    <2>1. /\ k \in Nat /\ m + k \in Nat /\ m + (k + 1) = (m + k) + 1
          /\ 2^(m + k) = 2^m * 2^k
        OBVIOUS
    <2>2. 2^((m + k) + 1) = 2 * 2^(m + k) /\ 2^(k + 1) = 2 * 2^k /\ 2^m \in Nat /\ 2^k \in Nat
        BY <2>1, Pow
    <2>3. 2^m * (2 * 2^k) = 2 * (2^m * 2^k)
        BY <2>2
    <2> QED BY <2>1, <2>2, <2>3
<1>3. T = Nat
    <2> HIDE DEF T
    <2>1. T \subseteq Nat
        BY DEF T
    <2> QED BY <1>1, <1>2, <2>1, Induction
<1> QED BY <1>3

\* A larger exponent.
LEMMA PowSplit ==
    ASSUME NEW m \in Nat, NEW k \in 0 .. m
    PROVE  /\ m - k \in Nat /\ 2^m = 2^k * 2^(m - k) /\ 2^m \in Nat \ {0} /\ 2^k \in Nat \ {0}
           /\ 2^(m - k) \in Nat \ {0}
<1>1. m - k \in Nat /\ k \in Nat /\ k + (m - k) = m
    OBVIOUS
<1>2. 2^(k + (m - k)) = 2^k * 2^(m - k)
    BY <1>1, PowAdd
<1> QED BY <1>1, <1>2, Pow

\* Division with remainder is unique.
LEMMA DivUnique ==
    ASSUME NEW N \in Nat \ {0}, NEW y \in Int, NEW q \in Int, NEW r \in 0 .. N - 1, y = N * q + r
    PROVE  y \div N = q /\ y % N = r
OBVIOUS

\* Quotient and remainder.
LEMMA DivMod ==
    ASSUME NEW N \in Nat \ {0}, NEW y \in Int
    PROVE  y \div N \in Int /\ y % N \in 0 .. N - 1 /\ y = N * (y \div N) + (y % N)
OBVIOUS

LEMMA ModShift ==
    ASSUME NEW N \in Nat \ {0}, NEW y \in Int, NEW k \in Int
    PROVE  (y + k * N) % N = y % N /\ (y + k * N) \div N = (y \div N) + k
<1> DEFINE q == y \div N
           r == y % N
<1>1. q \in Int /\ r \in 0 .. N - 1 /\ y = N * q + r
    BY DivMod
<1> HIDE DEF q, r
<1>2. y + k * N = N * (q + k) + r /\ q + k \in Int /\ y + k * N \in Int
    BY <1>1
<1>3. (y + k * N) \div N = q + k /\ (y + k * N) % N = r
    BY <1>1, <1>2, DivUnique
<1> QED BY <1>3 DEF q, r

\* Equal remainders and a difference that is a multiple.
LEMMA SameMod ==
    ASSUME NEW N \in Nat \ {0}, NEW y \in Int, NEW z \in Int
    PROVE  (y - z) % N = 0 <=> y % N = z % N
<1> DEFINE q == y \div N
           r == y % N
           p == z \div N
           t == z % N
           d == (y - z) \div N
<1>1. q \in Int /\ r \in 0 .. N - 1 /\ y = N * q + r
    BY DivMod
<1>2. p \in Int /\ t \in 0 .. N - 1 /\ z = N * p + t
    BY DivMod
<1>3. ASSUME r = t PROVE (y - z) % N = 0
    <2> HIDE DEF q, r, p, t
    <2>1. y - z = N * (q - p) + 0
        BY <1>1, <1>2, <1>3
    <2> QED BY <1>1, <1>2, <2>1, DivUnique
<1>4. ASSUME (y - z) % N = 0 PROVE r = t
    <2>1. d \in Int /\ y - z = N * d + 0
        BY <1>4, DivMod
    <2> HIDE DEF q, r, p, t, d
    <2>2. y = N * (p + d) + t /\ p + d \in Int
        BY <1>2, <2>1
    <2>3. y % N = t
        BY <1>2, <2>2, DivUnique
    <2> QED BY <2>3 DEF r
<1> QED BY <1>3, <1>4

----------------------------------------------------------------------------
(* Sums of a sequence of numbers.                                          *)

\* The first n partial sums.
Partial(g, f, n) == g = [k \in 0 .. n |-> IF k = 0 THEN 0 ELSE g[k - 1] + f[k]]

LEMMA PartialStep ==
    ASSUME NEW g, NEW f, NEW n \in Nat, Partial(g, f, n)
    PROVE  g[0] = 0 /\ \A k \in 1 .. n : g[k] = g[k - 1] + f[k]
<1>1. ASSUME NEW k \in 0 .. n PROVE g[k] = IF k = 0 THEN 0 ELSE g[k - 1] + f[k]
    BY Zenon DEF Partial
<1> QED BY <1>1

\* Partial sums exist and are unique, so the recursive function SumOf is one.
LEMMA PartialUnique ==
    ASSUME NEW f, NEW g, NEW h, NEW n \in Nat, NEW m \in Nat, Partial(g, f, n), Partial(h, f, m),
           NEW i \in Nat, i <= n, i <= m
    PROVE  g[i] = h[i]
<1> DEFINE T == {k \in Nat : k <= n /\ k <= m => g[k] = h[k]}
<1>1. g[0] = 0 /\ h[0] = 0 /\ (\A k \in 1 .. n : g[k] = g[k - 1] + f[k])
      /\ (\A k \in 1 .. m : h[k] = h[k - 1] + f[k])
    BY PartialStep
<1>2. T \subseteq Nat /\ 0 \in T
    BY <1>1
<1>3. ASSUME NEW k \in T PROVE k + 1 \in T
    <2>1. CASE k + 1 <= n /\ k + 1 <= m
        <3>1. k \in Nat /\ k <= n /\ k <= m /\ (k + 1) - 1 = k /\ k + 1 \in 1 .. n
              /\ k + 1 \in 1 .. m
            BY <2>1
        <3>2. g[k] = h[k]
            BY <3>1
        <3>3. g[k + 1] = g[k] + f[k + 1] /\ h[k + 1] = h[k] + f[k + 1]
            BY <1>1, <3>1
        <3> QED BY <3>1, <3>2, <3>3
    <2>2. CASE ~(k + 1 <= n /\ k + 1 <= m)
        BY <2>2
    <2> QED BY <2>1, <2>2
<1>4. T = Nat
    <2> HIDE DEF T
    <2> QED BY <1>2, <1>3, Induction
<1> QED BY <1>4

LEMMA PartialExists ==
    ASSUME NEW f, NEW n \in Nat
    PROVE  \E g : Partial(g, f, n)
<1> DEFINE T == {k \in Nat : \E g : Partial(g, f, k)}
<1>1. 0 \in T
    <2> DEFINE g == [k \in 0 .. 0 |-> 0]
    <2>1. g = [k \in 0 .. 0 |-> IF k = 0 THEN 0 ELSE g[k - 1] + f[k]]
        OBVIOUS
    <2> HIDE DEF g
    <2>2. Partial(g, f, 0)
        BY <2>1, Zenon DEF Partial
    <2> QED BY <2>2
<1>2. ASSUME NEW k \in T PROVE k + 1 \in T
    <2>1. PICK g : Partial(g, f, k)
        OBVIOUS
    <2>2. k \in Nat /\ g[0] = 0 /\ \A i \in 1 .. k : g[i] = g[i - 1] + f[i]
        BY <2>1, PartialStep
    <2> DEFINE h == [i \in 0 .. k + 1 |-> IF i = k + 1 THEN g[k] + f[k + 1] ELSE g[i]]
    <2>3. ASSUME NEW i \in 0 .. k + 1
          PROVE  h[i] = IF i = 0 THEN 0 ELSE h[i - 1] + f[i]
        <3>1. CASE i = 0
            <4>1. h[i] = g[0]
                BY <2>2, <3>1
            <4> QED BY <2>2, <3>1, <4>1
        <3>2. CASE i \in 1 .. k
            <4>1. i - 1 \in 0 .. k + 1 /\ i - 1 # k + 1 /\ i # k + 1 /\ i # 0
                BY <2>2, <3>2
            <4>2. h[i] = g[i] /\ h[i - 1] = g[i - 1]
                BY <4>1
            <4> HIDE DEF h
            <4> QED BY <2>2, <3>2, <4>1, <4>2
        <3>3. CASE i = k + 1
            <4>1. i - 1 \in 0 .. k + 1 /\ i - 1 # k + 1 /\ i # 0 /\ i - 1 = k
                BY <2>2, <3>3
            <4>2. h[i] = g[k] + f[i] /\ h[i - 1] = g[k]
                BY <3>3, <4>1
            <4> HIDE DEF h
            <4> QED BY <4>1, <4>2
        <3>4. i = 0 \/ i \in 1 .. k \/ i = k + 1
            BY <2>2
        <3> QED BY <3>1, <3>2, <3>3, <3>4
    <2>4. h = [i \in 0 .. k + 1 |-> h[i]]
        OBVIOUS
    <2> HIDE DEF h
    <2>5. h = [i \in 0 .. k + 1 |-> IF i = 0 THEN 0 ELSE h[i - 1] + f[i]]
        BY <2>3, <2>4
    <2>6. Partial(h, f, k + 1)
        BY <2>5, Zenon DEF Partial
    <2> QED BY <2>2, <2>6
<1>3. T = Nat
    <2> HIDE DEF T
    <2>1. T \subseteq Nat
        BY DEF T
    <2> QED BY <1>1, <1>2, <2>1, Induction
<1> QED BY <1>3

\* The recursion SumOf is written as has a solution: the last of the partial sums.
LEMMA SumUnfold ==
    ASSUME NEW f
    PROVE  SumOf(f, 0) = 0 /\ \A n \in Nat : SumOf(f, n + 1) = SumOf(f, n) + f[n + 1]
<1> DEFINE G(n) == CHOOSE g : Partial(g, f, n)
           F == [n \in Nat |-> G(n)[n]]
           sum == CHOOSE s : s = [k \in Nat |-> IF k = 0 THEN 0 ELSE s[k - 1] + f[k]]
<1>1. ASSUME NEW n \in Nat PROVE Partial(G(n), f, n)
    BY PartialExists
<1> HIDE DEF G
<1>2. ASSUME NEW n \in Nat PROVE F[n] = IF n = 0 THEN 0 ELSE F[n - 1] + f[n]
    <2>1. CASE n = 0
        <3>1. G(0)[0] = 0
            BY <1>1, PartialStep
        <3> QED BY <2>1, <3>1
    <2>2. CASE n # 0
        <3>1. n - 1 \in Nat /\ n \in 1 .. n /\ n - 1 <= n - 1 /\ n - 1 <= n
            BY <2>2
        <3>2. G(n)[n] = G(n)[n - 1] + f[n]
            BY <1>1, <3>1, PartialStep
        <3>3. G(n)[n - 1] = G(n - 1)[n - 1]
            BY <1>1, <3>1, PartialUnique
        <3>4. F[n] = G(n)[n] /\ F[n - 1] = G(n - 1)[n - 1]
            BY <3>1
        <3> QED BY <2>2, <3>2, <3>3, <3>4
    <2> QED BY <2>1, <2>2
<1>3. F = [n \in Nat |-> F[n]]
    OBVIOUS
<1>4. F = [k \in Nat |-> IF k = 0 THEN 0 ELSE F[k - 1] + f[k]]
    <2> HIDE DEF F
    <2> QED BY <1>2, <1>3
<1>5. sum = [k \in Nat |-> IF k = 0 THEN 0 ELSE sum[k - 1] + f[k]]
    <2> HIDE DEF F
    <2> QED BY <1>4, Zenon
<1>6. \A n : SumOf(f, n) = sum[n]
    BY DEF SumOf
<1>7. \A k \in Nat : sum[k] = IF k = 0 THEN 0 ELSE sum[k - 1] + f[k]
    <2> HIDE DEF sum
    <2> QED BY <1>5, Zenon
<1> HIDE DEF sum
<1>8. ASSUME NEW n \in Nat PROVE sum[n + 1] = sum[n] + f[n + 1]
    <2>1. n + 1 \in Nat /\ n + 1 # 0 /\ (n + 1) - 1 = n
        OBVIOUS
    <2> QED BY <1>7, <2>1
<1> QED BY <1>6, <1>7, <1>8

----------------------------------------------------------------------------
(* Bits.                                                                   *)

\* A number is its own remainder.
LEMMA Small ==
    ASSUME NEW N \in Nat \ {0}, NEW y \in 0 .. N - 1
    PROVE  y \div N = 0 /\ y % N = y
OBVIOUS

LEMMA Times ==
    ASSUME NEW a \in Nat, NEW b \in Nat, NEW c \in Nat, a <= b
    PROVE  a * c <= b * c /\ c * a <= c * b /\ a * c \in Nat
OBVIOUS

\* A number of the upper and the lower part.
LEMMA Digits ==
    ASSUME NEW M \in Nat \ {0}, NEW N \in Nat \ {0}, NEW s \in 0 .. N - 1, NEW r \in 0 .. M - 1
    PROVE  M * s + r \in 0 .. M * N - 1 /\ M * N \in Nat \ {0}
<1>1. s \in Nat /\ r \in Nat /\ N - 1 \in Nat /\ s <= N - 1
    OBVIOUS
<1>2. M * s <= M * (N - 1) /\ M * s \in Nat
    BY <1>1, Times
<1>3. M * (N - 1) = M * N - M /\ M * N \in Nat
    OBVIOUS
<1>4. M * N # 0
    OBVIOUS
<1> QED BY <1>1, <1>2, <1>3, <1>4

LEMMA DivDiv ==
    ASSUME NEW M \in Nat \ {0}, NEW N \in Nat \ {0}, NEW y \in Int
    PROVE  /\ (y \div M) \div N = y \div (M * N)
           /\ y % (M * N) = M * ((y \div M) % N) + (y % M)
           /\ (y % (M * N)) \div M = (y \div M) % N
           /\ (y % (M * N)) % M = y % M
<1> DEFINE q == y \div M
           r == y % M
           p == q \div N
           s == q % N
<1>1. q \in Int /\ r \in 0 .. M - 1 /\ y = M * q + r
    BY DivMod
<1>2. p \in Int /\ s \in 0 .. N - 1 /\ q = N * p + s
    BY <1>1, DivMod
<1> HIDE DEF q, r, p, s
<1>3. M * s + r \in 0 .. M * N - 1 /\ M * N \in Nat \ {0} /\ M * s + r \in Int
    BY <1>1, <1>2, Digits
<1>4. y = (M * N) * p + (M * s + r)
    BY <1>1, <1>2
<1>5. y \div (M * N) = p /\ y % (M * N) = M * s + r
    BY <1>2, <1>3, <1>4, DivUnique
<1>6. (M * s + r) \div M = s /\ (M * s + r) % M = r
    BY <1>1, <1>2, <1>3, DivUnique
<1> QED BY <1>5, <1>6 DEF q, r, p, s

\* A bit is 0 or 1.
LEMMA BitIsBit ==
    ASSUME NEW v \in Int, NEW i \in Nat
    PROVE  Bit(v, i) \in {0, 1} /\ v \div 2^i \in Int
<1>1. 2^i \in Nat \ {0}
    BY Pow
<1>2. v \div 2^i \in Int
    BY <1>1, DivMod
<1> QED BY <1>2 DEF Bit

\* Bits above i do not count.
LEMMA BitBelow ==
    ASSUME NEW y \in Int, NEW c \in Int, NEW k \in Nat, NEW i \in 0 .. k - 1
    PROVE  Bit(y + c * 2^k, i) = Bit(y, i)
<1>1. i \in 0 .. k /\ k - i \in Nat /\ k - i > 0 /\ i \in Nat
    OBVIOUS
<1>2. /\ 2^k = 2^i * 2^(k - i) /\ 2^k \in Nat \ {0} /\ 2^i \in Nat \ {0} /\ 2^(k - i) \in Nat \ {0}
      /\ 2^(k - i) = 2 * 2^(k - i - 1) /\ 2^(k - i - 1) \in Nat
    BY <1>1, PowSplit, Pow
<1> DEFINE e == 2^(k - i - 1)
<1>3. c * 2^k = (2 * (c * e)) * 2^i /\ e \in Nat
    BY <1>2
<1> HIDE DEF e
<1>4. c * e \in Int /\ 2 * (c * e) \in Int
    BY <1>3
<1>5. (y + (2 * (c * e)) * 2^i) \div 2^i = (y \div 2^i) + 2 * (c * e)
    BY <1>2, <1>4, ModShift
<1>6. y \div 2^i \in Int
    BY <1>2, DivMod
<1>7. ((y \div 2^i) + 2 * (c * e)) % 2 = (y \div 2^i) % 2
    BY <1>4, <1>6
<1> QED BY <1>3, <1>5, <1>7 DEF Bit

\* In particular in a remainder by a power of two.
LEMMA BitOfMod ==
    ASSUME NEW y \in Int, NEW k \in Nat, NEW i \in 0 .. k - 1
    PROVE  Bit(y % 2^k, i) = Bit(y, i)
<1> DEFINE N == 2^k
           q == y \div N
           r == y % N
<1>1. N \in Nat \ {0}
    BY Pow
<1>2. q \in Int /\ r \in Int /\ y = r + q * N
    <2> HIDE DEF N
    <2> QED BY <1>1
<1> HIDE DEF q, r
<1>3. Bit(r + q * 2^k, i) = Bit(r, i)
    BY <1>2, BitBelow
<1> QED BY <1>2, <1>3 DEF r

LEMMA BitOfZero ==
    ASSUME NEW k \in Nat, NEW y \in 0 .. 2^k - 1, NEW i \in Nat, i >= k
    PROVE  Bit(y, i) = 0
<1>1. k \in 0 .. i
    OBVIOUS
<1>2. 2^i = 2^k * 2^(i - k) /\ 2^k \in Nat \ {0} /\ 2^(i - k) \in Nat \ {0} /\ 2^i \in Nat \ {0}
    BY <1>1, PowSplit
<1>3. 1 * 2^k <= 2^(i - k) * 2^k
    BY <1>2, Times
<1>4. y \in 0 .. 2^i - 1
    BY <1>2, <1>3
<1>5. y \div 2^i = 0
    BY <1>2, <1>4, Small
<1>6. 0 % 2 = 0
    OBVIOUS
<1> QED BY <1>5, <1>6, Zenon DEF Bit

\* A number has the bits it is put together from.
LEMMA FromBitsCorrect ==
    ASSUME NEW n \in Nat, NEW d \in [0 .. n - 1 -> {0, 1}]
    PROVE  FromBits(d, n) \in 0 .. 2^n - 1 /\ \A i \in 0 .. n - 1 : Bit(FromBits(d, n), i) = d[i]
<1> DEFINE f == [i \in 1 .. n |-> d[i - 1] * 2^(i - 1)]
           S(k) == SumOf(f, k)
           T == {k \in Nat : k <= n => /\ S(k) \in 0 .. 2^k - 1
                                       /\ \A i \in 0 .. k - 1 : Bit(S(k), i) = d[i]}
<1>1. FromBits(d, n) = S(n)
    BY DEF FromBits
<1>2. ASSUME NEW k \in 1 .. n PROVE f[k] = d[k - 1] * 2^(k - 1)
    OBVIOUS
<1> HIDE DEF f
<1>3. S(0) = 0 /\ \A k \in Nat : S(k + 1) = S(k) + f[k + 1]
    BY SumUnfold
<1> HIDE DEF S
<1>4. T \subseteq Nat /\ 0 \in T
    <2>1. 2^0 = 1
        OBVIOUS
    <2> QED BY <1>3, <2>1
<1>5. ASSUME NEW k \in T PROVE k + 1 \in T
    <2>1. SUFFICES ASSUME k + 1 <= n
                   PROVE  /\ S(k + 1) \in 0 .. 2^(k + 1) - 1
                          /\ \A i \in 0 .. (k + 1) - 1 : Bit(S(k + 1), i) = d[i]
        OBVIOUS
    <2>2. /\ k \in Nat /\ k + 1 \in 1 .. n /\ (k + 1) - 1 = k /\ k \in 0 .. n - 1
          /\ S(k) \in 0 .. 2^k - 1 /\ \A i \in 0 .. k - 1 : Bit(S(k), i) = d[i]
        BY <2>1
    <2>3. 2^k \in Nat \ {0} /\ 2^(k + 1) = 2 * 2^k
        BY <2>2, Pow
    <2>4. d[k] \in {0, 1} /\ S(k + 1) = S(k) + d[k] * 2^k
        BY <1>2, <1>3, <2>2
    <2>5. S(k + 1) \in 0 .. 2^(k + 1) - 1
        BY <2>2, <2>3, <2>4
    <2>6. Bit(S(k + 1), k) = d[k]
        <3> DEFINE N == 2^k
                   s == S(k)
                   b == d[k]
        <3>1. N \in Nat \ {0} /\ s \in 0 .. N - 1 /\ b \in {0, 1}
            BY <2>2, <2>3, <2>4
        <3>2. S(k + 1) = s + b * N
            BY <2>4
        <3> HIDE DEF N, s, b
        <3>3. s + b * N = N * b + s /\ s + b * N \in Int
            BY <3>1
        <3>4. (s + b * N) \div N = b
            BY <3>1, <3>3, DivUnique
        <3>5. S(k + 1) \div 2^k = d[k] /\ d[k] \in {0, 1}
            BY <3>1, <3>2, <3>4 DEF N, b
        <3> QED BY <3>5 DEF Bit
    <2>7. ASSUME NEW i \in 0 .. k - 1 PROVE Bit(S(k + 1), i) = d[i]
        <3>1. Bit(S(k) + d[k] * 2^k, i) = Bit(S(k), i)
            <4> DEFINE s == S(k)
                       b == d[k]
            <4>1. s \in Int /\ b \in Int
                BY <2>2, <2>3, <2>4
            <4> HIDE DEF s, b
            <4>2. Bit(s + b * 2^k, i) = Bit(s, i)
                BY <2>2, <4>1, BitBelow
            <4> QED BY <4>2 DEF s, b
        <3> QED BY <2>2, <2>4, <3>1
    <2> QED BY <2>2, <2>5, <2>6, <2>7
<1>6. T = Nat
    <2> HIDE DEF T
    <2> QED BY <1>4, <1>5, Induction
<1> QED BY <1>1, <1>6

----------------------------------------------------------------------------
(* Signs and their extension.                                              *)

\* The two halves of the numbers of n bits.
LEMMA Halves ==
    ASSUME NEW n \in Nat \ {0}
    PROVE  2^n \in Nat \ {0} /\ 2^(n - 1) \in Nat \ {0} /\ 2^n = 2 * 2^(n - 1)
BY Pow

LEMMA TopDigit ==
    ASSUME NEW H \in Nat \ {0}, NEW v \in H .. 2 * H - 1
    PROVE  v \div H = 1 /\ v % H = v - H
<1>1. v \in Int /\ 1 \in Int /\ v - H \in 0 .. H - 1 /\ v = H * 1 + (v - H)
    OBVIOUS
<1> QED BY <1>1, DivUnique

\* The signed reading of n bits is what the architecture calls it (SInt).
LEMMA SignedRange ==
    ASSUME NEW n \in Nat \ {0}, NEW v \in 0 .. 2^n - 1
    PROVE  /\ Signed(v, n) \in -(2^(n - 1)) .. 2^(n - 1) - 1
           /\ Signed(v, n) \in {v, v - 2^n} /\ (Signed(v, n) < 0 <=> v >= 2^(n - 1))
           /\ Signed(v, n) % 2^n = v
<1> DEFINE N == 2^n
           H == 2^(n - 1)
<1>1. N \in Nat \ {0} /\ H \in Nat \ {0} /\ N = 2 * H
    BY Halves
<1>2. v \in 0 .. N - 1 /\ Signed(v, n) = IF v >= H THEN v - N ELSE v
    BY DEF Signed
<1> SUFFICES /\ Signed(v, n) \in -H .. H - 1
             /\ Signed(v, n) \in {v, v - N} /\ (Signed(v, n) < 0 <=> v >= H)
             /\ Signed(v, n) % N = v
    OBVIOUS
<1> HIDE DEF N, H
<1>3. v % N = v /\ (v - N) % N = v
    BY <1>1, <1>2
<1>4. CASE v >= H
    BY <1>1, <1>2, <1>3, <1>4
<1>5. CASE v < H
    BY <1>1, <1>2, <1>3, <1>5
<1> QED BY <1>1, <1>2, <1>4, <1>5

LEMMA SignedOfMod ==
    ASSUME NEW n \in Nat \ {0}, NEW y \in -(2^(n - 1)) .. 2^(n - 1) - 1
    PROVE  Signed(y % 2^n, n) = y /\ y % 2^n \in 0 .. 2^n - 1
<1> DEFINE N == 2^n
           H == 2^(n - 1)
<1>1. N \in Nat \ {0} /\ H \in Nat \ {0} /\ N = 2 * H
    BY Halves
<1>2. y \in -H .. H - 1 /\ Signed(y % N, n) = IF y % N >= H THEN (y % N) - N ELSE y % N
    BY DEF Signed
<1> SUFFICES Signed(y % N, n) = y /\ y % N \in 0 .. N - 1
    OBVIOUS
<1> HIDE DEF N, H
<1>3. y < 0 => y % N = y + N
    <2> SUFFICES ASSUME y < 0 PROVE y % N = y + N
        OBVIOUS
    <2>1. y = N * (-1) + (y + N) /\ y + N \in 0 .. N - 1 /\ y \in Int
        BY <1>1, <1>2
    <2>2. -1 \in Int
        OBVIOUS
    <2> QED BY <1>1, <2>1, <2>2, DivUnique
<1>4. y >= 0 => y % N = y
    BY <1>1, <1>2
<1> QED BY <1>1, <1>2, <1>3, <1>4

LEMMA SIntIsSigned ==
    ASSUME NEW n \in Nat \ {0}, NEW v \in 0 .. 2^n - 1
    PROVE  SInt(v, n) = Signed(v, n)
<1> DEFINE N == 2^n
           H == 2^(n - 1)
<1>1. N \in Nat \ {0} /\ H \in Nat \ {0} /\ N = 2 * H
    BY Halves
<1>2. v \in 0 .. N - 1 /\ SInt(v, n) = (v % H) - ((v \div H) % 2) * H
      /\ Signed(v, n) = IF v >= H THEN v - N ELSE v
    <2>1. SInt(v, n) = (v % H) - ((v \div H) % 2) * H
        BY Zenon DEF SInt, Bit
    <2>2. v \in 0 .. N - 1
        OBVIOUS
    <2>3. Signed(v, n) = IF v >= H THEN v - N ELSE v
        BY DEF Signed
    <2> QED BY <2>1, <2>2, <2>3
<1> HIDE DEF N, H
<1>3. CASE v >= H
    <2>1. v \in H .. 2 * H - 1
        BY <1>1, <1>2, <1>3
    <2>2. v \div H = 1 /\ v % H = v - H
        BY <1>1, <2>1, TopDigit
    <2> QED BY <1>1, <1>2, <1>3, <2>2
<1>4. CASE v < H
    <2>1. v \div H = 0 /\ v % H = v
        BY <1>1, <1>2, <1>4
    <2> QED BY <1>1, <1>2, <1>4, <2>1
<1> QED BY <1>1, <1>2, <1>3, <1>4

\* The sign bit.
LEMMA SignBit ==
    ASSUME NEW n \in Nat \ {0}, NEW v \in 0 .. 2^n - 1
    PROVE  Bit(v, n - 1) = IF v >= 2^(n - 1) THEN 1 ELSE 0
<1> DEFINE N == 2^n
           H == 2^(n - 1)
<1>1. N \in Nat \ {0} /\ H \in Nat \ {0} /\ N = 2 * H
    BY Halves
<1>2. v \in 0 .. N - 1 /\ Bit(v, n - 1) = (v \div H) % 2
    BY DEF Bit
<1> SUFFICES Bit(v, n - 1) = IF v >= H THEN 1 ELSE 0
    OBVIOUS
<1> HIDE DEF N, H
<1>3. CASE v >= H
    <2>1. v \in H .. 2 * H - 1
        BY <1>1, <1>2, <1>3
    <2>2. v \div H = 1
        BY <1>1, <2>1, TopDigit
    <2> QED BY <1>2, <1>3, <2>2
<1>4. CASE v < H
    <2>1. v \div H = 0
        BY <1>1, <1>2, <1>4
    <2> QED BY <1>1, <1>2, <1>4, <2>1
<1> QED BY <1>1, <1>2, <1>3, <1>4

\* Extending a number to its own width reduces it.
LEMMA ExtendFull ==
    ASSUME NEW n \in Nat \ {0}, NEW y \in Int
    PROVE  Extend(y, n, n) = y % 2^n /\ y % 2^n \in 0 .. 2^n - 1
<1>1. y % 2^n \in 0 .. 2^n - 1
    <2> DEFINE N == 2^n
    <2>1. N \in Nat \ {0}
        BY Halves
    <2> HIDE DEF N
    <2>2. y % N \in 0 .. N - 1
        BY <2>1
    <2> QED BY <2>2 DEF N
<1>2. Signed(y % 2^n, n) % 2^n = y % 2^n
    BY <1>1, SignedRange
<1> QED BY <1>1, <1>2 DEF Extend

\* A word in a register.
LEMMA ExtendWord ==
    ASSUME NEW h \in Nat \ {0}, NEW n \in Nat \ {0}, h <= n, NEW v \in Int
    PROVE  /\ Extend(v, h, n) \in 0 .. 2^n - 1
           /\ Extend(v, h, n) % 2^h = v % 2^h
           /\ v % 2^h \in 0 .. 2^h - 1
           /\ Signed(Extend(v, h, n), n) = Signed(v % 2^h, h)
<1> DEFINE M == 2^h
           K == 2^(n - h)
           low == v % M
           y == Signed(low, h)
<1>1. /\ n - h \in Nat /\ h \in 0 .. n /\ 2^n = M * K
      /\ M \in Nat \ {0} /\ K \in Nat \ {0} /\ 2^n \in Nat \ {0}
    BY PowSplit
<1>2. low \in 0 .. M - 1
    <2> HIDE DEF M
    <2> QED BY <1>1
<1>3. y \in -(2^(h - 1)) .. 2^(h - 1) - 1 /\ y % M = low
    BY <1>2, SignedRange
<1>4. 2^(h - 1) \in Nat /\ 2^(n - 1) \in Nat /\ 2^(h - 1) <= 2^(n - 1)
    <2>1. n - 1 \in Nat /\ h - 1 \in 0 .. n - 1
        OBVIOUS
    <2> DEFINE p == n - 1
               q == h - 1
    <2> HIDE DEF p, q
    <2>a. 2^p = 2^q * 2^(p - q) /\ 2^(p - q) \in Nat \ {0} /\ 2^q \in Nat \ {0} /\ 2^p \in Nat \ {0}
        BY <2>1, PowSplit DEF p, q
    <2>2. /\ 2^(n - 1) = 2^(h - 1) * 2^((n - 1) - (h - 1)) /\ 2^((n - 1) - (h - 1)) \in Nat \ {0}
          /\ 2^(h - 1) \in Nat /\ 2^(n - 1) \in Nat
        BY <2>a DEF p, q
    <2>3. 2^(h - 1) * 1 <= 2^(h - 1) * 2^((n - 1) - (h - 1))
        BY <2>2, Times
    <2> QED BY <2>2, <2>3
<1>5. y \in -(2^(n - 1)) .. 2^(n - 1) - 1 /\ y \in Int
    BY <1>3, <1>4
<1>6. Signed(y % 2^n, n) = y /\ y % 2^n \in 0 .. 2^n - 1
    BY <1>5, SignedOfMod
<1>7. (y % 2^n) % M = y % M
    <2> HIDE DEF y, M, K
    <2>1. (y % (M * K)) % M = y % M
        BY <1>1, <1>5, DivDiv
    <2> QED BY <1>1, <2>1
<1>8. Extend(v, h, n) = y % 2^n
    BY DEF Extend
<1> QED BY <1>2, <1>3, <1>6, <1>7, <1>8

----------------------------------------------------------------------------
(* alu_exec: sums, differences and low products.                           *)

LEMMA ResultArith ==
    ASSUME NEW a, NEW b, NEW r, NEW w
    PROVE  /\ IsResult("ADD", a, b, r, w) <=> (a + b - r) % 2^w = 0
           /\ IsResult("SUB", a, b, r, w) <=> (a - b - r) % 2^w = 0
           /\ IsResult("MUL", a, b, r, w) <=> (a * b - r) % 2^w = 0
           /\ IsResult("MULHU", a, b, r, w) <=> a * b - r * 2^w \in 0 .. 2^w - 1
           /\ IsResult("MULH", a, b, r, w) <=> SInt(a, w) * SInt(b, w) - SInt(r, w) * 2^w \in 0 .. 2^w - 1
           /\ IsResult("MULHSU", a, b, r, w) <=> SInt(a, w) * b - SInt(r, w) * 2^w \in 0 .. 2^w - 1
           /\ IsResult("SLTU", a, b, r, w) <=> r \in {0, 1} /\ (r = 1 <=> a < b)
           /\ IsResult("DIVU", a, b, r, w) <=> IF b = 0 THEN r
              = 2^w - 1 ELSE a - b * r \in 0 .. b - 1
           /\ IsResult("REMU", a, b, r, w) <=> IF b = 0 THEN r = a ELSE r < b /\ (a - r) % b = 0
BY DEF IsResult

LEMMA ResultBits ==
    ASSUME NEW a, NEW b, NEW r, NEW w
    PROVE  /\ IsResult("SLL", a, b, r, w) <=>
                \A i \in 0 .. w - 1 : Bit(r, i) = IF i < b % w THEN 0 ELSE Bit(a, i - (b % w))
           /\ IsResult("SRL", a, b, r, w) <=>
                \A i \in 0 .. w - 1 : Bit(r, i) = IF i + (b % w) < w THEN Bit(a, i + (b % w)) ELSE 0
           /\ IsResult("SRA", a, b, r, w) <=>
                \A i \in 0 .. w - 1 : Bit(r, i) = IF i
                + (b % w) < w THEN Bit(a, i + (b % w)) ELSE Bit(a, w - 1)
           /\ IsResult("XOR", a, b, r, w) <=>
                \A i \in 0 .. w - 1 : Bit(r, i) = IF Bit(a, i) = Bit(b, i) THEN 0 ELSE 1
           /\ IsResult("OR", a, b, r, w) <=>
                \A i \in 0 .. w - 1 : Bit(r, i) = IF Bit(a, i) = 1 THEN 1 ELSE Bit(b, i)
           /\ IsResult("AND", a, b, r, w) <=>
                \A i \in 0 .. w - 1 : Bit(r, i) = IF Bit(a, i) = 1 THEN Bit(b, i) ELSE 0
BY DEF IsResult

LEMMA ModWitness ==
    ASSUME NEW N \in Nat \ {0}, NEW y \in Int, NEW z \in Int, y % N = z % N
    PROVE  \E k \in Int : y = z + k * N
<1> DEFINE d == y - z
<1>a. (y - z) % N = 0
    BY SameMod
<1>1. d \in Int /\ d % N = 0
    BY <1>a
<1> HIDE DEF d
<1>2. d \div N \in Int /\ d = N * (d \div N) + 0
    BY <1>1, DivMod
<1>3. d = (d \div N) * N
    BY <1>2
<1>4. y = z + (d \div N) * N
    BY <1>1, <1>3 DEF d
<1> QED BY <1>2, <1>4

Congruent(y, z, N) == y % N = z % N

\* Sums, differences and products of congruent numbers are congruent.
LEMMA ModAdd ==
    ASSUME NEW N \in Nat \ {0}, NEW y \in Int, NEW z \in Int, NEW a \in Int, NEW b \in Int,
           Congruent(y, a, N), Congruent(z, b, N)
    PROVE  Congruent(y + z, a + b, N)
<1>a. y % N = a % N /\ z % N = b % N
    BY DEF Congruent
<1> SUFFICES (y + z) % N = (a + b) % N
    BY DEF Congruent
<1>1. PICK j \in Int : y = a + j * N
    BY <1>a, ModWitness
<1>2. PICK k \in Int : z = b + k * N
    BY <1>a, ModWitness
<1> DEFINE l == y + z
           r == a + b
           e == j + k
<1>3. l \in Int /\ r \in Int /\ e \in Int /\ l = r + e * N
    BY <1>1, <1>2
<1> HIDE DEF l, r, e
<1>4. (r + e * N) % N = r % N
    BY <1>3, ModShift
<1> QED BY <1>3, <1>4 DEF l, r

LEMMA ModSub ==
    ASSUME NEW N \in Nat \ {0}, NEW y \in Int, NEW z \in Int, NEW a \in Int, NEW b \in Int,
           Congruent(y, a, N), Congruent(z, b, N)
    PROVE  Congruent(y - z, a - b, N)
<1>a. y % N = a % N /\ z % N = b % N
    BY DEF Congruent
<1> SUFFICES (y - z) % N = (a - b) % N
    BY DEF Congruent
<1>1. PICK j \in Int : y = a + j * N
    BY <1>a, ModWitness
<1>2. PICK k \in Int : z = b + k * N
    BY <1>a, ModWitness
<1> DEFINE l == y - z
           r == a - b
           e == j - k
<1>3. l \in Int /\ r \in Int /\ e \in Int /\ l = r + e * N
    BY <1>1, <1>2
<1> HIDE DEF l, r, e
<1>4. (r + e * N) % N = r % N
    BY <1>3, ModShift
<1> QED BY <1>3, <1>4 DEF l, r

LEMMA ModMul ==
    ASSUME NEW N \in Nat \ {0}, NEW y \in Int, NEW z \in Int, NEW a \in Int, NEW b \in Int,
           Congruent(y, a, N), Congruent(z, b, N)
    PROVE  Congruent(y * z, a * b, N)
<1>a. y % N = a % N /\ z % N = b % N
    BY DEF Congruent
<1> SUFFICES (y * z) % N = (a * b) % N
    BY DEF Congruent
<1>1. PICK j \in Int : y = a + j * N
    BY <1>a, ModWitness
<1>2. PICK k \in Int : z = b + k * N
    BY <1>a, ModWitness
<1> DEFINE u == j * N
           v == k * N
           e1 == a * k
           e2 == j * b
           e3 == u * k
           e == e1 + e2 + e3
           l == y * z
           r == a * b
<1>3. u \in Int /\ v \in Int /\ y = a + u /\ z = b + v
    BY <1>1, <1>2
<1>4. a * v = e1 * N /\ u * b = e2 * N /\ u * v = e3 * N /\ e1 \in Int /\ e2 \in Int /\ e3 \in Int
    BY <1>3
<1>5. (a + u) * (b + v) = r + a * v + u * b + u * v /\ l = (a + u) * (b + v) /\ r \in Int
      /\ l \in Int
    <2> HIDE DEF u, v
    <2> QED BY <1>3
<1> HIDE DEF u, v, e1, e2, e3, l, r
<1>6. e \in Int /\ e * N = e1 * N + e2 * N + e3 * N
    BY <1>4
<1>7. e1 * N \in Int /\ e2 * N \in Int /\ e3 * N \in Int
    BY <1>4
<1>8. l = r + e * N
    BY <1>4, <1>5, <1>6, <1>7
<1> HIDE DEF e
<1>9. (r + e * N) % N = r % N
    BY <1>5, <1>6, ModShift
<1> QED BY <1>8, <1>9 DEF l, r

LEMMA ModResult ==
    ASSUME NEW N \in Nat \ {0}, NEW y \in Int, NEW z \in Int, Congruent(z, y, N)
    PROVE  (y - (z % N)) % N = 0
<1>a. z % N = y % N
    BY DEF Congruent
<1> DEFINE r == z % N
<1>1. r \in Int /\ r % N = r /\ r = y % N
    BY <1>a
<1> HIDE DEF r
<1>2. (y - r) % N = 0
    BY <1>1, SameMod
<1> QED BY <1>2 DEF r

\* p and q are the registers, a and b the words in them.
Operands(p, q, a, b, w, n) ==
    /\ a \in 0 .. 2^w - 1 /\ b \in 0 .. 2^w - 1 /\ p \in 0 .. 2^n - 1 /\ q \in 0 .. 2^n - 1
    /\ p % 2^w = a /\ q % 2^w = b
    /\ Signed(p, n) = Signed(a, w) /\ Signed(q, n) = Signed(b, w)

\* ADD, SUB and MUL.
LEMMA SumCorrect ==
    ASSUME NEW n \in Nat \ {0}, NEW w \in Nat \ {0},
           NEW p, NEW q, NEW a, NEW b, Operands(p, q, a, b, w, n)
    PROVE  /\ IsResult("ADD", a, b, (p + q) % 2^w, w)
           /\ IsResult("SUB", a, b, (p - q) % 2^w, w)
           /\ IsResult("MUL", a, b, (Signed(p, n) * Signed(q, n)) % 2^w, w)
<1> DEFINE N == 2^w
           M == 2^n
           sp == Signed(p, n)
           sq == Signed(q, n)
<1>1. N \in Nat \ {0} /\ M \in Nat \ {0} /\ a \in 0 .. N - 1 /\ b \in 0 .. N - 1
    <2>1. a \in 0 .. N - 1 /\ b \in 0 .. N - 1
        BY DEF Operands
    <2> QED BY <2>1, Halves
<1>2. p \in Int /\ q \in Int /\ p % N = a /\ q % N = b
    <2>1. p \in 0 .. M - 1 /\ q \in 0 .. M - 1 /\ p % N = a /\ q % N = b
        BY DEF Operands
    <2> HIDE DEF N, M
    <2> QED BY <1>1, <2>1
<1>3. sp \in Int /\ sq \in Int /\ sp % N = a /\ sq % N = b
    <2>1. sp = Signed(a, w) /\ sq = Signed(b, w) /\ a \in 0 .. 2^w - 1 /\ b \in 0 .. 2^w - 1
        BY DEF Operands
    <2>2. Signed(a, w) \in Int /\ Signed(b, w) \in Int
        BY <1>1, <2>1 DEF Signed
    <2>3. Signed(a, w) % 2^w = a /\ Signed(b, w) % 2^w = b
        BY <2>1, SignedRange
    <2> QED BY <2>1, <2>2, <2>3
<1> SUFFICES /\ (a + b - ((p + q) % N)) % N = 0 /\ (a - b - ((p - q) % N)) % N = 0
             /\ (a * b - ((sp * sq) % N)) % N = 0
    BY ResultArith
<1> HIDE DEF N, M, sp, sq
<1>4. a \in Int /\ b \in Int /\ a % N = a /\ b % N = b
    BY <1>1
<1>5. Congruent(p, a, N) /\ Congruent(q, b, N) /\ Congruent(sp, a, N) /\ Congruent(sq, b, N)
    BY <1>2, <1>3, <1>4 DEF Congruent
<1>6. p \in Int /\ q \in Int /\ a \in Int /\ b \in Int /\ sp \in Int /\ sq \in Int
      /\ N \in Nat \ {0}
    BY <1>1, <1>2, <1>3, <1>4
<1>7. ((a + b) - ((p + q) % N)) % N = 0
    <2> DEFINE s == a + b
               t == p + q
    <2>1. Congruent(t, s, N)
        BY <1>5, <1>6, ModAdd
    <2>2. s \in Int /\ t \in Int
        BY <1>6
    <2> HIDE DEF s, t
    <2>3. (s - (t % N)) % N = 0
        BY <1>6, <2>1, <2>2, ModResult
    <2> QED BY <2>3 DEF s, t
<1>8. ((a - b) - ((p - q) % N)) % N = 0
    <2> DEFINE s == a - b
               t == p - q
    <2>1. Congruent(t, s, N)
        BY <1>5, <1>6, ModSub
    <2>2. s \in Int /\ t \in Int
        BY <1>6
    <2> HIDE DEF s, t
    <2>3. (s - (t % N)) % N = 0
        BY <1>6, <2>1, <2>2, ModResult
    <2> QED BY <2>3 DEF s, t
<1>9. (a * b - ((sp * sq) % N)) % N = 0
    <2> DEFINE s == a * b
               t == sp * sq
    <2>1. Congruent(t, s, N)
        BY <1>5, <1>6, ModMul
    <2>2. s \in Int /\ t \in Int
        BY <1>6
    <2> HIDE DEF s, t
    <2>3. (s - (t % N)) % N = 0
        BY <1>6, <2>1, <2>2, ModResult
    <2> QED BY <2>3 DEF s, t
<1>10. a + b - ((p + q) % N) = (a + b) - ((p + q) % N)
    BY <1>6
<1> QED BY <1>7, <1>8, <1>9, <1>10

LEMMA Scale ==
    ASSUME NEW N \in Nat, NEW y \in Int, NEW z \in Int, y <= z
    PROVE  y * N <= z * N /\ N * y <= N * z /\ y * N \in Int /\ z * N \in Int
<1> DEFINE d == z - y
<1>1. d \in Nat /\ z = y + d
    OBVIOUS
<1> HIDE DEF d
<1>2. d * N \in Nat /\ (y + d) * N = y * N + d * N /\ y * N \in Int
    BY <1>1
<1> QED BY <1>1, <1>2

LEMMA HighRange ==
    ASSUME NEW N \in Nat \ {0}, NEW y \in Int, NEW L \in Int, NEW H \in Int,
           L * N <= y, y < H * N
    PROVE  y \div N \in L .. H - 1 /\ y - (y \div N) * N \in 0 .. N - 1
<1> DEFINE c == y \div N
           r == y % N
<1>1. c \in Int /\ r \in 0 .. N - 1 /\ y = N * c + r
    BY DivMod
<1> HIDE DEF c, r
<1>2. y - c * N = r
    BY <1>1
<1>3. L <= c
    <2> SUFFICES ASSUME c <= L - 1 PROVE FALSE
        BY <1>1
    <2>1. c * N <= (L - 1) * N /\ c * N \in Int /\ (L - 1) * N = L * N - N /\ L * N \in Int
        BY <1>1, Scale
    <2> QED BY <1>1, <2>1
<1>4. c <= H - 1
    <2> SUFFICES ASSUME H <= c PROVE FALSE
        BY <1>1
    <2>1. H * N <= c * N /\ H * N \in Int /\ c * N \in Int
        BY <1>1, Scale
    <2> QED BY <1>1, <2>1
<1> QED BY <1>1, <1>2, <1>3, <1>4 DEF c

----------------------------------------------------------------------------
(* alu_exec: high products and comparisons.                                *)

\* The upper half of a product.
LEMMA ProductRange ==
    ASSUME NEW H \in Nat \ {0}, NEW y \in -H .. H - 1, NEW z \in -H .. H - 1,
           NEW b \in 0 .. 2 * H - 1
    PROVE  /\ (-H) * (2 * H) <= y * z /\ y * z < H * (2 * H)
           /\ (-H) * (2 * H) <= y * b /\ y * b < H * (2 * H)
<1>1. H * H \in Nat /\ H * (2 * H) = 2 * (H * H) /\ (-H) * (2 * H) = -(2 * (H * H)) /\ H * H > 0
    OBVIOUS
<1>2. -(H * H) <= y * z /\ y * z <= H * H /\ y * z \in Int
    OBVIOUS
<1>3. y * b \in Int /\ -(H * (2 * H - 1)) <= y * b /\ y * b <= H * (2 * H - 1)
    OBVIOUS
<1>4. H * (2 * H - 1) = 2 * (H * H) - H
    OBVIOUS
<1> QED BY <1>1, <1>2, <1>3, <1>4

\* MULH, MULHU and MULHSU.
LEMMA HighCorrect ==
    ASSUME NEW n \in Nat \ {0}, NEW a \in 0 .. 2^n - 1, NEW b \in 0 .. 2^n - 1
    PROVE  /\ IsResult("MULHU", a, b, ((a * b) \div 2^n) % 2^n, n)
           /\ IsResult("MULH", a, b, ((Signed(a, n) * Signed(b, n)) \div 2^n) % 2^n, n)
           /\ IsResult("MULHSU", a, b, ((Signed(a, n) * b) \div 2^n) % 2^n, n)
<1> DEFINE N == 2^n
           H == 2^(n - 1)
           sa == Signed(a, n)
           sb == Signed(b, n)
           u == (a * b) \div N
           s == (sa * sb) \div N
           t == (sa * b) \div N
<1>1. N \in Nat \ {0} /\ H \in Nat \ {0} /\ N = 2 * H /\ a \in 0 .. N - 1 /\ b \in 0 .. N - 1
    BY Halves
<1>2. sa \in -H .. H - 1 /\ sb \in -H .. H - 1 /\ SInt(a, n) = sa /\ SInt(b, n) = sb
    BY SignedRange, SIntIsSigned
<1>3. /\ u \in 0 .. N - 1 /\ a * b - u * N \in 0 .. N - 1
      /\ s \in -H .. H - 1 /\ sa * sb - s * N \in 0 .. N - 1
      /\ t \in -H .. H - 1 /\ sa * b - t * N \in 0 .. N - 1
    <2> HIDE DEF N, H, sa, sb
    <2>1. a * b \in Int /\ 0 * N <= a * b /\ a * b < N * N
        <3>1. a * b <= (N - 1) * b /\ (N - 1) * b <= (N - 1) * (N - 1) /\ a * b \in Nat
            BY <1>1
        <3>2. (N - 1) * (N - 1) = N * N - 2 * N + 1 /\ N * N \in Nat /\ (N - 1) * b \in Int
            BY <1>1
        <3> QED BY <1>1, <3>1, <3>2
    <2>2. sa * sb \in Int /\ (-H) * N <= sa * sb /\ sa * sb < H * N
        BY <1>1, <1>2, ProductRange
    <2>3. sa * b \in Int /\ (-H) * N <= sa * b /\ sa * b < H * N
        BY <1>1, <1>2, ProductRange
    <2>4. 0 \in Int /\ -H \in Int /\ H \in Int /\ N \in Int
        BY <1>1
    <2>5. ASSUME NEW y \in Int, NEW L \in Int, NEW G \in Int, L * N <= y, y < G * N
          PROVE  y \div N \in L .. G - 1 /\ y - (y \div N) * N \in 0 .. N - 1
        BY <1>1, <2>5, HighRange
    <2>6. u \in 0 .. N - 1 /\ a * b - u * N \in 0 .. N - 1
        BY <2>1, <2>4, <2>5
    <2>7. s \in -H .. H - 1 /\ sa * sb - s * N \in 0 .. N - 1
        BY <2>2, <2>4, <2>5
    <2>8. t \in -H .. H - 1 /\ sa * b - t * N \in 0 .. N - 1
        BY <2>3, <2>4, <2>5
    <2> QED BY <2>6, <2>7, <2>8
<1>4. u % N = u
    <2> HIDE DEF N, u
    <2> QED BY <1>1, <1>3, Small
<1>5. SInt(s % N, n) = s /\ SInt(t % N, n) = t
    <2> HIDE DEF s, t
    <2> QED BY <1>3, SignedOfMod, SIntIsSigned
<1>6. /\ a * b - (u % N) * N \in 0 .. N - 1
      /\ SInt(a, n) * SInt(b, n) - SInt(s % N, n) * N \in 0 .. N - 1
      /\ SInt(a, n) * b - SInt(t % N, n) * N \in 0 .. N - 1
    <2> HIDE DEF u, s, t, N, sa, sb
    <2> QED BY <1>2, <1>3, <1>4, <1>5
<1> QED BY <1>6, ResultArith

\* SLT and SLTU.
LEMMA LessCorrect ==
    ASSUME NEW n \in Nat \ {0}, NEW a \in 0 .. 2^n - 1, NEW b \in 0 .. 2^n - 1
    PROVE  /\ IsResult("SLTU", a, b, (IF a < b THEN 1 ELSE 0) % 2^n, n)
           /\ IsResult("SLT", a, b, (IF Signed(a, n) < Signed(b, n) THEN 1 ELSE 0) % 2^n, n)
<1> DEFINE N == 2^n
           H == 2^(n - 1)
<1>1. N \in Nat \ {0} /\ H \in Nat \ {0} /\ N = 2 * H /\ a \in 0 .. N - 1 /\ b \in 0 .. N - 1
    BY Halves
<1>2. 0 % N = 0 /\ 1 % N = 1
    <2> HIDE DEF N, H
    <2> QED BY <1>1
<1>3. /\ Signed(a, n) = IF a >= H THEN a - N ELSE a
      /\ Signed(b, n) = IF b >= H THEN b - N ELSE b
    BY DEF Signed
<1>4. /\ Bit(a, n - 1) = IF a >= H THEN 1 ELSE 0
      /\ Bit(b, n - 1) = IF b >= H THEN 1 ELSE 0
    BY SignBit
<1>5. Signed(a, n) < Signed(b, n) <=> IF Bit(a, n - 1) # Bit(b, n - 1) THEN Bit(a, n - 1)
      = 1 ELSE a < b
    <2> HIDE DEF N, H
    <2> QED BY <1>1, <1>3, <1>4
<1>6. ASSUME NEW r PROVE IsResult("SLT", a, b, r, n) <=> r \in {0, 1} /\ (r = 1 <=>
        IF Bit(a, n - 1) # Bit(b, n - 1) THEN Bit(a, n - 1) = 1 ELSE a < b)
    BY DEF IsResult
<1> HIDE DEF N, H
<1>7. IsResult("SLTU", a, b, (IF a < b THEN 1 ELSE 0) % N, n)
    BY <1>2, ResultArith
<1>8. IsResult("SLT", a, b, (IF Signed(a, n) < Signed(b, n) THEN 1 ELSE 0) % N, n)
    BY <1>2, <1>5, <1>6
<1> QED BY <1>7, <1>8 DEF N

----------------------------------------------------------------------------
(* alu_exec: bits and shifts.                                              *)

\* AND, OR and XOR.
LEMMA BitsCorrect ==
    ASSUME NEW n \in Nat \ {0}, NEW a \in Int, NEW b \in Int
    PROVE  /\ BitAnd(a, b, n) \in 0 .. 2^n - 1
           /\ BitOr(a, b, n) \in 0 .. 2^n - 1
           /\ BitXor(a, b, n) \in 0 .. 2^n - 1
           /\ IsResult("AND", a, b, BitAnd(a, b, n), n)
           /\ IsResult("OR", a, b, BitOr(a, b, n), n)
           /\ IsResult("XOR", a, b, BitXor(a, b, n), n)
<1>1. \A i \in 0 .. n - 1 : Bit(a, i) \in {0, 1} /\ Bit(b, i) \in {0, 1}
    BY BitIsBit
<1> DEFINE c == [i \in 0 .. n - 1 |-> Bit(a, i) * Bit(b, i)]
           d == [i \in 0 .. n - 1 |-> Bit(a, i) + Bit(b, i) - Bit(a, i) * Bit(b, i)]
           e == [i \in 0 .. n - 1 |-> (Bit(a, i) + Bit(b, i)) % 2]
<1>2. c \in [0 .. n - 1 -> {0, 1}] /\ d \in [0 .. n - 1 -> {0, 1}] /\ e \in [0 .. n - 1 -> {0, 1}]
    <2> SUFFICES ASSUME NEW i \in 0 .. n - 1
                 PROVE  /\ Bit(a, i) * Bit(b, i) \in {0, 1}
                        /\ Bit(a, i) + Bit(b, i) - Bit(a, i) * Bit(b, i) \in {0, 1}
                        /\ (Bit(a, i) + Bit(b, i)) % 2 \in {0, 1}
        OBVIOUS
    <2> QED BY <1>1
<1>3. \A i \in 0 .. n - 1 :
        /\ c[i] = IF Bit(a, i) = 1 THEN Bit(b, i) ELSE 0
        /\ d[i] = IF Bit(a, i) = 1 THEN 1 ELSE Bit(b, i)
        /\ e[i] = IF Bit(a, i) = Bit(b, i) THEN 0 ELSE 1
    BY <1>1
<1> HIDE DEF c, d, e
<1>4. /\ FromBits(c, n) \in 0 .. 2^n - 1 /\ \A i \in 0 .. n - 1 : Bit(FromBits(c, n), i) = c[i]
      /\ FromBits(d, n) \in 0 .. 2^n - 1 /\ \A i \in 0 .. n - 1 : Bit(FromBits(d, n), i) = d[i]
      /\ FromBits(e, n) \in 0 .. 2^n - 1 /\ \A i \in 0 .. n - 1 : Bit(FromBits(e, n), i) = e[i]
    BY <1>2, FromBitsCorrect
<1>5. BitAnd(a, b, n) = FromBits(c, n) /\ BitOr(a, b, n) = FromBits(d, n)
      /\ BitXor(a, b, n) = FromBits(e, n)
    BY DEF BitAnd, BitOr, BitXor, c, d, e
<1>6. /\ \A i \in 0 .. n - 1 : Bit(FromBits(c, n), i) = IF Bit(a, i) = 1 THEN Bit(b, i) ELSE 0
      /\ \A i \in 0 .. n - 1 : Bit(FromBits(d, n), i) = IF Bit(a, i) = 1 THEN 1 ELSE Bit(b, i)
      /\ \A i \in 0 .. n - 1 : Bit(FromBits(e, n), i) = IF Bit(a, i) = Bit(b, i) THEN 0 ELSE 1
    BY <1>3, <1>4
<1>7. /\ IsResult("AND", a, b, FromBits(c, n), n) /\ IsResult("OR", a, b, FromBits(d, n), n)
      /\ IsResult("XOR", a, b, FromBits(e, n), n)
    BY <1>6, ResultBits
<1> QED BY <1>4, <1>5, <1>7

\* The bits of a number that is shifted.
LEMMA BitDiv ==
    ASSUME NEW y \in Int, NEW s \in Nat, NEW i \in Nat
    PROVE  Bit(y \div 2^s, i) = Bit(y, i + s) /\ y \div 2^s \in Int
<1> DEFINE M == 2^s
           N == 2^i
<1>1. M \in Nat \ {0} /\ N \in Nat \ {0}
    BY Pow
<1>2. 2^(s + i) = M * N /\ s + i = i + s
    BY PowAdd
<1> HIDE DEF M, N
<1>3. (y \div M) \div N = y \div (M * N)
    BY <1>1, DivDiv
<1>a. y \div M \in Int
    BY <1>1, DivMod
<1>4. (y \div M) \div N = y \div 2^(i + s)
    BY <1>2, <1>3
<1> QED BY <1>a, <1>4, Zenon DEF Bit, M, N

LEMMA BitTimes ==
    ASSUME NEW y \in Int, NEW s \in Nat, NEW i \in Nat
    PROVE  Bit(y * 2^s, i) = (IF i < s THEN 0 ELSE Bit(y, i - s)) /\ y * 2^s \in Int
<1>1. CASE i < s
    <2>1. i \in 0 .. s - 1 /\ 0 \in Int
        BY <1>1
    <2>2. Bit(0 + y * 2^s, i) = Bit(0, i)
        BY <2>1, BitBelow
    <2>3. 0 \in 0 .. 2^0 - 1 /\ i >= 0
        OBVIOUS
    <2>4. Bit(0, i) = 0
        BY <2>3, BitOfZero
    <2>5. 2^s \in Nat
        BY Pow
    <2>6. 0 + y * 2^s = y * 2^s /\ y * 2^s \in Int
        BY <2>5
    <2> QED BY <1>1, <2>2, <2>4, <2>6
<1>2. CASE i >= s
    <2> DEFINE M == 2^s
               N == 2^(i - s)
               z == y * M
    <2>1. i - s \in Nat /\ M \in Nat \ {0} /\ N \in Nat \ {0} /\ 2^i = M * N
        BY <1>2, PowSplit
    <2>2. z \in Int /\ z = M * y + 0
        <3> HIDE DEF M
        <3> QED BY <2>1
    <2> HIDE DEF M, N, z
    <2>3. (z \div M) \div N = z \div (M * N) /\ z \div M = y
        BY <2>1, <2>2, DivDiv, DivUnique
    <2>4. y \div N = z \div 2^i
        BY <2>1, <2>3
    <2>5. Bit(z, i) = (z \div 2^i) % 2 /\ Bit(y, i - s) = (y \div N) % 2
        BY Zenon DEF Bit, N
    <2>6. Bit(z, i) = Bit(y, i - s)
        BY <2>4, <2>5
    <2>7. ~(i < s)
        BY <1>2
    <2> QED BY <2>2, <2>6, <2>7, Zenon DEF z, M
<1> QED BY <1>1, <1>2

LEMMA BelowZero ==
    ASSUME NEW J \in Nat \ {0}, NEW y \in -J .. -1
    PROVE  y \div J = -1 /\ y % J = y + J /\ (y \div J) % 2 = 1
<1>1. y + J \in 0 .. J - 1 /\ y \in Int
    OBVIOUS
<1> DEFINE q == 0 - 1
<1>2. q \in Int /\ y = J * q + (y + J)
    BY <1>1
<1>4. q = -1
    OBVIOUS
<1>b. q = 2 * q + 1
    OBVIOUS
<1> HIDE DEF q
<1>3. q % 2 = 1
    BY <1>2, <1>b, DivUnique
<1>5. y \div J = q /\ y % J = y + J
    BY <1>1, <1>2, DivUnique
<1> QED BY <1>3, <1>4, <1>5

\* The three shifts: s is the amount, below the width.
LEMMA ShiftCorrect ==
    ASSUME NEW n \in Nat \ {0}, NEW w \in 1 .. n, NEW p \in 0 .. 2^n - 1,
           NEW a \in 0 .. 2^w - 1, p % 2^w = a, NEW b, b % w \in 0 .. w - 1
    PROVE  /\ IsResult("SLL", a, b, ShiftLeft(p, b % w, n) % 2^w, w)
           /\ IsResult("SRL", a, b, ShiftRight(a, b % w) % 2^w, w)
           /\ IsResult("SRA", a, b, ShiftRight(Signed(a, w), b % w) % 2^w, w)
<1> DEFINE s == b % w
<1>1. s \in 0 .. w - 1 /\ s \in Nat /\ w \in Nat \ {0}
    OBVIOUS
<1> SUFFICES /\ IsResult("SLL", a, b, ShiftLeft(p, s, n) % 2^w, w)
             /\ IsResult("SRL", a, b, ShiftRight(a, s) % 2^w, w)
             /\ IsResult("SRA", a, b, ShiftRight(Signed(a, w), s) % 2^w, w)
    OBVIOUS
<1> DEFINE l == ShiftLeft(p, s, n) % 2^w
           r == ShiftRight(a, s) % 2^w
           t == ShiftRight(Signed(a, w), s) % 2^w
<1>2. ASSUME NEW i \in 0 .. w - 1
      PROVE  Bit(l, i) = IF i < s THEN 0 ELSE Bit(a, i - s)
    <2> HIDE DEF s
    <2> DEFINE y == p % 2^(n - s)
    <2>1. n - s \in Nat /\ 2^(n - s) \in Nat \ {0} /\ p \in Int
        <3>1. n - s \in Nat
            BY <1>1
        <3>2. 2^(n - s) \in Nat \ {0} /\ 2^n \in Nat \ {0}
            BY <3>1, Pow
        <3> QED BY <3>1, <3>2
    <2>2. y \in Int
        <3> DEFINE K == 2^(n - s)
        <3>1. K \in Nat \ {0}
            BY <2>1
        <3> HIDE DEF K
        <3>2. p % K \in Int
            BY <2>1, <3>1
        <3> QED BY <3>2 DEF K
    <2>3. ASSUME NEW z \in Int PROVE Bit(z % 2^w, i) = Bit(z, i)
        BY <1>1, BitOfMod
    <2> HIDE DEF y
    <2>4. y * 2^s \in Int /\ Bit(y * 2^s, i) = IF i < s THEN 0 ELSE Bit(y, i - s)
        <3>1. i \in Nat /\ s \in Nat
            BY <1>1
        <3> QED BY <2>2, <3>1, BitTimes, Zenon
    <2>5. ShiftLeft(p, s, n) = y * 2^s
        BY DEF ShiftLeft, y
    <2>6. Bit(l, i) = Bit(y * 2^s, i)
        BY <2>3, <2>4, <2>5
    <2>7. ASSUME ~(i < s) PROVE Bit(y, i - s) = Bit(a, i - s)
        <3> DEFINE j == i - s
        <3>1. j \in 0 .. (n - s) - 1 /\ j \in 0 .. w - 1
            BY <1>1, <2>7
        <3> HIDE DEF j
        <3>2. Bit(p % 2^(n - s), j) = Bit(p, j)
            BY <2>1, <3>1, BitOfMod
        <3>3. Bit(p % 2^w, j) = Bit(p, j)
            BY <1>1, <2>1, <3>1, BitOfMod
        <3> QED BY <3>2, <3>3 DEF y, j
    <2> QED BY <2>4, <2>6, <2>7
<1>3. ASSUME NEW i \in 0 .. w - 1
      PROVE  Bit(r, i) = IF i + s < w THEN Bit(a, i + s) ELSE 0
    <2> HIDE DEF s
    <2>1. a \in Int /\ i \in Nat /\ i + s \in Nat
        BY <1>1, Pow
    <2>2. Bit(a \div 2^s, i) = Bit(a, i + s) /\ a \div 2^s \in Int
        BY <1>1, <2>1, BitDiv
    <2>3. Bit((a \div 2^s) % 2^w, i) = Bit(a \div 2^s, i)
        BY <1>1, <2>2, BitOfMod
    <2>4. r = (a \div 2^s) % 2^w
        BY DEF ShiftRight
    <2>5. ASSUME ~(i + s < w) PROVE Bit(a, i + s) = 0
        <3> DEFINE j == i + s
        <3>1. j \in Nat /\ j >= w /\ w \in Nat
            BY <1>1, <2>1, <2>5
        <3> HIDE DEF j
        <3>2. Bit(a, j) = 0
            BY <3>1, BitOfZero
        <3> QED BY <3>2 DEF j
    <2> QED BY <2>2, <2>3, <2>4, <2>5
<1>4. ASSUME NEW i \in 0 .. w - 1
      PROVE  Bit(t, i) = IF i + s < w THEN Bit(a, i + s) ELSE Bit(a, w - 1)
    <2> HIDE DEF s
    <2> DEFINE y == Signed(a, w)
    <2>1. /\ y \in -(2^(w - 1)) .. 2^(w - 1) - 1 /\ 2^(w - 1) \in Nat \ {0}
          /\ y \in {a, a - 2^w} /\ (y < 0 <=> a >= 2^(w - 1))
          /\ i \in Nat /\ i + s \in Nat /\ a \in Int /\ y \in Int
        BY <1>1, SignedRange, Halves
    <2> HIDE DEF y
    <2>2. Bit(y \div 2^s, i) = Bit(y, i + s) /\ y \div 2^s \in Int
        BY <1>1, <2>1, BitDiv
    <2>3. Bit((y \div 2^s) % 2^w, i) = Bit(y \div 2^s, i)
        BY <1>1, <2>2, BitOfMod
    <2>4. t = (y \div 2^s) % 2^w
        BY DEF ShiftRight, y
    <2>5. ASSUME i + s < w PROVE Bit(y, i + s) = Bit(a, i + s)
        <3> DEFINE j == i + s
        <3>1. j \in 0 .. w - 1 /\ w \in Nat /\ -1 \in Int
            BY <1>1, <2>1, <2>5
        <3> HIDE DEF j
        <3>2. Bit(a + (-1) * 2^w, j) = Bit(a, j)
            BY <2>1, <3>1, BitBelow
        <3>3. a + (-1) * 2^w = a - 2^w
            BY <2>1, Halves
        <3>4. Bit(y, j) = Bit(a, j)
            BY <2>1, <3>2, <3>3
        <3> QED BY <3>4 DEF j
    <2>6. ASSUME ~(i + s < w) PROVE Bit(y, i + s) = Bit(a, w - 1)
        <3> DEFINE j == i + s
                   H == 2^(w - 1)
                   J == 2^j
        <3>1. j \in Nat /\ w - 1 \in 0 .. j
            BY <1>1, <2>1, <2>6
        <3>2. J = H * 2^(j - (w - 1)) /\ 2^(j - (w - 1)) \in Nat \ {0} /\ H \in Nat \ {0}
              /\ J \in Nat \ {0}
            BY <3>1, PowSplit
        <3>3. H * 1 <= J
            BY <3>2, Times
        <3>4. /\ Bit(a, w - 1) = IF a >= H THEN 1 ELSE 0
              /\ y \in -H .. H - 1 /\ (y < 0 <=> a >= H)
            BY <1>1, <2>1, SignBit
        <3>5. Bit(y, j) = (y \div J) % 2
            BY Zenon DEF Bit, J
        <3> HIDE DEF J, H, j
        <3>6. CASE y < 0
            <4>1. y \in -J .. -1
                BY <3>2, <3>3, <3>4, <3>6
            <4>2. (y \div J) % 2 = 1
                BY <3>2, <4>1, BelowZero
            <4> QED BY <3>4, <3>5, <3>6, <4>2 DEF j
        <3>7. CASE ~(y < 0)
            <4>1. y \in 0 .. J - 1
                BY <3>2, <3>3, <3>4, <3>7
            <4>2. y \div J = 0
                BY <3>2, <4>1, Small
            <4>3. 0 % 2 = 0
                OBVIOUS
            <4> QED BY <3>4, <3>5, <3>7, <4>2, <4>3 DEF j
        <3> QED BY <3>6, <3>7
    <2> QED BY <2>2, <2>3, <2>4, <2>5, <2>6
<1> HIDE DEF l, r, t
<1>5. IsResult("SLL", a, b, l, w) /\ IsResult("SRL", a, b, r, w) /\ IsResult("SRA", a, b, t, w)
    BY <1>2, <1>3, <1>4, ResultBits
<1> QED BY <1>5 DEF l, r, t

----------------------------------------------------------------------------
(* alu_exec: quotients and remainders.                                     *)

LEMMA Multiple ==
    ASSUME NEW N \in Nat \ {0}, NEW c \in Int
    PROVE  (N * c) % N = 0 /\ (N * c) \div N = c
OBVIOUS

\* Division towards zero.
LEMMA QuotientCorrect ==
    ASSUME NEW H \in Nat \ {0}, NEW a \in -H .. H - 1, NEW b \in -H .. H - 1, b # 0
    PROVE  /\ Quotient(a, b) \in Int /\ Remainder(a, b) \in -H .. H - 1
           /\ Remainder(a, b) = a - b * Quotient(a, b)
           /\ IsRemainder(Remainder(a, b), a, b)
           /\ (a - Remainder(a, b)) % Abs(b) = 0
           /\ a = -H /\ b = -1 => Quotient(a, b) = H
           /\ ~(a = -H /\ b = -1) => Quotient(a, b) \in -H .. H - 1
<1> DEFINE m == IF a < 0 THEN -a ELSE a
           k == IF b < 0 THEN -b ELSE b
           c == m \div k
           d == m % k
           q == IF (a < 0) = (b < 0) THEN c ELSE -c
           r == IF a < 0 THEN -d ELSE d
<1>1. m \in 0 .. H /\ k \in 1 .. H /\ k \in Nat \ {0} /\ Abs(b) = k
    BY DEF Abs
<1>2. c \in Int /\ d \in 0 .. k - 1 /\ m = k * c + d
    <2> HIDE DEF m, k
    <2>1. m \in Int
        BY <1>1
    <2> QED BY <1>1, <2>1, DivMod
<1>3. c \in 0 .. m
    <2> HIDE DEF m, k
    <2>1. m \in Nat /\ k \in Nat \ {0}
        BY <1>1
    <2>2. c \in Nat /\ c <= m
        BY <2>1
    <2> QED BY <2>1, <2>2
<1>4. Quotient(a, b) = q
    BY DEF Quotient, Magnitude
<1>5. (a < 0 => m = -a) /\ (~(a < 0) => m = a) /\ (b < 0 => k = -b) /\ (~(b < 0) => k = b)
    OBVIOUS
<1> HIDE DEF m, k, c, d
<1>6. b * q \in Int /\ q \in Int /\ r \in Int
    BY <1>2
<1>7. a = b * q + r
    <2>1. CASE a < 0 /\ b < 0
        <3>1. q = c /\ r = -d /\ b = -k /\ a = -m
            BY <1>1, <1>2, <1>5, <2>1
        <3>2. (-k) * c = -(k * c) /\ k * c \in Int
            BY <1>1, <1>2
        <3> QED BY <1>1, <1>2, <3>1, <3>2
    <2>2. CASE a < 0 /\ ~(b < 0)
        <3>1. q = -c /\ r = -d /\ b = k /\ a = -m
            BY <1>1, <1>2, <1>5, <2>2
        <3>2. k * (-c) = -(k * c) /\ k * c \in Int
            BY <1>1, <1>2
        <3> QED BY <1>1, <1>2, <3>1, <3>2
    <2>3. CASE ~(a < 0) /\ b < 0
        <3>1. q = -c /\ r = d /\ b = -k /\ a = m
            BY <1>1, <1>2, <1>5, <2>3
        <3>2. (-k) * (-c) = k * c /\ k * c \in Int
            BY <1>1, <1>2
        <3> QED BY <1>1, <1>2, <3>1, <3>2
    <2>4. CASE ~(a < 0) /\ ~(b < 0)
        <3>1. q = c /\ r = d /\ b = k /\ a = m
            BY <1>1, <1>2, <1>5, <2>4
        <3> QED BY <1>2, <3>1
    <2> QED BY <2>1, <2>2, <2>3, <2>4
<1>8. r \in -H .. H - 1 /\ Abs(r) < Abs(b) /\ (r # 0 => (r < 0 <=> a < 0))
    BY <1>1, <1>2 DEF Abs
<1>9. Remainder(a, b) = r /\ Remainder(a, b) = a - b * Quotient(a, b)
    <2>1. a - b * q = r
        <3> DEFINE e == b * q
        <3>1. e \in Int /\ a = e + r
            BY <1>6, <1>7
        <3> HIDE DEF e, q, r
        <3>2. a - e = r
            BY <1>6, <3>1
        <3> QED BY <3>2 DEF e
    <2> QED BY <1>4, <2>1 DEF Remainder
<1>10. (a - r) % k = 0
    <2>1. PICK e \in Int : b * q = k * e
        <3>1. CASE b < 0
            <4>1. b = -k /\ -q \in Int
                BY <1>1, <1>5, <1>6, <3>1
            <4>2. (-k) * q = k * (-q)
                BY <1>1, <1>6
            <4> QED BY <4>1, <4>2
        <3>2. CASE ~(b < 0)
            BY <1>5, <1>6, <3>2
        <3> QED BY <3>1, <3>2
    <2> DEFINE y == a - r
    <2>2. y \in Int /\ y = k * e + 0 /\ 0 \in 0 .. k - 1
        <3> HIDE DEF q, r
        <3> QED BY <1>1, <1>6, <1>7, <2>1
    <2> HIDE DEF y
    <2>3. y % k = 0
        BY <1>1, <2>2, DivUnique
    <2> QED BY <2>3 DEF y
<1>11. ASSUME a = -H, b = -1 PROVE q = H
    <2>a. a < 0 /\ b < 0
        BY <1>11
    <2>b. (a < 0) = (b < 0)
        BY <2>a
    <2>c. q = c
        BY <2>b
    <2>d. k = 1 /\ m = H
        <3>1. k = 0 - b /\ m = 0 - a
            BY <1>5, <2>a
        <3>2. 0 - b = 1 /\ 0 - a = H
            BY <1>11
        <3> QED BY <3>1, <3>2
    <2>1. k = 1 /\ m = H /\ q = c
        BY <2>c, <2>d
    <2>2. d = 0 /\ m = 1 * c + 0
        BY <1>2, <2>1
    <2> QED BY <1>2, <2>1, <2>2
<1>12. ASSUME ~(a = -H /\ b = -1) PROVE q \in -H .. H - 1
    <2>1. CASE c < H
        BY <1>1, <1>2, <1>3, <2>1
    <2>2. CASE c = H
        <3>1. m = H /\ a = -H
            BY <1>1, <1>3, <1>5, <2>2
        <3>2. k = 1
            <4> SUFFICES ASSUME k >= 2 PROVE FALSE
                BY <1>1
            <4>1. 2 * H <= k * H /\ k * H \in Int
                BY <1>1, Scale
            <4> QED BY <1>1, <1>2, <2>2, <3>1, <4>1
        <3>3. b = 1
            BY <1>5, <1>12, <3>1, <3>2
        <3> QED BY <2>2, <3>1, <3>3
    <2> QED BY <1>1, <1>3, <2>1, <2>2
<1> HIDE DEF q, r
<1>13. IsRemainder(r, a, b)
    BY <1>8 DEF IsRemainder
<1> QED BY <1>1, <1>4, <1>6, <1>8, <1>9, <1>10, <1>11, <1>12, <1>13

LEMMA ZeroSigned ==
    ASSUME NEW n \in Nat \ {0}, NEW q \in 0 .. 2^n - 1
    PROVE  q = 0 <=> Signed(q, n) = 0
<1> DEFINE sq == Signed(q, n)
           M == 2^n
           G == 2^(n - 1)
<1>1. /\ sq \in {q, q - M} /\ q \in 0 .. M - 1 /\ M \in Nat /\ (sq < 0 <=> q >= G)
         /\ G \in Nat \ {0}
    BY SignedRange, Halves
<1> HIDE DEF sq, M, G
<1>2. sq = 0 <=> q = 0
    BY <1>1
<1> QED BY <1>2 DEF sq

LEMMA ZeroWord ==
    ASSUME NEW n \in Nat \ {0}, NEW w \in 1 .. n, NEW q \in 0 .. 2^n - 1, NEW b \in 0 .. 2^w - 1,
           Signed(q, n) = Signed(b, w)
    PROVE  q = 0 <=> b = 0
<1>1. w \in Nat \ {0}
    OBVIOUS
<1> QED BY <1>1, ZeroSigned

\* The value alu_exec gives to a signed division.
Divided(p, q, sa, sb, n) ==
    IF q = 0 THEN -1 ELSE IF sa = -(2^(n - 1)) /\ sb = -1 THEN -(2^(n - 1)) ELSE Quotient(sa, sb)
Left(p, q, sa, sb, n) ==
    IF q = 0 THEN p ELSE IF sa = -(2^(n - 1)) /\ sb = -1 THEN 0 ELSE Remainder(sa, sb)

\* DIV and REM.
LEMMA DivideCorrect ==
    ASSUME NEW n \in Nat \ {0}, NEW w \in 1 .. n, NEW p \in 0 .. 2^n - 1, NEW q \in 0 .. 2^n - 1,
           NEW a \in 0 .. 2^w - 1, NEW b \in 0 .. 2^w - 1,
           p % 2^w = a, Signed(q, n) = Signed(b, w)
    PROVE  /\ IsResult("DIV", a, b, Divided(p, q, Signed(a, w), Signed(b, w), n) % 2^w, w)
           /\ IsResult("REM", a, b, Left(p, q, Signed(a, w), Signed(b, w), n) % 2^w, w)
<1> DEFINE N == 2^w
           H == 2^(w - 1)
           G == 2^(n - 1)
           sa == Signed(a, w)
           sb == Signed(b, w)
           d == Divided(p, q, sa, sb, n)
           r == Left(p, q, sa, sb, n)
           overflow == b = N - 1 /\ a = H
<1>1. /\ w \in Nat \ {0} /\ N \in Nat \ {0} /\ H \in Nat \ {0} /\ N = 2 * H
      /\ a \in 0 .. N - 1 /\ b \in 0 .. N - 1
    BY Halves
<1>2. H <= G /\ G \in Nat
    <2> DEFINE i == n - 1
               j == w - 1
    <2>1. i \in Nat /\ j \in 0 .. i
        OBVIOUS
    <2> HIDE DEF i, j
    <2>2. 2^i = 2^j * 2^(i - j) /\ 2^(i - j) \in Nat \ {0} /\ 2^i \in Nat /\ 2^j \in Nat
        BY <2>1, PowSplit
    <2>3. 2^j * 1 <= 2^j * 2^(i - j)
        BY <2>2, Times
    <2> QED BY <2>2, <2>3 DEF i, j
<1>3. /\ sa \in -H .. H - 1 /\ sa \in {a, a - N} /\ (sa < 0 <=> a >= H)
      /\ sb \in -H .. H - 1 /\ sb \in {b, b - N} /\ (sb < 0 <=> b >= H)
    BY <1>1, SignedRange
<1>4. q = 0 <=> b = 0
    BY ZeroWord
<1>5. overflow <=> sa = -H /\ sb = -1
    <2> HIDE DEF N, H, sa, sb
    <2> QED BY <1>1, <1>3
<1>6. SInt(a, w) = sa /\ SInt(b, w) = sb /\ \A y \in -H .. H - 1 : SInt(y % N, w) = y
    <2>1. ASSUME NEW y \in -H .. H - 1 PROVE SInt(y % N, w) = y
        BY <1>1, SignedOfMod, SIntIsSigned
    <2> QED BY <1>1, <2>1, SIntIsSigned
<1>7. ASSUME NEW v
      PROVE  /\ IsResult("DIV", a, b, v, w) <=> IF b = 0 THEN SInt(v, w)
                = -1 ELSE IF overflow THEN v = a
                        ELSE IsRemainder(SInt(a, w) - SInt(b, w) * SInt(v, w), SInt(a, w), SInt(b, w))
             /\ IsResult("REM", a, b, v, w) <=> IF b = 0 THEN v = a ELSE IF overflow THEN v = 0
                        ELSE /\ IsRemainder(SInt(v, w), SInt(a, w), SInt(b, w))
                             /\ (SInt(a, w) - SInt(v, w)) % Abs(SInt(b, w)) = 0
    BY DEF IsResult
<1>8. /\ d = IF q = 0 THEN -1 ELSE IF sa = -G /\ sb = -1 THEN -G ELSE Quotient(sa, sb)
      /\ r = IF q = 0 THEN p ELSE IF sa = -G /\ sb = -1 THEN 0 ELSE Remainder(sa, sb)
    BY DEF Divided, Left
<1>9. p % N = a
    OBVIOUS
<1> SUFFICES IsResult("DIV", a, b, d % N, w) /\ IsResult("REM", a, b, r % N, w)
    OBVIOUS
<1> HIDE DEF d, r, sa, sb, N, H, G, overflow
<1>10. CASE b = 0
    <2>1. d = -1 /\ -1 \in -H .. H - 1 /\ r = p
        BY <1>1, <1>4, <1>8, <1>10
    <2>2. SInt(d % N, w) = -1
        BY <1>6, <2>1
    <2> QED BY <1>7, <1>9, <1>10, <2>1, <2>2
<1>11. CASE b # 0 /\ overflow
    <2>1. sa = -H /\ sb = -1 /\ sb # 0 /\ q # 0 /\ a = H
        BY <1>4, <1>5, <1>11 DEF overflow
    <2>2. Quotient(sa, sb) = H /\ Remainder(sa, sb) = sa - sb * Quotient(sa, sb)
        BY <1>1, <1>3, <2>1, QuotientCorrect
    <2>3. Remainder(sa, sb) = 0
        BY <1>1, <2>1, <2>2
    <2>4. d \in {-H, H} /\ r = 0
        BY <1>1, <1>2, <1>8, <2>1, <2>2, <2>3
    <2>5. (-H) % N = H /\ H % N = H /\ 0 % N = 0
        BY <1>1
    <2>6. d % N = a /\ r % N = 0
        BY <2>1, <2>4, <2>5
    <2> QED BY <1>7, <1>11, <2>6
<1>12. CASE b # 0 /\ ~overflow
    <2>1. sb # 0 /\ q # 0 /\ ~(sa = -H /\ sb = -1)
        BY <1>1, <1>3, <1>4, <1>5, <1>12
    <2>2. ~(sa = -G /\ sb = -1)
        BY <1>1, <1>2, <1>3, <2>1
    <2>a. H \in Nat \ {0} /\ sa \in -H .. H - 1 /\ sb \in -H .. H - 1 /\ sb # 0
        BY <1>1, <1>3, <2>1
    <2>b. Quotient(sa, sb) \in -H .. H - 1
        BY <2>a, <2>1, QuotientCorrect
    <2>c. /\ Remainder(sa, sb) \in -H .. H - 1
          /\ Remainder(sa, sb) = sa - sb * Quotient(sa, sb)
        BY <2>a, QuotientCorrect
    <2>d. /\ IsRemainder(Remainder(sa, sb), sa, sb)
          /\ (sa - Remainder(sa, sb)) % Abs(sb) = 0
        BY <2>a, QuotientCorrect
    <2>3. /\ Quotient(sa, sb) \in -H .. H - 1 /\ Remainder(sa, sb) \in -H .. H - 1
          /\ Remainder(sa, sb) = sa - sb * Quotient(sa, sb)
          /\ IsRemainder(Remainder(sa, sb), sa, sb)
          /\ (sa - Remainder(sa, sb)) % Abs(sb) = 0
        BY <2>b, <2>c, <2>d
    <2>4. d = Quotient(sa, sb) /\ r = Remainder(sa, sb)
        BY <1>8, <2>1, <2>2
    <2>5. SInt(d % N, w) = d /\ SInt(r % N, w) = r
        BY <1>6, <2>3, <2>4
    <2>6. IsRemainder(sa - sb * d, sa, sb) /\ IsRemainder(r, sa, sb) /\ (sa - r) % Abs(sb) = 0
        BY <2>3, <2>4
    <2> QED BY <1>6, <1>7, <1>12, <2>5, <2>6
<1> QED BY <1>10, <1>11, <1>12

\* DIVU and REMU.
LEMMA DivideUnsignedCorrect ==
    ASSUME NEW n \in Nat \ {0}, NEW w \in 1 .. n, NEW p \in 0 .. 2^n - 1, NEW q,
           NEW a \in 0 .. 2^w - 1, NEW b \in 0 .. 2^w - 1,
           p % 2^w = a, q = 0 <=> b = 0
    PROVE  /\ IsResult("DIVU", a, b, (IF q = 0 THEN -1 ELSE a \div b) % 2^w, w)
           /\ IsResult("REMU", a, b, (IF q = 0 THEN p ELSE a % b) % 2^w, w)
<1> DEFINE N == 2^w
<1>1. N \in Nat \ {0} /\ a \in 0 .. N - 1 /\ b \in 0 .. N - 1 /\ p % N = a
    BY Halves
<1> SUFFICES /\ IsResult("DIVU", a, b, (IF q = 0 THEN -1 ELSE a \div b) % N, w)
             /\ IsResult("REMU", a, b, (IF q = 0 THEN p ELSE a % b) % N, w)
    OBVIOUS
<1>2. ASSUME NEW r
      PROVE  /\ IsResult("DIVU", a, b, r, w) <=> IF b = 0 THEN r
                = N - 1 ELSE a - b * r \in 0 .. b - 1
             /\ IsResult("REMU", a, b, r, w) <=> IF b = 0 THEN r = a ELSE r < b /\ (a - r) % b = 0
    BY ResultArith
<1> HIDE DEF N
<1>3. CASE b = 0
    <2>1. (-1) % N = N - 1
        BY <1>1, BelowZero
    <2> QED BY <1>1, <1>2, <1>3, <2>1
<1>4. CASE b # 0
    <2> DEFINE c == a \div b
               d == a % b
    <2>1. b \in Nat \ {0} /\ a \in Int /\ a \in Nat
        BY <1>1, <1>4
    <2>2. c \in Int /\ d \in 0 .. b - 1 /\ a = b * c + d
        BY <2>1, DivMod
    <2>3. c \in 0 .. a
        <3>1. c \in Nat /\ c <= a
            BY <2>1
        <3> QED BY <2>1, <3>1
    <2> HIDE DEF c, d
    <2>4. c % N = c /\ d % N = d
        <3>1. c \in 0 .. N - 1 /\ d \in 0 .. N - 1
            BY <1>1, <2>2, <2>3
        <3> QED BY <1>1, <3>1, Small
    <2>5. a - b * c \in 0 .. b - 1
        BY <2>1, <2>2
    <2>6. d < b /\ (a - d) % b = 0
        <3> DEFINE y == a - d
        <3>1. y = b * c
            BY <2>1, <2>2
        <3> HIDE DEF y
        <3>2. (b * c) % b = 0
            BY <2>1, <2>2, Multiple
        <3>3. y % b = 0
            BY <3>1, <3>2
        <3> QED BY <2>1, <2>2, <3>3 DEF y
    <2>7. IsResult("DIVU", a, b, c % N, w) /\ IsResult("REMU", a, b, d % N, w)
        BY <1>2, <1>4, <2>4, <2>5, <2>6
    <2> QED BY <1>4, <2>7 DEF c, d
<1> QED BY <1>3, <1>4

----------------------------------------------------------------------------
(* alu_exec: all operations at both widths.                                *)

\* The cases of the definitions.
LEMMA AluCases ==
    ASSUME NEW a, NEW b, NEW word, NEW n
    PROVE  /\ AluResult(a, b, "ADD", word, n) = a + b
           /\ AluResult(a, b, "SUB", word, n) = a - b
           /\ AluResult(a, b, "MUL", word, n) = Signed(a, n) * Signed(b, n)
           /\ AluResult(a, b, "DIV", word, n) = Divided(a, b, Signed(a, n), Signed(b, n), n)
           /\ AluResult(a, b, "REM", word, n) = Left(a, b, Signed(a, n), Signed(b, n), n)
BY DEF AluResult, Divided, Left

Shamt(b, word, n) == b % (IF word THEN n \div 2 ELSE n)
LowOf(v, word, n) == IF word THEN v % 2^(n \div 2) ELSE v

LEMMA AluLowCases ==
    ASSUME NEW a, NEW b, NEW word, NEW n
    PROVE  /\ AluResult(a, b, "SLL", word, n) = ShiftLeft(a, Shamt(b, word, n), n)
           /\ AluResult(a, b, "SRL", word, n) = ShiftRight(LowOf(a, word, n), Shamt(b, word, n))
           /\ AluResult(a, b, "SRA", word, n) = ShiftRight(Signed(a, n), Shamt(b, word, n))
           /\ AluResult(a, b, "DIVU", word, n) =
                IF b = 0 THEN -1 ELSE LowOf(a, word, n) \div LowOf(b, word, n)
           /\ AluResult(a, b, "REMU", word, n) =
                IF b = 0 THEN a ELSE LowOf(a, word, n) % LowOf(b, word, n)
BY DEF AluResult, Shamt, LowOf

LEMMA AluFullCases ==
    ASSUME NEW a, NEW b, NEW n
    PROVE  /\ AluResult(a, b, "SLT", FALSE, n) = IF Signed(a, n) < Signed(b, n) THEN 1 ELSE 0
           /\ AluResult(a, b, "SLTU", FALSE, n) = IF a < b THEN 1 ELSE 0
           /\ AluResult(a, b, "XOR", FALSE, n) = BitXor(a, b, n)
           /\ AluResult(a, b, "OR", FALSE, n) = BitOr(a, b, n)
           /\ AluResult(a, b, "AND", FALSE, n) = BitAnd(a, b, n)
BY DEF AluResult

High(a, b, n) == (a * b) \div 2^n

LEMMA ShiftInt ==
    ASSUME NEW n \in Nat, NEW s \in 0 .. n, NEW y \in Int
    PROVE  ShiftRight(y, s) \in Int /\ ShiftLeft(y, s, n) \in Int
<1> DEFINE K == 2^(n - s)
           z == y % K
<1>1. s \in Nat /\ n - s \in Nat
    OBVIOUS
<1>2. K \in Nat \ {0}
    BY <1>1, Pow
<1>3. z \in Int
    <2> HIDE DEF K
    <2> QED BY <1>2
<1> HIDE DEF z
<1>4. z * 2^s \in Int /\ y \div 2^s \in Int
    BY <1>1, <1>3, BitTimes, BitDiv
<1> QED BY <1>4 DEF ShiftRight, ShiftLeft, z

LEMMA DivideInt ==
    ASSUME NEW n \in Nat \ {0}, NEW p \in Int, NEW q, NEW a \in Int, NEW b \in Int, q = 0 <=> b = 0
    PROVE  Divided(p, q, a, b, n) \in Int /\ Left(p, q, a, b, n) \in Int
<1> DEFINE H == 2^(n - 1)
<1>1. H \in Nat
    BY Halves
<1>2. ASSUME b # 0 PROVE Quotient(a, b) \in Int
    <2> DEFINE m == IF a < 0 THEN -a ELSE a
               k == IF b < 0 THEN -b ELSE b
    <2>1. m \in Int /\ k \in Nat \ {0}
        BY <1>2
    <2> HIDE DEF m, k
    <2>2. m \div k \in Int
        BY <2>1, DivMod
    <2> QED BY <2>2 DEF Quotient, Magnitude, m, k
<1>3. ASSUME b # 0 PROVE Remainder(a, b) \in Int
    BY <1>2, <1>3 DEF Remainder
<1> HIDE DEF H
<1>4. /\ Divided(p, q, a, b, n) = IF q = 0 THEN -1 ELSE IF a = -H
         /\ b = -1 THEN -H ELSE Quotient(a, b)
      /\ Left(p, q, a, b, n) = IF q = 0 THEN p ELSE IF a = -H /\ b = -1 THEN 0 ELSE Remainder(a, b)
    BY DEF Divided, Left, H
<1> QED BY <1>1, <1>2, <1>3, <1>4

\* The operations of both widths, on operands as alu_exec has prepared them.
LEMMA WordCorrect ==
    ASSUME NEW n \in Nat \ {0}, NEW word \in BOOLEAN, NEW w \in 1 .. n,
           w = IF word THEN n \div 2 ELSE n,
           NEW p \in 0 .. 2^n - 1, NEW q \in 0 .. 2^n - 1, NEW a, NEW b, Operands(p, q, a, b, w, n),
           q % w = b % w, NEW op \in WordOp
    PROVE  /\ AluResult(p, q, op, word, n) \in Int
           /\ IsResult(op, a, b, AluResult(p, q, op, word, n) % 2^w, w)
<1>1. a \in 0 .. 2^w - 1 /\ b \in 0 .. 2^w - 1 /\ p % 2^w = a /\ q % 2^w = b
    BY DEF Operands
<1>2. Signed(p, n) = Signed(a, w) /\ Signed(q, n) = Signed(b, w)
    BY DEF Operands
<1> DEFINE low(v) == LowOf(v, word, n)
<1>3. low(p) = a /\ low(q) = b
    <2>1. CASE word
        BY <1>1, <2>1 DEF LowOf
    <2>2. CASE ~word
        <3>1. 2^n \in Nat \ {0} /\ w = n
            BY <2>2, Halves
        <3>2. p % 2^n = p /\ q % 2^n = q
            BY <3>1, Small
        <3> QED BY <1>1, <2>2, <3>1, <3>2 DEF LowOf
    <2> QED BY <2>1, <2>2
<1>4. w \in Nat \ {0}
    OBVIOUS
<1> DEFINE s == Shamt(q, word, n)
<1>5. s = b % w
    BY DEF Shamt
<1>6. b % w \in 0 .. w - 1
    <2>1. b \in Int
        BY <1>1, <1>4, Halves
    <2> QED BY <1>4, <2>1
<1> DEFINE R(o) == AluResult(p, q, o, word, n)
<1>7. /\ R("ADD") = p + q /\ R("SUB") = p - q
      /\ R("MUL") = Signed(p, n) * Signed(q, n)
    BY AluCases
<1>8. /\ R("SLL") = ShiftLeft(p, s, n) /\ R("SRL") = ShiftRight(low(p), s)
      /\ R("SRA") = ShiftRight(Signed(p, n), s)
    BY AluLowCases
<1>9. /\ R("DIV") = Divided(p, q, Signed(p, n), Signed(q, n), n)
      /\ R("REM") = Left(p, q, Signed(p, n), Signed(q, n), n)
    BY AluCases
<1>10. /\ R("DIVU") = IF q = 0 THEN -1 ELSE low(p) \div low(q)
       /\ R("REMU") = IF q = 0 THEN p ELSE low(p) % low(q)
    BY AluLowCases
<1> HIDE DEF R, s, low
<1> SUFFICES R(op) \in Int /\ IsResult(op, a, b, R(op) % 2^w, w)
    BY DEF R
<1>b. p \in Int /\ q \in Int /\ a \in Int /\ b \in Int /\ Signed(p, n) \in Int
      /\ Signed(q, n) \in Int
    <2> DEFINE N == 2^n
               M == 2^w
    <2>1. N \in Nat /\ M \in Nat /\ 2^(n - 1) \in Nat /\ p \in 0 .. N - 1 /\ q \in 0 .. N - 1
          /\ a \in 0 .. M - 1 /\ b \in 0 .. M - 1
        BY <1>1, <1>4, Halves
    <2>2. Signed(p, n) \in {p, p - N} /\ Signed(q, n) \in {q, q - N}
        BY DEF Signed
    <2> HIDE DEF N, M
    <2> QED BY <2>1, <2>2
<1>c. q = 0 <=> b = 0
    BY <1>1, <1>2, ZeroWord
<1>11. CASE op \in {"ADD", "SUB", "MUL"}
    <2>1. /\ IsResult("ADD", a, b, R("ADD") % 2^w, w) /\ IsResult("SUB", a, b, R("SUB") % 2^w, w)
          /\ IsResult("MUL", a, b, R("MUL") % 2^w, w)
        BY <1>4, <1>7, SumCorrect
    <2>2. R("ADD") \in Int /\ R("SUB") \in Int /\ R("MUL") \in Int
        BY <1>7, <1>b
    <2> QED BY <1>11, <2>1, <2>2
<1>12. CASE op \in {"SLL", "SRL", "SRA"}
    <2>1. /\ IsResult("SLL", a, b, R("SLL") % 2^w, w) /\ IsResult("SRL", a, b, R("SRL") % 2^w, w)
          /\ IsResult("SRA", a, b, R("SRA") % 2^w, w)
        <3>1. /\ IsResult("SLL", a, b, ShiftLeft(p, b % w, n) % 2^w, w)
              /\ IsResult("SRL", a, b, ShiftRight(a, b % w) % 2^w, w)
              /\ IsResult("SRA", a, b, ShiftRight(Signed(a, w), b % w) % 2^w, w)
            BY <1>1, <1>6, ShiftCorrect
        <3>2. /\ R("SLL") = ShiftLeft(p, b % w, n) /\ R("SRL") = ShiftRight(a, b % w)
              /\ R("SRA") = ShiftRight(Signed(a, w), b % w)
            BY <1>2, <1>3, <1>5, <1>8
        <3> QED BY <3>1, <3>2
    <2>2. s \in 0 .. n
        BY <1>5, <1>6
    <2>3. R("SLL") \in Int /\ R("SRL") \in Int /\ R("SRA") \in Int
        BY <1>3, <1>8, <1>b, <2>2, ShiftInt
    <2> QED BY <1>12, <2>1, <2>3
<1>13. CASE op \in {"DIV", "REM"}
    <2>1. IsResult("DIV", a, b, R("DIV") % 2^w, w) /\ IsResult("REM", a, b, R("REM") % 2^w, w)
        BY <1>1, <1>2, <1>9, DivideCorrect
    <2>2. q = 0 <=> Signed(q, n) = 0
        BY ZeroSigned
    <2>3. R("DIV") \in Int /\ R("REM") \in Int
        BY <1>9, <1>b, <2>2, DivideInt
    <2> QED BY <1>13, <2>1, <2>3
<1>14. CASE op \in {"DIVU", "REMU"}
    <2>1. q = 0 <=> b = 0
        BY <1>c
    <2>2. IsResult("DIVU", a, b, R("DIVU") % 2^w, w) /\ IsResult("REMU", a, b, R("REMU") % 2^w, w)
        <3>1. /\ IsResult("DIVU", a, b, (IF q = 0 THEN -1 ELSE a \div b) % 2^w, w)
              /\ IsResult("REMU", a, b, (IF q = 0 THEN p ELSE a % b) % 2^w, w)
            BY <1>1, <2>1, DivideUnsignedCorrect
        <3>2. R("DIVU") = (IF q = 0 THEN -1 ELSE a \div b)
              /\ R("REMU") = (IF q = 0 THEN p ELSE a % b)
            BY <1>3, <1>10
        <3> QED BY <3>1, <3>2
    <2>3. ASSUME b # 0 PROVE a \div b \in Int /\ a % b \in Int
        <3>1. b \in Nat \ {0}
            BY <1>1, <1>b, <2>3
        <3> QED BY <1>b, <3>1, DivMod
    <2>4. R("DIVU") \in Int /\ R("REMU") \in Int
        BY <1>3, <1>10, <1>b, <2>1, <2>3
    <2> QED BY <1>14, <2>2, <2>4
<1> QED BY <1>11, <1>12, <1>13, <1>14 DEF WordOp

LEMMA OperandsSelf ==
    ASSUME NEW n \in Nat \ {0}, NEW p \in 0 .. 2^n - 1, NEW q \in 0 .. 2^n - 1
    PROVE  Operands(p, q, p, q, n, n)
<1> DEFINE N == 2^n
<1>1. N \in Nat \ {0} /\ p \in 0 .. N - 1 /\ q \in 0 .. N - 1
    BY Halves
<1> HIDE DEF N
<1>2. p % N = p /\ q % N = q
    BY <1>1, Small
<1> QED BY <1>2 DEF Operands, N

\* At the width of a register.
LEMMA FullCorrect ==
    ASSUME NEW n \in Nat \ {0}, NEW p \in 0 .. 2^n - 1, NEW q \in 0 .. 2^n - 1,
           NEW op \in DOMAIN Encoding
    PROVE  /\ AluResult(p, q, op, FALSE, n) \in Int
           /\ IsResult(op, p, q, AluResult(p, q, op, FALSE, n) % 2^n, n)
<1>1. CASE op \in WordOp
    <2>1. Operands(p, q, p, q, n, n) /\ n \in 1 .. n /\ q % n = q % n
        BY OperandsSelf
    <2>2. n = IF FALSE THEN n \div 2 ELSE n
        OBVIOUS
    <2> QED BY <1>1, <2>1, <2>2, WordCorrect
<1>2. CASE op \in {"SLT", "SLTU", "XOR", "OR", "AND", "MULH", "MULHU", "MULHSU"}
    <2> DEFINE R(o) == AluResult(p, q, o, FALSE, n)
               N == 2^n
    <2>1. N \in Nat \ {0} /\ p \in Int /\ q \in Int
        BY Halves
    <2>2. /\ R("SLT") = IF Signed(p, n) < Signed(q, n) THEN 1 ELSE 0
          /\ R("SLTU") = IF p < q THEN 1 ELSE 0
          /\ R("XOR") = BitXor(p, q, n) /\ R("OR") = BitOr(p, q, n) /\ R("AND") = BitAnd(p, q, n)
        BY AluFullCases
    <2>a. /\ R("MULH") = (Signed(p, n) * Signed(q, n)) \div N
          /\ R("MULHU") = (p * q) \div N
          /\ R("MULHSU") = (Signed(p, n) * q) \div N
        <3>1. /\ R("MULH") = High(Signed(p, n), Signed(q, n), n)
              /\ R("MULHU") = High(p, q, n) /\ R("MULHSU") = High(Signed(p, n), q, n)
            BY DEF AluResult, High
        <3> QED BY <3>1, Zenon DEF High
    <2> SUFFICES R(op) \in Int /\ IsResult(op, p, q, R(op) % N, n)
        OBVIOUS
    <2>3. IsResult("SLTU", p, q, R("SLTU") % N, n) /\ IsResult("SLT", p, q, R("SLT") % N, n)
        BY <2>2, LessCorrect
    <2>4. /\ IsResult("MULH", p, q, R("MULH") % N, n) /\ IsResult("MULHU", p, q, R("MULHU") % N, n)
          /\ IsResult("MULHSU", p, q, R("MULHSU") % N, n)
        BY <2>a, HighCorrect
    <2>5. /\ BitXor(p, q, n) \in 0 .. N - 1 /\ BitOr(p, q, n) \in 0 .. N - 1
          /\ BitAnd(p, q, n) \in 0 .. N - 1
          /\ IsResult("XOR", p, q, BitXor(p, q, n), n) /\ IsResult("OR", p, q, BitOr(p, q, n), n)
          /\ IsResult("AND", p, q, BitAnd(p, q, n), n)
        BY <2>1, BitsCorrect
    <2>6. Signed(p, n) \in Int /\ Signed(q, n) \in Int
        <3>1. Signed(p, n) \in {p, p - N} /\ Signed(q, n) \in {q, q - N}
            BY DEF Signed
        <3> HIDE DEF N
        <3> QED BY <2>1, <3>1
    <2> HIDE DEF R, N
    <2>7. /\ IsResult("XOR", p, q, R("XOR") % N, n) /\ R("XOR") \in Int
          /\ IsResult("OR", p, q, R("OR") % N, n) /\ R("OR") \in Int
          /\ IsResult("AND", p, q, R("AND") % N, n) /\ R("AND") \in Int
        <3>1. ASSUME NEW y \in 0 .. N - 1 PROVE y % N = y /\ y \in Int
            BY <2>1, Small
        <3> QED BY <2>2, <2>5, <3>1
    <2>8. R("SLT") \in Int /\ R("SLTU") \in Int
        BY <2>2
    <2>9. R("MULH") \in Int /\ R("MULHU") \in Int /\ R("MULHSU") \in Int
        <3>1. p * q \in Int /\ Signed(p, n) * q \in Int /\ Signed(p, n) * Signed(q, n) \in Int
            BY <2>1, <2>6
        <3>2. ASSUME NEW y \in Int PROVE y \div N \in Int
            BY <2>1, DivMod
        <3> QED BY <2>a, <3>1, <3>2
    <2> QED BY <1>2, <2>3, <2>4, <2>7, <2>8, <2>9
<1>3. DOMAIN Encoding \subseteq WordOp \cup {"SLT", "SLTU", "XOR", "OR", "AND", "MULH", "MULHU",
      "MULHSU"}
    BY DEF Encoding, WordOp
<1> QED BY <1>1, <1>2, <1>3

\* At both widths, with the sign extension of a word.
LEMMA AluExecCorrect ==
    ASSUME NEW n \in Nat \ {0}, NEW word \in BOOLEAN, NEW w \in 1 .. n,
           w = IF word THEN n \div 2 ELSE n, word => \E k \in 0 .. w : w = 2^k,
           NEW p \in 0 .. 2^n - 1, NEW q \in 0 .. 2^n - 1,
           NEW op \in DOMAIN Encoding, word => op \in WordOp, NEW r, r = alu_exec(p, q, op, word, n)
    PROVE  /\ r \in 0 .. 2^n - 1
           /\ IsResult(op, p % 2^w, q % 2^w, r % 2^w, w)
           /\ r = SInt(r % 2^w, w) % 2^n
<1>1. w \in Nat \ {0} /\ w <= n /\ p \in Int /\ q \in Int
    BY Halves
<1>a. ASSUME NEW v \in Int
      PROVE  /\ Extend(v, w, n) \in 0 .. 2^n - 1 /\ Extend(v, w, n) % 2^w = v % 2^w
             /\ v % 2^w \in 0 .. 2^w - 1
             /\ Signed(Extend(v, w, n), n) = Signed(v % 2^w, w)
    BY <1>1, ExtendWord, Zenon
<1> DEFINE operand(v) == IF word THEN Extend(v, n \div 2, n) ELSE v
           R == AluResult(operand(p), operand(q), op, word, n)
<1>2. r = Extend(R, w, n)
    BY DEF alu_exec
<1>3. R \in Int /\ IsResult(op, p % 2^w, q % 2^w, R % 2^w, w)
    <2>1. CASE word
        <3> DEFINE p2 == Extend(p, w, n)
                   q2 == Extend(q, w, n)
                   a == p % 2^w
                   b == q % 2^w
        <3>1. R = AluResult(p2, q2, op, word, n) /\ op \in WordOp /\ w = n \div 2
            BY <2>1
        <3>2. /\ p2 \in 0 .. 2^n - 1 /\ p2 % 2^w = a /\ Signed(p2, n) = Signed(a, w)
                 /\ a \in 0 .. 2^w - 1
              /\ q2 \in 0 .. 2^n - 1 /\ q2 % 2^w = b /\ Signed(q2, n) = Signed(b, w)
                 /\ b \in 0 .. 2^w - 1
            BY <1>1, <1>a, Zenon
        <3>3. Operands(p2, q2, a, b, w, n)
            BY <3>2 DEF Operands
        <3>4. q2 % w = b % w
            <4>1. PICK k \in 0 .. w : w = 2^k
                BY <2>1
            <4> DEFINE M == 2^k
                       K == 2^(w - k)
            <4>2. M \in Nat \ {0} /\ K \in Nat \ {0} /\ 2^w = M * K /\ w = M
                <5>1. w \in Nat
                    BY <1>1
                <5>2. 2^w = M * K /\ M \in Nat \ {0} /\ K \in Nat \ {0}
                    BY <5>1, PowSplit
                <5> QED BY <4>1, <5>2
            <4>3. q2 \in Int
                BY <3>2, Halves
            <4> HIDE DEF q2, M, K
            <4>4. (q2 % (M * K)) % M = q2 % M
                BY <4>2, <4>3, DivDiv
            <4>5. (q2 % 2^w) % w = q2 % w
                BY <4>2, <4>4
            <4> QED BY <3>2, <4>5
        <3> HIDE DEF p2, q2, a, b, R
        <3>5. R \in Int /\ IsResult(op, a, b, R % 2^w, w)
            BY <3>1, <3>2, <3>3, <3>4, WordCorrect
        <3> QED BY <3>5 DEF a, b
    <2>2. CASE ~word
        <3>1. w = n /\ word = FALSE /\ R = AluResult(p, q, op, FALSE, n)
            BY <2>2
        <3>2. p % 2^n = p /\ q % 2^n = q
            BY Halves, Small
        <3>3. R \in Int /\ IsResult(op, p, q, R % 2^n, n)
            BY <3>1, FullCorrect
        <3> QED BY <3>1, <3>2, <3>3
    <2> QED BY <2>1, <2>2
<1> HIDE DEF R
<1>4. /\ r \in 0 .. 2^n - 1 /\ r % 2^w = R % 2^w /\ R % 2^w \in 0 .. 2^w - 1
    BY <1>2, <1>3, <1>a, Zenon
<1>5. r = Signed(R % 2^w, w) % 2^n
    BY <1>2 DEF Extend
<1> QED BY <1>1, <1>3, <1>4, <1>5, SIntIsSigned

----------------------------------------------------------------------------
(* pa_amo_op.                                                              *)

\* The cases of the definitions.
LEMMA AmoCases ==
    ASSUME NEW src, NEW res, NEW n
    PROVE  /\ AmoResult(src, res, "SWAP", n) = src
           /\ AmoResult(src, res, "ADD", n) = src + res
           /\ AmoResult(src, res, "AND", n) = BitAnd(src, res, n)
           /\ AmoResult(src, res, "OR", n) = BitOr(src, res, n)
           /\ AmoResult(src, res, "XOR", n) = BitXor(src, res, n)
           /\ AmoResult(src, res, "MAX", n) = IF Signed(src, n) < Signed(res, n) THEN res ELSE src
           /\ AmoResult(src, res, "MIN", n) = IF Signed(res, n) < Signed(src, n) THEN res ELSE src
           /\ AmoResult(src, res, "MAXU", n) = IF src < res THEN res ELSE src
           /\ AmoResult(src, res, "MINU", n) = IF res < src THEN res ELSE src
BY DEF AmoResult

LEMMA IsAmoCases ==
    ASSUME NEW m, NEW a, NEW r, NEW w
    PROVE  /\ IsAmo("SWAP", m, a, r, w) <=> r = a
           /\ \A op \in {"ADD", "AND", "OR",
              "XOR"} : IsAmo(op, m, a, r, w) <=> IsResult(op, m, a, r, w)
           /\ IsAmo("MIN", m, a, r, w) <=> r \in {m, a} /\ SInt(r, w) <= SInt(m, w)
              /\ SInt(r, w) <= SInt(a, w)
           /\ IsAmo("MAX", m, a, r, w) <=> r \in {m, a} /\ SInt(r, w) >= SInt(m, w)
              /\ SInt(r, w) >= SInt(a, w)
           /\ IsAmo("MINU", m, a, r, w) <=> r \in {m, a} /\ r <= m /\ r <= a
           /\ IsAmo("MAXU", m, a, r, w) <=> r \in {m, a} /\ r >= m /\ r >= a
BY DEF IsAmo

\* The bits of a number of n, of which w are kept.
LEMMA LowBits ==
    ASSUME NEW n \in Nat \ {0}, NEW w \in 1 .. n, NEW src \in Int, NEW res \in Int, NEW a \in Int,
           NEW m \in Int,
           src % 2^w = a, res % 2^w = m
    PROVE  /\ IsResult("AND", m, a, BitAnd(src, res, n) % 2^w, w)
           /\ IsResult("OR", m, a, BitOr(src, res, n) % 2^w, w)
           /\ IsResult("XOR", m, a, BitXor(src, res, n) % 2^w, w)
<1>1. ASSUME NEW i \in 0 .. w - 1, NEW y \in Int PROVE Bit(y % 2^w, i) = Bit(y, i)
    <2>1. w \in Nat
        OBVIOUS
    <2> QED BY <2>1, BitOfMod
<1>2. ASSUME NEW i \in 0 .. w - 1
      PROVE  Bit(src, i) = Bit(a, i) /\ Bit(res, i) = Bit(m, i) /\ i \in 0 .. n - 1
             /\ Bit(a, i) \in {0, 1} /\ Bit(m, i) \in {0, 1}
    <2>1. Bit(src % 2^w, i) = Bit(src, i) /\ Bit(res % 2^w, i) = Bit(res, i)
        BY <1>1
    <2>2. i \in Nat /\ i \in 0 .. n - 1
        OBVIOUS
    <2>3. Bit(a, i) \in {0, 1} /\ Bit(m, i) \in {0, 1}
        BY <2>2, BitIsBit
    <2> QED BY <2>1, <2>2, <2>3
<1> DEFINE c == BitAnd(src, res, n)
           d == BitOr(src, res, n)
           e == BitXor(src, res, n)
           N == 2^n
<1>3. /\ c \in 0 .. N - 1 /\ d \in 0 .. N - 1 /\ e \in 0 .. N - 1
      /\ IsResult("AND", src, res, c, n) /\ IsResult("OR", src, res, d, n)
         /\ IsResult("XOR", src, res, e, n)
    BY BitsCorrect
<1>4. /\ \A i \in 0 .. n - 1 : Bit(c, i) = IF Bit(src, i) = 1 THEN Bit(res, i) ELSE 0
      /\ \A i \in 0 .. n - 1 : Bit(d, i) = IF Bit(src, i) = 1 THEN 1 ELSE Bit(res, i)
      /\ \A i \in 0 .. n - 1 : Bit(e, i) = IF Bit(src, i) = Bit(res, i) THEN 0 ELSE 1
    BY <1>3, ResultBits
<1> HIDE DEF c, d, e
<1>5. c \in Int /\ d \in Int /\ e \in Int
    <2>1. N \in Nat
        BY Halves
    <2> HIDE DEF N
    <2> QED BY <1>3, <2>1
<1>6. ASSUME NEW i \in 0 .. w - 1
      PROVE  /\ Bit(c % 2^w, i) = IF Bit(m, i) = 1 THEN Bit(a, i) ELSE 0
             /\ Bit(d % 2^w, i) = IF Bit(m, i) = 1 THEN 1 ELSE Bit(a, i)
             /\ Bit(e % 2^w, i) = IF Bit(m, i) = Bit(a, i) THEN 0 ELSE 1
    <2>1. Bit(c % 2^w, i) = Bit(c, i) /\ Bit(d % 2^w, i) = Bit(d, i) /\ Bit(e % 2^w, i) = Bit(e, i)
        BY <1>1, <1>5
    <2>2. /\ Bit(c, i) = IF Bit(a, i) = 1 THEN Bit(m, i) ELSE 0
          /\ Bit(d, i) = IF Bit(a, i) = 1 THEN 1 ELSE Bit(m, i)
          /\ Bit(e, i) = IF Bit(a, i) = Bit(m, i) THEN 0 ELSE 1
        BY <1>2, <1>4
    <2> QED BY <1>2, <2>1, <2>2
<1>7. /\ IsResult("AND", m, a, c % 2^w, w) /\ IsResult("OR", m, a, d % 2^w, w)
      /\ IsResult("XOR", m, a, e % 2^w, w)
    BY <1>6, ResultBits
<1> QED BY <1>7 DEF c, d, e

\* A word and its extension: the same number as signed, in the same order as unsigned.
LEMMA Extended ==
    ASSUME NEW n \in Nat \ {0}, NEW w \in 1 .. n, NEW a \in 0 .. 2^w - 1
    PROVE  LET s == Signed(a, w) % 2^n
           IN  /\ s = Extend(a, w, n) /\ s \in 0 .. 2^n - 1 /\ s % 2^w = a
                  /\ Signed(s, n) = Signed(a, w)
               /\ s = IF a >= 2^(w - 1) THEN a + (2^n - 2^w) ELSE a
<1> DEFINE M == 2^w
           G == 2^(w - 1)
           N == 2^n
           s == Signed(a, w) % N
<1>1. w \in Nat \ {0} /\ w <= n /\ a \in Int /\ N \in Nat \ {0} /\ M \in Nat \ {0}
      /\ G \in Nat \ {0} /\ M = 2 * G
    BY Halves
<1>2. a % M = a
    BY <1>1, Small
<1>3. s = Extend(a, w, n)
    BY <1>2 DEF Extend
<1>4. s \in 0 .. N - 1 /\ s % M = a /\ Signed(s, n) = Signed(a, w)
    <2>1. /\ Extend(a, w, n) \in 0 .. 2^n - 1 /\ Extend(a, w, n) % 2^w = a % 2^w
          /\ Signed(Extend(a, w, n), n) = Signed(a % 2^w, w)
        BY <1>1, ExtendWord, Zenon
    <2> QED BY <1>2, <1>3, <2>1
<1>5. M <= N
    <2> DEFINE K == 2^(n - w)
    <2>1. N = M * K /\ K \in Nat \ {0}
        <3>1. n \in Nat /\ w \in 0 .. n
            OBVIOUS
        <3> QED BY <3>1, PowSplit
    <2> HIDE DEF M, N, K
    <2>2. M * 1 <= M * K
        BY <1>1, <2>1, Times
    <2> QED BY <1>1, <2>1, <2>2
<1>6. s = IF a >= G THEN a + (N - M) ELSE a
    <2>1. Signed(a, w) = (IF a >= G THEN a - M ELSE a) /\ a \in 0 .. M - 1
        BY DEF Signed
    <2> HIDE DEF M, N, G
    <2>2. CASE a >= G
        <3> DEFINE y == a - M
        <3>1. y \in -N .. -1
            BY <1>1, <1>5, <2>1, <2>2
        <3> HIDE DEF y
        <3>2. y % N = y + N
            BY <1>1, <3>1, BelowZero
        <3>3. s = y % N
            BY <2>1, <2>2 DEF y
        <3>4. y + N = a + (N - M)
            BY <1>1 DEF y
        <3> QED BY <2>2, <3>2, <3>3, <3>4
    <2>3. CASE ~(a >= G)
        <3>1. a \in 0 .. N - 1
            BY <1>1, <1>5, <2>1
        <3>2. a % N = a
            BY <1>1, <3>1, Small
        <3> QED BY <2>1, <2>3, <3>2
    <2> QED BY <2>2, <2>3
<1> QED BY <1>3, <1>4, <1>6

\* Sign extension keeps the order of words, signed and unsigned.
LEMMA ExtendedOrder ==
    ASSUME NEW n \in Nat \ {0}, NEW w \in 1 .. n, NEW a \in 0 .. 2^w - 1, NEW m \in 0 .. 2^w - 1
    PROVE  Signed(a, w) % 2^n < Signed(m, w) % 2^n <=> a < m
<1> DEFINE M == 2^w
           G == 2^(w - 1)
           N == 2^n
           D == N - M
           s == Signed(a, w) % N
           t == Signed(m, w) % N
<1>1. /\ N \in Nat \ {0} /\ M \in Nat \ {0} /\ G \in Nat \ {0} /\ M = 2 * G
      /\ a \in 0 .. M - 1 /\ m \in 0 .. M - 1
    BY Halves
<1>2. M <= N
    <2> DEFINE K == 2^(n - w)
    <2>1. N = M * K /\ K \in Nat \ {0}
        <3>1. n \in Nat /\ w \in 0 .. n
            OBVIOUS
        <3> QED BY <3>1, PowSplit
    <2> HIDE DEF M, N, K
    <2>2. M * 1 <= M * K
        BY <1>1, <2>1, Times
    <2> QED BY <1>1, <2>1, <2>2
<1>3. s = (IF a >= G THEN a + D ELSE a) /\ t = (IF m >= G THEN m + D ELSE m)
    BY Extended
<1> HIDE DEF M, N, G, s, t
<1>4. D \in Nat
    BY <1>1, <1>2
<1> HIDE DEF D
<1>5. s < t <=> a < m
    BY <1>1, <1>3, <1>4
<1> QED BY <1>5 DEF s, t, N

\* pa_amo_op against IsAmo.
LEMMA AmoExecCorrect ==
    ASSUME NEW n \in Nat \ {0}, NEW word \in BOOLEAN, NEW w \in 1 .. n,
           w = IF word THEN n \div 2 ELSE n,
           NEW memory \in 0 .. 2^w - 1, NEW src \in 0 .. 2^n - 1, NEW op \in DOMAIN AmoEncoding
    PROVE  LET amo == pa_amo_op(memory, src, op, word, n)
               a == src % 2^w
           IN  /\ amo.dst = SInt(memory, w) % 2^n
               /\ op \notin {"MIN", "MAX", "MINU", "MAXU"} \/ src = SInt(a, w) % 2^n
                     => IsAmo(op, memory, a, amo.to_write, w)
<1> DEFINE a == src % 2^w
           res == Signed(memory, w) % 2^n
           to_write == AmoResult(src, res, op, n) % 2^w
<1>1. w \in Nat \ {0} /\ memory \in Int /\ src \in Int /\ 2^w \in Nat \ {0}
    BY Halves
<1>2. a \in 0 .. 2^w - 1 /\ a \in Int
    <2> DEFINE M == 2^w
    <2>1. M \in Nat \ {0}
        BY <1>1
    <2> HIDE DEF M
    <2>2. src % M \in 0 .. M - 1
        BY <1>1, <2>1
    <2> QED BY <1>1, <2>2 DEF M
<1>3. /\ res = Extend(memory, w, n) /\ res \in 0 .. 2^n - 1 /\ res % 2^w = memory
      /\ Signed(res, n) = Signed(memory, w)
    BY Extended
<1>4. res \in Int
    BY <1>3, Halves
<1>5. SInt(memory, w) = Signed(memory, w) /\ SInt(a, w) = Signed(a, w)
    BY <1>1, <1>2, SIntIsSigned
<1>6. pa_amo_op(memory, src, op, word, n) = [dst |-> res, to_write |-> to_write]
    BY <1>3 DEF pa_amo_op
<1>7. DOMAIN AmoEncoding = {"SWAP", "ADD", "XOR", "AND", "OR", "MIN", "MAX", "MINU", "MAXU"}
    BY DEF AmoEncoding
<1> HIDE DEF a, res
<1>8. ASSUME op \notin {"MIN", "MAX", "MINU", "MAXU"} PROVE IsAmo(op, memory, a, to_write, w)
    <2>1. CASE op = "SWAP"
        BY <2>1, AmoCases, IsAmoCases DEF a
    <2>2. CASE op = "ADD"
        <3> DEFINE N == 2^w
                   s == src + res
                   t == memory + a
        <3>1. N \in Nat \ {0} /\ src % N = a /\ res % N = memory /\ memory \in 0 .. N - 1
              /\ a \in 0 .. N - 1
            BY <1>1, <1>2, <1>3 DEF a
        <3>2. s \in Int /\ t \in Int
            BY <1>1, <1>2, <1>4
        <3> HIDE DEF N
        <3>3. a % N = a /\ memory % N = memory
            BY <3>1, Small
        <3>4. Congruent(src, a, N) /\ Congruent(res, memory, N)
            BY <3>1, <3>3 DEF Congruent
        <3>5. Congruent(src + res, a + memory, N)
            BY <1>1, <1>2, <1>4, <3>1, <3>4, ModAdd
        <3>6. a + memory = t
            BY <1>1, <1>2
        <3>7. Congruent(s, t, N)
            BY <3>5, <3>6
        <3> HIDE DEF s, t
        <3>8. (t - (s % N)) % N = 0
            BY <3>1, <3>2, <3>7, ModResult
        <3>9. memory + a - (s % N) = t - (s % N)
            <4> DEFINE r == s % N
            <4>1. r \in Int
                BY <3>1, <3>2
            <4> HIDE DEF r
            <4>2. memory + a - r = (memory + a) - r
                BY <1>1, <1>2, <4>1
            <4> QED BY <4>2 DEF r, t
        <3>10. (memory + a - (s % N)) % N = 0
            BY <3>8, <3>9
        <3>11. IsResult("ADD", memory, a, s % N, w)
            BY <3>10, ResultArith DEF N
        <3>12. to_write = s % N
            BY <2>2, AmoCases DEF s, N
        <3> QED BY <2>2, <3>11, <3>12, IsAmoCases
    <2>3. CASE op \in {"AND", "OR", "XOR"}
        <3>1. /\ IsResult("AND", memory, a, BitAnd(src, res, n) % 2^w, w)
              /\ IsResult("OR", memory, a, BitOr(src, res, n) % 2^w, w)
              /\ IsResult("XOR", memory, a, BitXor(src, res, n) % 2^w, w)
            BY <1>1, <1>2, <1>3, <1>4, LowBits DEF a
        <3>2. /\ op = "AND" => to_write = BitAnd(src, res, n) % 2^w
              /\ op = "OR" => to_write = BitOr(src, res, n) % 2^w
              /\ op = "XOR" => to_write = BitXor(src, res, n) % 2^w
            BY AmoCases
        <3>3. IsResult(op, memory, a, to_write, w)
            BY <2>3, <3>1, <3>2
        <3> QED BY <2>3, <3>3, IsAmoCases
    <2> QED BY <1>7, <1>8, <2>1, <2>2, <2>3
<1>9. ASSUME op \in {"MIN", "MAX", "MINU", "MAXU"}, src = SInt(a, w) % 2^n
      PROVE  IsAmo(op, memory, a, to_write, w)
    <2>1. src = Signed(a, w) % 2^n /\ Signed(src, n) = Signed(a, w)
        <3>1. src = Signed(a, w) % 2^n
            BY <1>5, <1>9
        <3> QED BY <1>2, <3>1, Extended
    <2>2. (src < res <=> a < memory) /\ (res < src <=> memory < a)
        BY <1>2, <2>1, ExtendedOrder DEF res
    <2>3. src % 2^w = a /\ res % 2^w = memory
        BY <1>3 DEF a
    <2> DEFINE sm == SInt(memory, w)
               sa == SInt(a, w)
    <2>4. sm = Signed(res, n) /\ sa = Signed(src, n) /\ sm \in Int /\ sa \in Int
        <3>1. Signed(memory, w) \in Int /\ Signed(a, w) \in Int
            BY <1>1, <1>2 DEF Signed
        <3> QED BY <1>3, <1>5, <2>1, <3>1
    <2> HIDE DEF sm, sa
    <2>5. /\ op = "MAX" => to_write = IF sa < sm THEN memory ELSE a
          /\ op = "MIN" => to_write = IF sm < sa THEN memory ELSE a
          /\ op = "MAXU" => to_write = IF a < memory THEN memory ELSE a
          /\ op = "MINU" => to_write = IF memory < a THEN memory ELSE a
        BY <2>2, <2>3, <2>4, AmoCases
    <2> HIDE DEF to_write
    <2>6. CASE op \in {"MAXU", "MINU"}
        BY <1>1, <1>2, <2>5, <2>6, IsAmoCases
    <2>7. CASE op \in {"MAX", "MIN"}
        <3>1. SInt(to_write, w) = IF to_write = a THEN sa ELSE SInt(to_write, w)
            BY DEF sa
        <3>2. to_write = memory => SInt(to_write, w) = sm
            BY DEF sm
        <3>3. to_write = a => SInt(to_write, w) = sa
            BY DEF sa
        <3> QED BY <2>4, <2>5, <2>7, <3>2, <3>3, IsAmoCases DEF sm, sa
    <2> QED BY <1>9, <2>6, <2>7
<1> DEFINE amo == pa_amo_op(memory, src, op, word, n)
<1>10. amo.dst = res /\ amo.to_write = to_write
    BY <1>6
<1> HIDE DEF to_write, amo
<1>11. /\ amo.dst = SInt(memory, w) % 2^n
       /\ op \notin {"MIN", "MAX", "MINU", "MAXU"} \/ src = SInt(a, w) % 2^n
            => IsAmo(op, memory, a, amo.to_write, w)
    BY <1>5, <1>8, <1>9, <1>10 DEF res
<1> QED BY <1>11 DEF a, amo

----------------------------------------------------------------------------
(* What an executed instruction leaves.                                    *)

\* The decoder of funct7 and funct3 reads the encoding of the architecture.
LEMMA OpOfEncoding ==
    ASSUME NEW op \in DOMAIN Encoding
    PROVE  /\ Op(Encoding[op][1], Encoding[op][2]) = op /\ op # "NOP"
           /\ Encoding[op] \in WordEncoding <=> op \in WordOp
<1>1. Op(Encoding[op][1], Encoding[op][2]) = op /\ op # "NOP"
    BY DEF Op, Encoding
<1>2. \A o, p \in DOMAIN Encoding : Encoding[o] = Encoding[p] => o = p
    BY DEF Encoding
<1>3. WordOp \subseteq DOMAIN Encoding
    BY DEF WordOp, Encoding
<1>4. WordEncoding = {Encoding[o] : o \in WordOp}
    BY DEF WordEncoding, WordOp
<1>5. Encoding[op] \in WordEncoding <=> op \in WordOp
    BY <1>2, <1>3, <1>4
<1> QED BY <1>1, <1>5

\* What ProgramAssumption says of the hart an instruction finds.
Typed(s) ==
    /\ IsHart(s) /\ s.npc = NoPc /\ s.trap = NoTrap /\ s.stored = NoStore /\ s.call = "none"
    /\ TypedHart(s)

\* What an instruction finds, by the invariant.
LEMMA InvTyped ==
    ASSUME ExecInv
    PROVE  Typed(before) /\ TypedInst(inst) /\ (ShiftsWords(inst) => PowerOfTwo(before.n \div 2))
<1>1. PICK k, s :
        /\ k \in DOMAIN Program /\ s \in Program[k].harts
        /\ inst \in Program[k].insts /\ before = Hart(s.n, s.x, s.pc)
    BY DEF ExecInv
<1>2. /\ IsHart(before) /\ before.npc = NoPc /\ before.trap = NoTrap /\ before.stored = NoStore
      /\ before.call = "none" /\ before.n = s.n /\ before.x = s.x /\ before.pc = s.pc
    BY <1>1 DEF Hart, IsHart
<1>3. /\ TypedHart(s) /\ TypedInst(inst)
      /\ ShiftsWords(inst) => PowerOfTwo(s.n \div 2)
    BY <1>1, ProgramAssumption, Zenon
<1>4. TypedHart(before)
    BY <1>2, <1>3 DEF TypedHart
<1> QED BY <1>2, <1>3, <1>4 DEF Typed

\* An instruction that was executed leaves its registers and its trap to the epilogue.
LEMMA DoneExecuted ==
    ASSUME ExecInv, Done
    PROVE  LET t == Execute(before, inst)
           IN  /\ IsHart(t) /\ t.n = before.n
               /\ hart.n = t.n /\ hart.x = t.x /\ hart.npc = t.npc /\ hart.trap = t.trap
               /\ hart.stored = t.stored /\ hart.call = t.call
<1> DEFINE t == Execute(before, inst)
<1>1. hart = Epilogue(t, inst)
    BY DEF ExecInv, Done
<1>2. Precise(before, t)
    BY InvTyped, ExecBasePrecise, ExecRvcPrecise DEF Typed, Execute
<1>3. IsHart(t) /\ t.n = before.n
    BY <1>2 DEF Precise
<1> HIDE DEF t
<1>4. /\ hart.n = t.n /\ hart.x = t.x /\ hart.npc = t.npc /\ hart.trap = t.trap
      /\ hart.stored = t.stored /\ hart.call = t.call
    BY <1>1, <1>3 DEF Epilogue, IsHart
<1> QED BY <1>3, <1>4 DEF t

----------------------------------------------------------------------------
(* Register-register instructions.                                         *)

LEMMA setGPRResult ==
    ASSUME NEW s, Typed(s), NEW rd \in 1 .. 31, NEW v \in 0 .. 2^s.n - 1
    PROVE  setGPR(s, rd, v).x[rd] = v
<1>1. s.n \in Nat \ {0} /\ 2^s.n \in Nat \ {0}
    BY Pow DEF Typed, TypedHart
<1>2. v % 2^s.n = v
    BY <1>1, Small
<1>3. DOMAIN s.x = 0 .. 31 /\ IsHart(s)
    BY DEF Typed, TypedHart
<1> QED BY <1>2, <1>3 DEF setGPR, IsHart

\* The outer switch.
LEMMA ExecOpOfBase ==
    ASSUME NEW s, NEW i, NEW word \in BOOLEAN, i.opcode = (IF word THEN "OP32" ELSE "OP")
    PROVE  ExecBase(s, i) = ExecOp(s, i, word)
BY DEF ExecBase

\* Of a word the low half of the register, and else all of it.
LEMMA LowMod ==
    ASSUME NEW word \in BOOLEAN, NEW n \in Nat \ {0}, n % 2 = 0, n >= 6, hart.n = n
    PROVE  /\ Width(word) \in 1 .. n /\ Width(word) = IF word THEN n \div 2 ELSE n
           /\ \A v \in 0 .. 2^n - 1 : Low(v, word) = v % 2^Width(word)
<1>1. Width(word) = IF word THEN n \div 2 ELSE n
    BY DEF Width
<1>2. Width(word) \in 1 .. n
    BY <1>1
<1>3. ASSUME NEW v \in 0 .. 2^n - 1
      PROVE  Low(v, word) = v % 2^Width(word)
    <2>1. CASE word
        BY <2>1, <1>1 DEF Low
    <2>2. CASE ~word
        <3>1. v % 2^n = v
            BY Pow, Small
        <3> QED BY <2>2, <3>1, <1>1 DEF Low
    <2> QED BY <2>1, <2>2
<1> QED BY <1>1, <1>2, <1>3

\* alu_exec and its decoding give every register-register instruction the result
\* of the architecture, at both widths (ExecOp).
THEOREM AluCorrect == Spec => []AluMatchesIsa
<1>1. ExecInv => AluMatchesIsa
    <2> SUFFICES ASSUME ExecInv, NEW op \in DOMAIN Encoding, NEW word \in BOOLEAN,
                        Done, ~is_compressed(inst), inst.opcode = (IF word THEN "OP32" ELSE "OP"),
                        <<inst.funct7, inst.funct3>> = Encoding[op], inst.rd # 0
                 PROVE  IF word /\ Encoding[op] \notin WordEncoding
                        THEN hart.trap.cause = "illegal_instr"
                        ELSE LET r == hart.x[inst.rd]
                             IN  /\ IsResult(op, Low(before.x[inst.rs1], word),
                                             Low(before.x[inst.rs2], word), Low(r, word),
                                             Width(word))
                                 /\ word => r = SInt(Low(r, word), Width(word)) % 2^hart.n
        BY Zenon DEF AluMatchesIsa
    <2> DEFINE n == before.n
               w == Width(word)
               p == before.x[inst.rs1]
               q == before.x[inst.rs2]
               result == alu_exec(p, q, op, word, n)
    <2>1. Typed(before) /\ TypedInst(inst) /\ (ShiftsWords(inst) => PowerOfTwo(n \div 2))
        BY InvTyped
    <2>2. n \in Nat \ {0} /\ n % 2 = 0 /\ n >= 6 /\ before.x \in [0 .. 31 -> 0 .. 2^n - 1]
        BY <2>1 DEF Typed, TypedHart
    <2>3. inst.rd \in 1 .. 31 /\ inst.rs1 \in 0 .. 31 /\ inst.rs2 \in 0 .. 31
        BY <2>1 DEF TypedInst
    <2>4. p \in 0 .. 2^n - 1 /\ q \in 0 .. 2^n - 1
        BY <2>2, <2>3
    <2>5. Op(inst.funct7, inst.funct3) = op /\ op # "NOP"
          /\ (Encoding[op] \in WordEncoding <=> op \in WordOp)
        <3>1. inst.funct7 = Encoding[op][1] /\ inst.funct3 = Encoding[op][2]
            OBVIOUS
        <3> QED BY <3>1, OpOfEncoding
    <2>6. Execute(before, inst) = IF word /\ op \notin WordOp THEN Illegal(before)
                                  ELSE setGPR(before, inst.rd, result)
        <3>1. Execute(before, inst) = ExecOp(before, inst, word)
            BY ExecOpOfBase DEF Execute
        <3> QED BY <3>1, <2>5, Zenon DEF ExecOp
    <2> DEFINE t == Execute(before, inst)
    <2>7. hart.n = n /\ hart.x = t.x /\ hart.trap = t.trap
        BY DoneExecuted
    <2> HIDE DEF t, result
    <2>8. CASE word /\ op \notin WordOp
        <3>1. t.trap.cause = "illegal_instr"
            BY <2>1, <2>6, <2>8 DEF t, Illegal, raiseTrap, Typed, IsHart
        <3> QED BY <3>1, <2>5, <2>7, <2>8
    <2>9. CASE word => op \in WordOp
        <3>1. /\ w \in 1 .. n /\ w = (IF word THEN n \div 2 ELSE n)
              /\ \A v \in 0 .. 2^n - 1 : Low(v, word) = v % 2^w
            BY <2>2, <2>7, LowMod
        <3>2. word => \E k \in 0 .. w : w = 2^k
            BY <2>1, <3>1 DEF ShiftsWords, PowerOfTwo
        <3> HIDE DEF p, q, w, n
        <3>3. /\ result \in 0 .. 2^n - 1
              /\ IsResult(op, p % 2^w, q % 2^w, result % 2^w, w)
              /\ result = SInt(result % 2^w, w) % 2^n
            <4>1. n \in Nat \ {0} /\ w \in 1 .. n /\ p \in 0 .. 2^n - 1 /\ q \in 0 .. 2^n - 1
                BY <2>2, <2>4, <3>1, Zenon
            <4>2. result = alu_exec(p, q, op, word, n)
                BY DEF result
            <4> QED BY <2>9, <3>1, <3>2, <4>1, <4>2, AluExecCorrect
        <3>4. hart.x[inst.rd] = result
            <4>1. setGPR(before, inst.rd, result).x[inst.rd] = result
                BY <2>1, <2>3, <3>3, setGPRResult, Zenon DEF n
            <4> QED BY <2>6, <2>7, <2>9, <4>1 DEF t
        <3>5. Low(p, word) = p % 2^w /\ Low(q, word) = q % 2^w /\ Low(result, word) = result % 2^w
            BY <2>4, <3>1, <3>3, Zenon
        <3>6. /\ IsResult(op, Low(p, word), Low(q, word), Low(result, word), w)
              /\ result = SInt(Low(result, word), w) % 2^n
            BY <3>3, <3>5, Zenon
        <3> QED BY <2>5, <2>7, <2>9, <3>4, <3>6, Zenon DEF p, q, w, n
    <2> QED BY <2>8, <2>9
<1> QED BY <1>1, ExecInvHolds, PTL

----------------------------------------------------------------------------
(* Atomic instructions.                                                    *)

\* The decoder of funct5 reads the encoding of the architecture.
LEMMA AmoOpOfEncoding ==
    ASSUME NEW op \in DOMAIN AmoEncoding
    PROVE  AmoOp(AmoEncoding[op]) = op /\ op # "none" /\ AmoEncoding[op] \notin {2, 3}
BY DEF AmoOp, AmoEncoding

\* An atomic operation that raises no trap.
LEMMA AmoExecuted ==
    ASSUME NEW s, Typed(s), NEW i, i.opcode
           = "AMO", NEW op \in DOMAIN AmoEncoding, NEW word \in BOOLEAN,
           i.funct7 \div 4 = AmoEncoding[op], i.funct3 = (IF word THEN 2 ELSE 3),
           ExecBase(s, i).trap = NoTrap
    PROVE  LET m == IF word THEN s.n \div 2 ELSE s.n
               amo == pa_amo_op(Loaded(s.x[i.rs1], m), s.x[i.rs2], op, word, s.n)
           IN  /\ ExecBase(s, i).x = setGPR(s, i.rd, amo.dst).x
               /\ ExecBase(s, i).stored.data = amo.to_write
<1> DEFINE m == IF word THEN s.n \div 2 ELSE s.n
           addr == s.x[i.rs1]
           size == 2^i.funct3
           amo == pa_amo_op(Loaded(addr, m), s.x[i.rs2], op, word, s.n)
           t == setGPR(s, i.rd, amo.dst)
<1>1. ExecBase(s, i) = ExecAmo(s, i)
    BY DEF ExecBase
<1>2. size = (IF word THEN 4 ELSE 8) /\ (word <=> size = 4)
    <2>1. 2^2 = 4 /\ 2^3 = 8
        OBVIOUS
    <2> QED BY <2>1
<1>3. Bits(s, size) = m
    <2>1. s.n \in Nat /\ s.n % 2 = 0
        BY DEF Typed, TypedHart
    <2>2. (4 * s.n) \div 8 = s.n \div 2 /\ (8 * s.n) \div 8 = s.n
        BY <2>1
    <2> QED BY <1>2, <2>2 DEF Bits
<1>4. AmoOp(i.funct7 \div 4) = op /\ op # "none" /\ i.funct7 \div 4 \notin {2, 3}
    BY AmoOpOfEncoding
<1>5. amo = pa_amo_op(Loaded(addr, Bits(s, size)), s.x[i.rs2], AmoOp(i.funct7 \div 4), size = 4, s.n)
    <2>1. (size = 4) = word
        BY <1>2, Zenon
    <2> HIDE DEF m, size, addr
    <2> QED BY <1>3, <1>4, <2>1, Zenon
<1>6. ExecAmo(s, i) = IF addr \in Faulting THEN raiseTrap(s, "store_fault", addr)
                      ELSE [t EXCEPT !.stored = [addr |-> addr, size |-> size, data |-> amo.to_write]]
    <2>1. i.funct3 \in {2, 3}
        OBVIOUS
    <2> DEFINE a == pa_amo_op(Loaded(addr, Bits(s, size)), s.x[i.rs2], AmoOp(i.funct7 \div 4), size = 4, s.n)
    <2>2. ExecAmo(s, i) =
            IF i.funct3 \notin {2, 3} THEN Illegal(s)
            ELSE IF i.funct7 \div 4 = 2 THEN IF i.rs2 # 0 THEN Illegal(s) ELSE Call(s, "LR")
            ELSE IF i.funct7 \div 4 = 3 THEN Call(s, "SC")
            ELSE IF AmoOp(i.funct7 \div 4) = "none" THEN Illegal(s)
            ELSE IF addr \in Faulting THEN raiseTrap(s, "store_fault", addr)
            ELSE [setGPR(s, i.rd, a.dst) EXCEPT
                     !.stored = [addr |-> addr, size |-> size, data |-> a.to_write]]
        BY Zenon DEF ExecAmo
    <2>3. a = amo
        BY <1>5
    <2> HIDE DEF a, amo, addr, size
    <2> QED BY <1>4, <2>1, <2>2, <2>3 DEF t
<1>7. Precise(s, t) /\ IsHart(s)
    BY setGPRPrecise DEF Typed
<1> HIDE DEF t, amo, addr, size, m
<1>8. addr \notin Faulting
    BY <1>1, <1>6, <1>7 DEF raiseTrap, NoTrap, IsHart
<1>9. ExecBase(s, i).x = t.x /\ ExecBase(s, i).stored.data = amo.to_write
    BY <1>1, <1>6, <1>7, <1>8 DEF Precise, IsHart
<1> QED BY <1>9 DEF t, amo, addr, m

\* pa_amo_op and its decoding return what was in memory, and write what the
\* architecture computes from it (ExecAmo).
THEOREM AmoCorrect == Spec => []AmoMatchesIsa
<1>1. ExecInv => AmoMatchesIsa
    <2> SUFFICES ASSUME ExecInv, NEW op \in DOMAIN AmoEncoding, NEW word \in BOOLEAN,
                        Done, hart.trap = NoTrap, ~is_compressed(inst), inst.opcode = "AMO",
                        inst.funct7 \div 4 = AmoEncoding[op], inst.funct3 = (IF word THEN 2 ELSE 3)
                 PROVE  LET src == before.x[inst.rs2]
                            memory == Loaded(before.x[inst.rs1], Width(word))
                            extended == src = SInt(Low(src, word), Width(word)) % 2^hart.n
                        IN  /\ inst.rd # 0 => hart.x[inst.rd] = SInt(memory, Width(word)) % 2^hart.n
                            /\ op \notin {"MIN", "MAX", "MINU", "MAXU"} \/ extended
                                  => IsAmo(op, memory, Low(src, word), hart.stored.data, Width(word))
        BY Zenon DEF AmoMatchesIsa
    <2> DEFINE n == before.n
               w == Width(word)
               src == before.x[inst.rs2]
               memory == Loaded(before.x[inst.rs1], w)
               amo == pa_amo_op(memory, src, op, word, n)
               t == Execute(before, inst)
    <2>1. Typed(before) /\ TypedInst(inst)
        BY InvTyped
    <2>2. n \in Nat \ {0} /\ n % 2 = 0 /\ n >= 6 /\ before.x \in [0 .. 31 -> 0 .. 2^n - 1]
        BY <2>1 DEF Typed, TypedHart
    <2>3. inst.rd \in 0 .. 31 /\ inst.rs1 \in 0 .. 31 /\ inst.rs2 \in 0 .. 31
        BY <2>1 DEF TypedInst
    <2>4. hart.n = n /\ hart.x = t.x /\ hart.trap = t.trap /\ hart.stored = t.stored
        BY DoneExecuted
    <2>5. t = ExecBase(before, inst)
        BY DEF Execute
    <2>6. /\ w \in 1 .. n /\ w = (IF word THEN n \div 2 ELSE n)
          /\ \A v \in 0 .. 2^n - 1 : Low(v, word) = v % 2^w
        BY <2>2, <2>4, LowMod
    <2> HIDE DEF t
    <2>7. t.x = setGPR(before, inst.rd, amo.dst).x /\ t.stored.data = amo.to_write
        BY <2>1, <2>4, <2>5, <2>6, AmoExecuted
    <2>8. src \in 0 .. 2^n - 1
        BY <2>2, <2>3
    <2>9. memory \in 0 .. 2^w - 1
        BY <2>1, <2>3, <2>6 DEF Typed, TypedHart
    <2> HIDE DEF w, src, memory, n
    <2>10. /\ amo.dst = SInt(memory, w) % 2^n
           /\ op \notin {"MIN", "MAX", "MINU", "MAXU"} \/ src = SInt(src % 2^w, w) % 2^n
                => IsAmo(op, memory, src % 2^w, amo.to_write, w)
        <3>1. n \in Nat \ {0} /\ w \in 1 .. n /\ w = IF word THEN n \div 2 ELSE n
            BY <2>2, <2>6, Zenon
        <3> QED BY <3>1, <2>8, <2>9, AmoExecCorrect, SMT
    <2> HIDE DEF amo
    <2>11. inst.rd # 0 => hart.x[inst.rd] = amo.dst
        <3>1. amo.dst \in 0 .. 2^n - 1
            <4>1. w \in Nat \ {0}
                BY <2>2, <2>6
            <4>2. SInt(memory, w) \in Int
                BY <4>1, <2>9, SIntIsSigned, SignedRange, Halves
            <4>3. 2^n \in Nat \ {0}
                BY <2>2, Halves
            <4> QED BY <2>10, <4>2, <4>3, DivMod
        <3>2. inst.rd # 0 => inst.rd \in 1 .. 31
            BY <2>3
        <3>3. inst.rd # 0 => setGPR(before, inst.rd, amo.dst).x[inst.rd] = amo.dst
            BY <2>1, <3>1, <3>2, setGPRResult, Zenon DEF n
        <3> QED BY <2>4, <2>7, <3>3
    <2>12. Low(src, word) = src % 2^w
        BY <2>6, <2>8, Zenon
    <2> QED BY <2>4, <2>7, <2>10, <2>11, <2>12, Zenon DEF w, src, memory, n
<1> QED BY <1>1, ExecInvHolds, PTL

----------------------------------------------------------------------------
(* Compressed instructions: fields of bits.                                *)

\* The fields of an instruction, bit by bit.
LEMMA Fields ==
    ASSUME NEW v \in Int
    PROVE  /\ (v \div 2048) % 4 = Bit(v, 11) + 2 * Bit(v, 12)
           /\ (v \div 128) % 16 = Bit(v, 7) + 2 * Bit(v, 8) + 4 * Bit(v, 9) + 8 * Bit(v, 10)
           /\ (v \div 1024) % 8 = Bit(v, 10) + 2 * Bit(v, 11) + 4 * Bit(v, 12)
           /\ (v \div 32) % 4 = Bit(v, 5) + 2 * Bit(v, 6)
           /\ (v \div 8) % 4 = Bit(v, 3) + 2 * Bit(v, 4)
           /\ (v \div 4) % 32 = Bit(v, 2) + 2 * Bit(v, 3) + 4 * Bit(v, 4) + 8 * Bit(v, 5)
              + 16 * Bit(v, 6)
           /\ (v \div 512) % 4 = Bit(v, 9) + 2 * Bit(v, 10)
           /\ (v \div 8) % 8 = Bit(v, 3) + 2 * Bit(v, 4) + 4 * Bit(v, 5)
           /\ (v \div 1024) % 4 = Bit(v, 10) + 2 * Bit(v, 11)
           /\ (v \div 16) % 8 = Bit(v, 4) + 2 * Bit(v, 5) + 4 * Bit(v, 6)
           /\ (v \div 4) % 4 = Bit(v, 2) + 2 * Bit(v, 3)
           /\ (v \div 4) % 8 = Bit(v, 2) + 2 * Bit(v, 3) + 4 * Bit(v, 4)
           /\ (v \div 512) % 16 = Bit(v, 9) + 2 * Bit(v, 10) + 4 * Bit(v, 11) + 8 * Bit(v, 12)
           /\ (v \div 128) % 4 = Bit(v, 7) + 2 * Bit(v, 8)
           /\ (v \div 128) % 8 = Bit(v, 7) + 2 * Bit(v, 8) + 4 * Bit(v, 9)
<1>1. (v \div 2048) % 4 = Bit(v, 11) + 2 * Bit(v, 12)
    BY DEF Bit
<1>2. (v \div 128) % 16 = Bit(v, 7) + 2 * Bit(v, 8) + 4 * Bit(v, 9) + 8 * Bit(v, 10)
    <2> DEFINE y == (v \div 128) % 16
               lo == (v \div 128) % 4
               hi == (v \div 512) % 4
    <2>1. lo = Bit(v, 7) + 2 * Bit(v, 8) /\ hi = Bit(v, 9) + 2 * Bit(v, 10)
        BY DEF Bit
    <2>2. y = lo + 4 * hi
        OBVIOUS
    <2>3. Bit(v, 7) \in Int /\ Bit(v, 8) \in Int /\ Bit(v, 9) \in Int /\ Bit(v, 10) \in Int
        BY BitIsBit
    <2> HIDE DEF y, lo, hi
    <2>4. y = Bit(v, 7) + 2 * Bit(v, 8) + 4 * Bit(v, 9) + 8 * Bit(v, 10)
        BY <2>1, <2>2, <2>3
    <2> QED BY <2>4 DEF y
<1>3. (v \div 1024) % 8 = Bit(v, 10) + 2 * Bit(v, 11) + 4 * Bit(v, 12)
    BY DEF Bit
<1>4. (v \div 32) % 4 = Bit(v, 5) + 2 * Bit(v, 6)
    BY DEF Bit
<1>5. (v \div 8) % 4 = Bit(v, 3) + 2 * Bit(v, 4)
    BY DEF Bit
<1>6. (v \div 4) % 32 = Bit(v, 2) + 2 * Bit(v, 3) + 4 * Bit(v, 4) + 8 * Bit(v, 5) + 16 * Bit(v, 6)
    <2> DEFINE y == (v \div 4) % 32
               lo == (v \div 4) % 4
               hi == (v \div 16) % 8
    <2>1. lo = Bit(v, 2) + 2 * Bit(v, 3) /\ hi = Bit(v, 4) + 2 * Bit(v, 5) + 4 * Bit(v, 6)
        BY DEF Bit
    <2>2. y = lo + 4 * hi
        OBVIOUS
    <2>3. Bit(v, 2) \in Int /\ Bit(v, 3) \in Int /\ Bit(v, 4) \in Int /\ Bit(v, 5) \in Int
          /\ Bit(v, 6) \in Int
        BY BitIsBit
    <2> HIDE DEF y, lo, hi
    <2>4. y = Bit(v, 2) + 2 * Bit(v, 3) + 4 * Bit(v, 4) + 8 * Bit(v, 5) + 16 * Bit(v, 6)
        BY <2>1, <2>2, <2>3
    <2> QED BY <2>4 DEF y
<1>7. (v \div 512) % 4 = Bit(v, 9) + 2 * Bit(v, 10)
    BY DEF Bit
<1>8. (v \div 8) % 8 = Bit(v, 3) + 2 * Bit(v, 4) + 4 * Bit(v, 5)
    BY DEF Bit
<1>9. (v \div 1024) % 4 = Bit(v, 10) + 2 * Bit(v, 11)
    BY DEF Bit
<1>10. (v \div 16) % 8 = Bit(v, 4) + 2 * Bit(v, 5) + 4 * Bit(v, 6)
    BY DEF Bit
<1>11. (v \div 4) % 4 = Bit(v, 2) + 2 * Bit(v, 3)
    BY DEF Bit
<1>12. (v \div 4) % 8 = Bit(v, 2) + 2 * Bit(v, 3) + 4 * Bit(v, 4)
    BY DEF Bit
<1>13. (v \div 512) % 16 = Bit(v, 9) + 2 * Bit(v, 10) + 4 * Bit(v, 11) + 8 * Bit(v, 12)
    <2> DEFINE y == (v \div 512) % 16
               lo == (v \div 512) % 4
               hi == (v \div 2048) % 4
    <2>1. lo = Bit(v, 9) + 2 * Bit(v, 10) /\ hi = Bit(v, 11) + 2 * Bit(v, 12)
        BY DEF Bit
    <2>2. y = lo + 4 * hi
        OBVIOUS
    <2>3. Bit(v, 9) \in Int /\ Bit(v, 10) \in Int /\ Bit(v, 11) \in Int /\ Bit(v, 12) \in Int
        BY BitIsBit
    <2> HIDE DEF y, lo, hi
    <2>4. y = Bit(v, 9) + 2 * Bit(v, 10) + 4 * Bit(v, 11) + 8 * Bit(v, 12)
        BY <2>1, <2>2, <2>3
    <2> QED BY <2>4 DEF y
<1>14. (v \div 128) % 4 = Bit(v, 7) + 2 * Bit(v, 8)
    BY DEF Bit
<1>15. (v \div 128) % 8 = Bit(v, 7) + 2 * Bit(v, 8) + 4 * Bit(v, 9)
    BY DEF Bit
<1> QED BY <1>1, <1>2, <1>3, <1>4, <1>5, <1>6, <1>7, <1>8, <1>9, <1>10, <1>11, <1>12, <1>13, <1>14,
           <1>15

----------------------------------------------------------------------------
(* Compressed instructions: scattered bits, place by place.                *)

PowerOf(p) == 2^p

\* Sums of the lengths the immediates have.
LEMMA Sums ==
    ASSUME NEW f
    PROVE  /\ SumOf(f, 1) = 0 + f[1]
           /\ SumOf(f, 2) = 0 + f[1] + f[2]
           /\ SumOf(f, 3) = 0 + f[1] + f[2] + f[3]
           /\ SumOf(f, 5) = 0 + f[1] + f[2] + f[3] + f[4] + f[5]
           /\ SumOf(f, 6) = 0 + f[1] + f[2] + f[3] + f[4] + f[5] + f[6]
           /\ SumOf(f, 8) = 0 + f[1] + f[2] + f[3] + f[4] + f[5] + f[6] + f[7] + f[8]
           /\ SumOf(f, 11) = 0 + f[1] + f[2] + f[3] + f[4] + f[5] + f[6] + f[7] + f[8] + f[9]
              + f[10] + f[11]
<1>1. SumOf(f, 1) = 0 + f[1]
    <2>1. 0 + 1 = 1 /\ SumOf(f, 0 + 1) = SumOf(f, 0) + f[0 + 1] /\ SumOf(f, 0) = 0
        BY SumUnfold
    <2> QED BY <2>1
<1>2. SumOf(f, 2) = 0 + f[1] + f[2]
    <2>1. 1 + 1 = 2 /\ 1 \in Nat
        OBVIOUS
    <2>2. SumOf(f, 1 + 1) = SumOf(f, 1) + f[1 + 1]
        BY <2>1, SumUnfold, Zenon
    <2> QED BY <1>1, <2>1, <2>2, Zenon
<1>3. SumOf(f, 3) = 0 + f[1] + f[2] + f[3]
    <2>1. 2 + 1 = 3 /\ 2 \in Nat
        OBVIOUS
    <2>2. SumOf(f, 2 + 1) = SumOf(f, 2) + f[2 + 1]
        BY <2>1, SumUnfold, Zenon
    <2> QED BY <1>2, <2>1, <2>2, Zenon
<1>4. SumOf(f, 4) = 0 + f[1] + f[2] + f[3] + f[4]
    <2>1. 3 + 1 = 4 /\ 3 \in Nat
        OBVIOUS
    <2>2. SumOf(f, 3 + 1) = SumOf(f, 3) + f[3 + 1]
        BY <2>1, SumUnfold, Zenon
    <2> QED BY <1>3, <2>1, <2>2, Zenon
<1>5. SumOf(f, 5) = 0 + f[1] + f[2] + f[3] + f[4] + f[5]
    <2>1. 4 + 1 = 5 /\ 4 \in Nat
        OBVIOUS
    <2>2. SumOf(f, 4 + 1) = SumOf(f, 4) + f[4 + 1]
        BY <2>1, SumUnfold, Zenon
    <2> QED BY <1>4, <2>1, <2>2, Zenon
<1>6. SumOf(f, 6) = 0 + f[1] + f[2] + f[3] + f[4] + f[5] + f[6]
    <2>1. 5 + 1 = 6 /\ 5 \in Nat
        OBVIOUS
    <2>2. SumOf(f, 5 + 1) = SumOf(f, 5) + f[5 + 1]
        BY <2>1, SumUnfold, Zenon
    <2> QED BY <1>5, <2>1, <2>2, Zenon
<1>7. SumOf(f, 7) = 0 + f[1] + f[2] + f[3] + f[4] + f[5] + f[6] + f[7]
    <2>1. 6 + 1 = 7 /\ 6 \in Nat
        OBVIOUS
    <2>2. SumOf(f, 6 + 1) = SumOf(f, 6) + f[6 + 1]
        BY <2>1, SumUnfold, Zenon
    <2> QED BY <1>6, <2>1, <2>2, Zenon
<1>8. SumOf(f, 8) = 0 + f[1] + f[2] + f[3] + f[4] + f[5] + f[6] + f[7] + f[8]
    <2>1. 7 + 1 = 8 /\ 7 \in Nat
        OBVIOUS
    <2>2. SumOf(f, 7 + 1) = SumOf(f, 7) + f[7 + 1]
        BY <2>1, SumUnfold, Zenon
    <2> QED BY <1>7, <2>1, <2>2, Zenon
<1>9. SumOf(f, 9) = 0 + f[1] + f[2] + f[3] + f[4] + f[5] + f[6] + f[7] + f[8] + f[9]
    <2>1. 8 + 1 = 9 /\ 8 \in Nat
        OBVIOUS
    <2>2. SumOf(f, 8 + 1) = SumOf(f, 8) + f[8 + 1]
        BY <2>1, SumUnfold, Zenon
    <2> QED BY <1>8, <2>1, <2>2, Zenon
<1>10. SumOf(f, 10) = 0 + f[1] + f[2] + f[3] + f[4] + f[5] + f[6] + f[7] + f[8] + f[9] + f[10]
    <2>1. 9 + 1 = 10 /\ 9 \in Nat
        OBVIOUS
    <2>2. SumOf(f, 9 + 1) = SumOf(f, 9) + f[9 + 1]
        BY <2>1, SumUnfold, Zenon
    <2> QED BY <1>9, <2>1, <2>2, Zenon
<1>11. SumOf(f, 11) = 0 + f[1] + f[2] + f[3] + f[4] + f[5] + f[6] + f[7] + f[8] + f[9] + f[10]
       + f[11]
    <2>1. 10 + 1 = 11 /\ 10 \in Nat
        OBVIOUS
    <2>2. SumOf(f, 10 + 1) = SumOf(f, 10) + f[10 + 1]
        BY <2>1, SumUnfold, Zenon
    <2> QED BY <1>10, <2>1, <2>2, Zenon
<1> QED BY <1>1, <1>2, <1>3, <1>5, <1>6, <1>8, <1>11, Zenon

\* One to eleven bits, scattered.
LEMMA Scatter1 ==
    ASSUME NEW v, NEW hi \in Int, NEW p1
    PROVE  Scatter(v, hi, <<p1>>) = 0 + Bit(v, hi - 1 + 1) * PowerOf(p1)
<1> DEFINE places == <<p1>>
           f == [k \in DOMAIN places |-> Bit(v, hi - k + 1) * 2^places[k]]
<1>1. f[1] = Bit(v, hi - 1 + 1) * PowerOf(p1)
    BY DEF PowerOf
<1>2. Scatter(v, hi, places) = SumOf(f, 1)
    BY DEF Scatter
<1> HIDE DEF f
<1> QED BY <1>1, <1>2, Sums, Zenon

LEMMA Scatter2 ==
    ASSUME NEW v, NEW hi \in Int, NEW p1, NEW p2
    PROVE  Scatter(v, hi, <<p1, p2>>) = 0 + Bit(v, hi - 1 + 1) * PowerOf(p1)
           + Bit(v, hi - 2 + 1) * PowerOf(p2)
<1> DEFINE places == <<p1, p2>>
           f == [k \in DOMAIN places |-> Bit(v, hi - k + 1) * 2^places[k]]
<1>1. f[1] = Bit(v, hi - 1 + 1) * PowerOf(p1) /\ f[2] = Bit(v, hi - 2 + 1) * PowerOf(p2)
    BY DEF PowerOf
<1>2. Scatter(v, hi, places) = SumOf(f, 2)
    BY DEF Scatter
<1> HIDE DEF f
<1> QED BY <1>1, <1>2, Sums, Zenon

LEMMA Scatter3 ==
    ASSUME NEW v, NEW hi \in Int, NEW p1, NEW p2, NEW p3
    PROVE  Scatter(v, hi, <<p1, p2, p3>>) = 0 + Bit(v, hi - 1 + 1) * PowerOf(p1)
           + Bit(v, hi - 2 + 1) * PowerOf(p2) + Bit(v, hi - 3 + 1) * PowerOf(p3)
<1> DEFINE places == <<p1, p2, p3>>
           f == [k \in DOMAIN places |-> Bit(v, hi - k + 1) * 2^places[k]]
<1>1. f[1] = Bit(v, hi - 1 + 1) * PowerOf(p1) /\ f[2] = Bit(v, hi - 2 + 1) * PowerOf(p2)
      /\ f[3] = Bit(v, hi - 3 + 1) * PowerOf(p3)
    BY DEF PowerOf
<1>2. Scatter(v, hi, places) = SumOf(f, 3)
    BY DEF Scatter
<1> HIDE DEF f
<1> QED BY <1>1, <1>2, Sums, Zenon

LEMMA Scatter5 ==
    ASSUME NEW v, NEW hi \in Int, NEW p1, NEW p2, NEW p3, NEW p4, NEW p5
    PROVE  Scatter(v, hi, <<p1, p2, p3, p4, p5>>) = 0 + Bit(v, hi - 1 + 1) * PowerOf(p1)
           + Bit(v, hi - 2 + 1) * PowerOf(p2) + Bit(v, hi - 3 + 1) * PowerOf(p3)
           + Bit(v, hi - 4 + 1) * PowerOf(p4) + Bit(v, hi - 5 + 1) * PowerOf(p5)
<1> DEFINE places == <<p1, p2, p3, p4, p5>>
           f == [k \in DOMAIN places |-> Bit(v, hi - k + 1) * 2^places[k]]
<1>1. f[1] = Bit(v, hi - 1 + 1) * PowerOf(p1) /\ f[2] = Bit(v, hi - 2 + 1) * PowerOf(p2)
      /\ f[3] = Bit(v, hi - 3 + 1) * PowerOf(p3) /\ f[4] = Bit(v, hi - 4 + 1) * PowerOf(p4)
      /\ f[5] = Bit(v, hi - 5 + 1) * PowerOf(p5)
    BY DEF PowerOf
<1>2. Scatter(v, hi, places) = SumOf(f, 5)
    BY DEF Scatter
<1> HIDE DEF f
<1> QED BY <1>1, <1>2, Sums, Zenon

LEMMA Scatter6 ==
    ASSUME NEW v, NEW hi \in Int, NEW p1, NEW p2, NEW p3, NEW p4, NEW p5, NEW p6
    PROVE  Scatter(v, hi, <<p1, p2, p3, p4, p5, p6>>) = 0 + Bit(v, hi - 1 + 1) * PowerOf(p1)
           + Bit(v, hi - 2 + 1) * PowerOf(p2) + Bit(v, hi - 3 + 1) * PowerOf(p3)
           + Bit(v, hi - 4 + 1) * PowerOf(p4) + Bit(v, hi - 5 + 1) * PowerOf(p5)
           + Bit(v, hi - 6 + 1) * PowerOf(p6)
<1> DEFINE places == <<p1, p2, p3, p4, p5, p6>>
           f == [k \in DOMAIN places |-> Bit(v, hi - k + 1) * 2^places[k]]
<1>1. f[1] = Bit(v, hi - 1 + 1) * PowerOf(p1) /\ f[2] = Bit(v, hi - 2 + 1) * PowerOf(p2)
      /\ f[3] = Bit(v, hi - 3 + 1) * PowerOf(p3) /\ f[4] = Bit(v, hi - 4 + 1) * PowerOf(p4)
      /\ f[5] = Bit(v, hi - 5 + 1) * PowerOf(p5) /\ f[6] = Bit(v, hi - 6 + 1) * PowerOf(p6)
    BY DEF PowerOf
<1>2. Scatter(v, hi, places) = SumOf(f, 6)
    BY DEF Scatter
<1> HIDE DEF f
<1> QED BY <1>1, <1>2, Sums, Zenon

LEMMA Scatter8 ==
    ASSUME NEW v, NEW hi \in Int, NEW p1, NEW p2, NEW p3, NEW p4, NEW p5, NEW p6, NEW p7, NEW p8
    PROVE  Scatter(v, hi, <<p1, p2, p3, p4, p5, p6, p7, p8>>) = 0
           + Bit(v, hi - 1 + 1) * PowerOf(p1) + Bit(v, hi - 2 + 1) * PowerOf(p2)
           + Bit(v, hi - 3 + 1) * PowerOf(p3) + Bit(v, hi - 4 + 1) * PowerOf(p4)
           + Bit(v, hi - 5 + 1) * PowerOf(p5) + Bit(v, hi - 6 + 1) * PowerOf(p6)
           + Bit(v, hi - 7 + 1) * PowerOf(p7) + Bit(v, hi - 8 + 1) * PowerOf(p8)
<1> DEFINE places == <<p1, p2, p3, p4, p5, p6, p7, p8>>
           f == [k \in DOMAIN places |-> Bit(v, hi - k + 1) * 2^places[k]]
<1>1. f[1] = Bit(v, hi - 1 + 1) * PowerOf(p1) /\ f[2] = Bit(v, hi - 2 + 1) * PowerOf(p2)
      /\ f[3] = Bit(v, hi - 3 + 1) * PowerOf(p3) /\ f[4] = Bit(v, hi - 4 + 1) * PowerOf(p4)
      /\ f[5] = Bit(v, hi - 5 + 1) * PowerOf(p5) /\ f[6] = Bit(v, hi - 6 + 1) * PowerOf(p6)
      /\ f[7] = Bit(v, hi - 7 + 1) * PowerOf(p7) /\ f[8] = Bit(v, hi - 8 + 1) * PowerOf(p8)
    BY DEF PowerOf
<1>2. Scatter(v, hi, places) = SumOf(f, 8)
    BY DEF Scatter
<1> HIDE DEF f
<1> QED BY <1>1, <1>2, Sums, Zenon

LEMMA Scatter11 ==
    ASSUME NEW v, NEW hi \in Int, NEW p1, NEW p2, NEW p3, NEW p4, NEW p5, NEW p6, NEW p7, NEW p8,
           NEW p9, NEW p10, NEW p11
    PROVE  Scatter(v, hi, <<p1, p2, p3, p4, p5, p6, p7, p8, p9, p10, p11>>) = 0
           + Bit(v, hi - 1 + 1) * PowerOf(p1) + Bit(v, hi - 2 + 1) * PowerOf(p2)
           + Bit(v, hi - 3 + 1) * PowerOf(p3) + Bit(v, hi - 4 + 1) * PowerOf(p4)
           + Bit(v, hi - 5 + 1) * PowerOf(p5) + Bit(v, hi - 6 + 1) * PowerOf(p6)
           + Bit(v, hi - 7 + 1) * PowerOf(p7) + Bit(v, hi - 8 + 1) * PowerOf(p8)
           + Bit(v, hi - 9 + 1) * PowerOf(p9) + Bit(v, hi - 10 + 1) * PowerOf(p10)
           + Bit(v, hi - 11 + 1) * PowerOf(p11)
<1> DEFINE places == <<p1, p2, p3, p4, p5, p6, p7, p8, p9, p10, p11>>
           f == [k \in DOMAIN places |-> Bit(v, hi - k + 1) * 2^places[k]]
<1>1. f[1] = Bit(v, hi - 1 + 1) * PowerOf(p1) /\ f[2] = Bit(v, hi - 2 + 1) * PowerOf(p2)
      /\ f[3] = Bit(v, hi - 3 + 1) * PowerOf(p3) /\ f[4] = Bit(v, hi - 4 + 1) * PowerOf(p4)
      /\ f[5] = Bit(v, hi - 5 + 1) * PowerOf(p5) /\ f[6] = Bit(v, hi - 6 + 1) * PowerOf(p6)
      /\ f[7] = Bit(v, hi - 7 + 1) * PowerOf(p7) /\ f[8] = Bit(v, hi - 8 + 1) * PowerOf(p8)
      /\ f[9] = Bit(v, hi - 9 + 1) * PowerOf(p9) /\ f[10] = Bit(v, hi - 10 + 1) * PowerOf(p10)
      /\ f[11] = Bit(v, hi - 11 + 1) * PowerOf(p11)
    BY DEF PowerOf
<1>2. Scatter(v, hi, places) = SumOf(f, 11)
    BY DEF Scatter
<1> HIDE DEF f
<1> QED BY <1>1, <1>2, Sums, Zenon

\* Scattered immediates, bit by bit.
LEMMA Places12_5 ==
    ASSUME NEW v \in Int
    PROVE  Scatter(v, 12, <<5>>) = 32 * Bit(v, 12)
<1>1. Scatter(v, 12, <<5>>) = 0 + Bit(v, 12 - 1 + 1) * PowerOf(5)
    BY Scatter1
<1>2. Bit(v, 12) \in Int
    BY BitIsBit
<1> QED BY <1>1, <1>2 DEF PowerOf

LEMMA Places12_9 ==
    ASSUME NEW v \in Int
    PROVE  Scatter(v, 12, <<9>>) = 512 * Bit(v, 12)
<1>1. Scatter(v, 12, <<9>>) = 0 + Bit(v, 12 - 1 + 1) * PowerOf(9)
    BY Scatter1
<1>2. Bit(v, 12) \in Int
    BY BitIsBit
<1> QED BY <1>1, <1>2 DEF PowerOf

LEMMA Places12_17 ==
    ASSUME NEW v \in Int
    PROVE  Scatter(v, 12, <<17>>) = 131072 * Bit(v, 12)
<1>1. Scatter(v, 12, <<17>>) = 0 + Bit(v, 12 - 1 + 1) * PowerOf(17)
    BY Scatter1
<1>2. Bit(v, 12) \in Int
    BY BitIsBit
<1> QED BY <1>1, <1>2 DEF PowerOf

LEMMA Places6_2_6 ==
    ASSUME NEW v \in Int
    PROVE  Scatter(v, 6, <<2, 6>>) = 4 * Bit(v, 6) + 64 * Bit(v, 5)
<1>1. Scatter(v, 6, <<2, 6>>) = 0 + Bit(v, 6 - 1 + 1) * PowerOf(2) + Bit(v, 6 - 2 + 1) * PowerOf(6)
    BY Scatter2
<1>2. Bit(v, 6) \in Int /\ Bit(v, 5) \in Int
    BY BitIsBit
<1> QED BY <1>1, <1>2 DEF PowerOf

LEMMA Places6_7_6 ==
    ASSUME NEW v \in Int
    PROVE  Scatter(v, 6, <<7, 6>>) = 128 * Bit(v, 6) + 64 * Bit(v, 5)
<1>1. Scatter(v, 6, <<7, 6>>) = 0 + Bit(v, 6 - 1 + 1) * PowerOf(7) + Bit(v, 6 - 2 + 1) * PowerOf(6)
    BY Scatter2
<1>2. Bit(v, 6) \in Int /\ Bit(v, 5) \in Int
    BY BitIsBit
<1> QED BY <1>1, <1>2 DEF PowerOf

LEMMA Places12_5_4_3 ==
    ASSUME NEW v \in Int
    PROVE  Scatter(v, 12, <<5, 4, 3>>) = 32 * Bit(v, 12) + 16 * Bit(v, 11) + 8 * Bit(v, 10)
<1>1. Scatter(v, 12, <<5, 4, 3>>) = 0 + Bit(v, 12 - 1 + 1) * PowerOf(5)
      + Bit(v, 12 - 2 + 1) * PowerOf(4) + Bit(v, 12 - 3 + 1) * PowerOf(3)
    BY Scatter3
<1>2. Bit(v, 12) \in Int /\ Bit(v, 11) \in Int /\ Bit(v, 10) \in Int
    BY BitIsBit
<1> QED BY <1>1, <1>2 DEF PowerOf

LEMMA Places12_8_4_3 ==
    ASSUME NEW v \in Int
    PROVE  Scatter(v, 12, <<8, 4, 3>>) = 256 * Bit(v, 12) + 16 * Bit(v, 11) + 8 * Bit(v, 10)
<1>1. Scatter(v, 12, <<8, 4, 3>>) = 0 + Bit(v, 12 - 1 + 1) * PowerOf(8)
      + Bit(v, 12 - 2 + 1) * PowerOf(4) + Bit(v, 12 - 3 + 1) * PowerOf(3)
    BY Scatter3
<1>2. Bit(v, 12) \in Int /\ Bit(v, 11) \in Int /\ Bit(v, 10) \in Int
    BY BitIsBit
<1> QED BY <1>1, <1>2 DEF PowerOf

LEMMA Places6_4_3_2_1_0 ==
    ASSUME NEW v \in Int
    PROVE  Scatter(v, 6, <<4, 3, 2, 1, 0>>) = 16 * Bit(v, 6) + 8 * Bit(v, 5) + 4 * Bit(v, 4)
           + 2 * Bit(v, 3) + Bit(v, 2)
<1>1. Scatter(v, 6, <<4, 3, 2, 1, 0>>) = 0 + Bit(v, 6 - 1 + 1) * PowerOf(4)
      + Bit(v, 6 - 2 + 1) * PowerOf(3) + Bit(v, 6 - 3 + 1) * PowerOf(2)
      + Bit(v, 6 - 4 + 1) * PowerOf(1) + Bit(v, 6 - 5 + 1) * PowerOf(0)
    BY Scatter5
<1>2. Bit(v, 6) \in Int /\ Bit(v, 5) \in Int /\ Bit(v, 4) \in Int /\ Bit(v, 3) \in Int
      /\ Bit(v, 2) \in Int
    BY BitIsBit
<1> QED BY <1>1, <1>2 DEF PowerOf

LEMMA Places6_4_6_8_7_5 ==
    ASSUME NEW v \in Int
    PROVE  Scatter(v, 6, <<4, 6, 8, 7, 5>>) = 16 * Bit(v, 6) + 64 * Bit(v, 5) + 256 * Bit(v, 4)
           + 128 * Bit(v, 3) + 32 * Bit(v, 2)
<1>1. Scatter(v, 6, <<4, 6, 8, 7, 5>>) = 0 + Bit(v, 6 - 1 + 1) * PowerOf(4)
      + Bit(v, 6 - 2 + 1) * PowerOf(6) + Bit(v, 6 - 3 + 1) * PowerOf(8)
      + Bit(v, 6 - 4 + 1) * PowerOf(7) + Bit(v, 6 - 5 + 1) * PowerOf(5)
    BY Scatter5
<1>2. Bit(v, 6) \in Int /\ Bit(v, 5) \in Int /\ Bit(v, 4) \in Int /\ Bit(v, 3) \in Int
      /\ Bit(v, 2) \in Int
    BY BitIsBit
<1> QED BY <1>1, <1>2 DEF PowerOf

LEMMA Places6_16_15_14_13_12 ==
    ASSUME NEW v \in Int
    PROVE  Scatter(v, 6, <<16, 15, 14, 13, 12>>) = 65536 * Bit(v, 6) + 32768 * Bit(v, 5)
           + 16384 * Bit(v, 4) + 8192 * Bit(v, 3) + 4096 * Bit(v, 2)
<1>1. Scatter(v, 6, <<16, 15, 14, 13, 12>>) = 0 + Bit(v, 6 - 1 + 1) * PowerOf(16)
      + Bit(v, 6 - 2 + 1) * PowerOf(15) + Bit(v, 6 - 3 + 1) * PowerOf(14)
      + Bit(v, 6 - 4 + 1) * PowerOf(13) + Bit(v, 6 - 5 + 1) * PowerOf(12)
    BY Scatter5
<1>2. Bit(v, 6) \in Int /\ Bit(v, 5) \in Int /\ Bit(v, 4) \in Int /\ Bit(v, 3) \in Int
      /\ Bit(v, 2) \in Int
    BY BitIsBit
<1> QED BY <1>1, <1>2 DEF PowerOf

LEMMA Places6_7_6_2_1_5 ==
    ASSUME NEW v \in Int
    PROVE  Scatter(v, 6, <<7, 6, 2, 1, 5>>) = 128 * Bit(v, 6) + 64 * Bit(v, 5) + 4 * Bit(v, 4)
           + 2 * Bit(v, 3) + 32 * Bit(v, 2)
<1>1. Scatter(v, 6, <<7, 6, 2, 1, 5>>) = 0 + Bit(v, 6 - 1 + 1) * PowerOf(7)
      + Bit(v, 6 - 2 + 1) * PowerOf(6) + Bit(v, 6 - 3 + 1) * PowerOf(2)
      + Bit(v, 6 - 4 + 1) * PowerOf(1) + Bit(v, 6 - 5 + 1) * PowerOf(5)
    BY Scatter5
<1>2. Bit(v, 6) \in Int /\ Bit(v, 5) \in Int /\ Bit(v, 4) \in Int /\ Bit(v, 3) \in Int
      /\ Bit(v, 2) \in Int
    BY BitIsBit
<1> QED BY <1>1, <1>2 DEF PowerOf

LEMMA Places6_4_3_2_7_6 ==
    ASSUME NEW v \in Int
    PROVE  Scatter(v, 6, <<4, 3, 2, 7, 6>>) = 16 * Bit(v, 6) + 8 * Bit(v, 5) + 4 * Bit(v, 4)
           + 128 * Bit(v, 3) + 64 * Bit(v, 2)
<1>1. Scatter(v, 6, <<4, 3, 2, 7, 6>>) = 0 + Bit(v, 6 - 1 + 1) * PowerOf(4)
      + Bit(v, 6 - 2 + 1) * PowerOf(3) + Bit(v, 6 - 3 + 1) * PowerOf(2)
      + Bit(v, 6 - 4 + 1) * PowerOf(7) + Bit(v, 6 - 5 + 1) * PowerOf(6)
    BY Scatter5
<1>2. Bit(v, 6) \in Int /\ Bit(v, 5) \in Int /\ Bit(v, 4) \in Int /\ Bit(v, 3) \in Int
      /\ Bit(v, 2) \in Int
    BY BitIsBit
<1> QED BY <1>1, <1>2 DEF PowerOf

LEMMA Places6_4_3_8_7_6 ==
    ASSUME NEW v \in Int
    PROVE  Scatter(v, 6, <<4, 3, 8, 7, 6>>) = 16 * Bit(v, 6) + 8 * Bit(v, 5) + 256 * Bit(v, 4)
           + 128 * Bit(v, 3) + 64 * Bit(v, 2)
<1>1. Scatter(v, 6, <<4, 3, 8, 7, 6>>) = 0 + Bit(v, 6 - 1 + 1) * PowerOf(4)
      + Bit(v, 6 - 2 + 1) * PowerOf(3) + Bit(v, 6 - 3 + 1) * PowerOf(8)
      + Bit(v, 6 - 4 + 1) * PowerOf(7) + Bit(v, 6 - 5 + 1) * PowerOf(6)
    BY Scatter5
<1>2. Bit(v, 6) \in Int /\ Bit(v, 5) \in Int /\ Bit(v, 4) \in Int /\ Bit(v, 3) \in Int
      /\ Bit(v, 2) \in Int
    BY BitIsBit
<1> QED BY <1>1, <1>2 DEF PowerOf

LEMMA Places12_5_4_3_2_7_6 ==
    ASSUME NEW v \in Int
    PROVE  Scatter(v, 12, <<5, 4, 3, 2, 7, 6>>) = 32 * Bit(v, 12) + 16 * Bit(v, 11)
           + 8 * Bit(v, 10) + 4 * Bit(v, 9) + 128 * Bit(v, 8) + 64 * Bit(v, 7)
<1>1. Scatter(v, 12, <<5, 4, 3, 2, 7, 6>>) = 0 + Bit(v, 12 - 1 + 1) * PowerOf(5)
      + Bit(v, 12 - 2 + 1) * PowerOf(4) + Bit(v, 12 - 3 + 1) * PowerOf(3)
      + Bit(v, 12 - 4 + 1) * PowerOf(2) + Bit(v, 12 - 5 + 1) * PowerOf(7)
      + Bit(v, 12 - 6 + 1) * PowerOf(6)
    BY Scatter6
<1>2. Bit(v, 12) \in Int /\ Bit(v, 11) \in Int /\ Bit(v, 10) \in Int /\ Bit(v, 9) \in Int
      /\ Bit(v, 8) \in Int /\ Bit(v, 7) \in Int
    BY BitIsBit
<1> QED BY <1>1, <1>2 DEF PowerOf

LEMMA Places12_5_4_3_8_7_6 ==
    ASSUME NEW v \in Int
    PROVE  Scatter(v, 12, <<5, 4, 3, 8, 7, 6>>) = 32 * Bit(v, 12) + 16 * Bit(v, 11)
           + 8 * Bit(v, 10) + 256 * Bit(v, 9) + 128 * Bit(v, 8) + 64 * Bit(v, 7)
<1>1. Scatter(v, 12, <<5, 4, 3, 8, 7, 6>>) = 0 + Bit(v, 12 - 1 + 1) * PowerOf(5)
      + Bit(v, 12 - 2 + 1) * PowerOf(4) + Bit(v, 12 - 3 + 1) * PowerOf(3)
      + Bit(v, 12 - 4 + 1) * PowerOf(8) + Bit(v, 12 - 5 + 1) * PowerOf(7)
      + Bit(v, 12 - 6 + 1) * PowerOf(6)
    BY Scatter6
<1>2. Bit(v, 12) \in Int /\ Bit(v, 11) \in Int /\ Bit(v, 10) \in Int /\ Bit(v, 9) \in Int
      /\ Bit(v, 8) \in Int /\ Bit(v, 7) \in Int
    BY BitIsBit
<1> QED BY <1>1, <1>2 DEF PowerOf

LEMMA Places12_5_4_9_8_7_6_2_3 ==
    ASSUME NEW v \in Int
    PROVE  Scatter(v, 12, <<5, 4, 9, 8, 7, 6, 2, 3>>) = 32 * Bit(v, 12) + 16 * Bit(v, 11)
           + 512 * Bit(v, 10) + 256 * Bit(v, 9) + 128 * Bit(v, 8) + 64 * Bit(v, 7) + 4 * Bit(v, 6)
           + 8 * Bit(v, 5)
<1>1. Scatter(v, 12, <<5, 4, 9, 8, 7, 6, 2, 3>>) = 0 + Bit(v, 12 - 1 + 1) * PowerOf(5)
      + Bit(v, 12 - 2 + 1) * PowerOf(4) + Bit(v, 12 - 3 + 1) * PowerOf(9)
      + Bit(v, 12 - 4 + 1) * PowerOf(8) + Bit(v, 12 - 5 + 1) * PowerOf(7)
      + Bit(v, 12 - 6 + 1) * PowerOf(6) + Bit(v, 12 - 7 + 1) * PowerOf(2)
      + Bit(v, 12 - 8 + 1) * PowerOf(3)
    BY Scatter8
<1>2. Bit(v, 12) \in Int /\ Bit(v, 11) \in Int /\ Bit(v, 10) \in Int /\ Bit(v, 9) \in Int
      /\ Bit(v, 8) \in Int /\ Bit(v, 7) \in Int /\ Bit(v, 6) \in Int /\ Bit(v, 5) \in Int
    BY BitIsBit
<1> QED BY <1>1, <1>2 DEF PowerOf

LEMMA Places12_11_4_9_8_10_6_7_3_2_1_5 ==
    ASSUME NEW v \in Int
    PROVE  Scatter(v, 12, <<11, 4, 9, 8, 10, 6, 7, 3, 2, 1, 5>>) = 2048 * Bit(v, 12)
           + 16 * Bit(v, 11) + 512 * Bit(v, 10) + 256 * Bit(v, 9) + 1024 * Bit(v, 8)
           + 64 * Bit(v, 7) + 128 * Bit(v, 6) + 8 * Bit(v, 5) + 4 * Bit(v, 4) + 2 * Bit(v, 3)
           + 32 * Bit(v, 2)
<1>1. Scatter(v, 12, <<11, 4, 9, 8, 10, 6, 7, 3, 2, 1, 5>>) = 0 + Bit(v, 12 - 1 + 1) * PowerOf(11)
      + Bit(v, 12 - 2 + 1) * PowerOf(4) + Bit(v, 12 - 3 + 1) * PowerOf(9)
      + Bit(v, 12 - 4 + 1) * PowerOf(8) + Bit(v, 12 - 5 + 1) * PowerOf(10)
      + Bit(v, 12 - 6 + 1) * PowerOf(6) + Bit(v, 12 - 7 + 1) * PowerOf(7)
      + Bit(v, 12 - 8 + 1) * PowerOf(3) + Bit(v, 12 - 9 + 1) * PowerOf(2)
      + Bit(v, 12 - 10 + 1) * PowerOf(1) + Bit(v, 12 - 11 + 1) * PowerOf(5)
    BY Scatter11
<1>2. Bit(v, 12) \in Int /\ Bit(v, 11) \in Int /\ Bit(v, 10) \in Int /\ Bit(v, 9) \in Int
      /\ Bit(v, 8) \in Int /\ Bit(v, 7) \in Int /\ Bit(v, 6) \in Int /\ Bit(v, 5) \in Int
      /\ Bit(v, 4) \in Int /\ Bit(v, 3) \in Int /\ Bit(v, 2) \in Int
    BY BitIsBit
<1> QED BY <1>1, <1>2 DEF PowerOf

----------------------------------------------------------------------------
(* Compressed instructions: the immediates of the two decoders.            *)

\* Powers of two that are too large to evaluate.
LEMMA Powers ==
    2^17 = 2^9 * 2^8 /\ 2^18 = 2 * 2^17 /\ 2^19 = 2 * 2^18 /\ 2^20 = 2 * 2^19 /\ 2^21 = 2 * 2^20
<1>1. /\ 8 \in Nat /\ 9 \in Nat /\ 17 \in Nat /\ 18 \in Nat /\ 19 \in Nat /\ 20 \in Nat
      /\ 17 = 9 + 8 /\ 18 = 17 + 1 /\ 19 = 18 + 1 /\ 20 = 19 + 1 /\ 21 = 20 + 1
    OBVIOUS
<1>2. 2^(9 + 8) = 2^9 * 2^8
    BY <1>1, PowAdd, Zenon
<1>3. 2^(17 + 1) = 2 * 2^17 /\ 2^(18 + 1) = 2 * 2^18
    BY <1>1, Pow, Zenon
<1>4. 2^(19 + 1) = 2 * 2^19 /\ 2^(20 + 1) = 2 * 2^20
    BY <1>1, Pow, Zenon
<1> QED BY <1>1, <1>2, <1>3, <1>4, Zenon

\* The immediate of c.lui, whose zero is reserved.
LEMMA UpperImm ==
    ASSUME NEW v \in Int
    PROVE  /\ c_lui_imm(v)
              = SInt(Scatter(v, 12, <<17>>) + Scatter(v, 6, <<16, 15, 14, 13, 12>>), 18)
           /\ c_lui_imm(v) \in Int /\ -131072 <= c_lui_imm(v) /\ c_lui_imm(v) < 131072
           /\ c_lui_imm(v) % 4096 = 0
           /\ c_lui_imm(v) = 0 => Bit(v, 12) = 0 /\ Reg(v, 2) = 0
           /\ Bit(v, 12) = 0 /\ Reg(v, 2) = 0 => c_lui_imm(v) = 0
<1> DEFINE y == 131072 * Bit(v, 12) + 65536 * Bit(v, 6) + 32768 * Bit(v, 5) + 16384 * Bit(v, 4)
                + 8192 * Bit(v, 3) + 4096 * Bit(v, 2)
           scattered == Scatter(v, 12, <<17>>) + Scatter(v, 6, <<16, 15, 14, 13, 12>>)
           concat == binary_concat(v, 12, 12, 17) + binary_concat(v, 6, 2, 12)
           M == 2^17
           N == 2^18
           s == Signed(y, 18)
<1>1. /\ Bit(v, 12) \in {0, 1} /\ Bit(v, 6) \in {0, 1} /\ Bit(v, 5) \in {0, 1}
         /\ Bit(v, 4) \in {0, 1}
      /\ Bit(v, 3) \in {0, 1} /\ Bit(v, 2) \in {0, 1}
    BY BitIsBit
<1>2. /\ y \in Int /\ 0 <= y /\ y < 262144 /\ y % 4096 = 0
      /\ y = 0 <=> Bit(v, 12) = 0 /\ Reg(v, 2) = 0
    <2> DEFINE b == Bit(v, 12)
               r == Reg(v, 2)
               k == 32 * b + r
    <2>1. r = Bit(v, 2) + 2 * Bit(v, 3) + 4 * Bit(v, 4) + 8 * Bit(v, 5) + 16 * Bit(v, 6)
        BY Fields DEF Reg
    <2>2. r \in 0 .. 31
        BY DEF Reg
    <2>3. y = 4096 * k
        BY <1>1, <2>1
    <2> HIDE DEF y, b, r
    <2>4. b \in {0, 1}
        BY <1>1 DEF b
    <2>5. k \in 0 .. 63 /\ (k = 0 <=> b = 0 /\ r = 0)
        BY <2>2, <2>4
    <2> HIDE DEF k
    <2>6. /\ y \in Int /\ 0 <= y /\ y < 262144 /\ y % 4096 = 0
          /\ y = 0 <=> b = 0 /\ r = 0
        BY <2>3, <2>5
    <2> QED BY <2>6 DEF b, r
<1>3. scattered = y
    BY <1>1, Places12_17, Places6_16_15_14_13_12
<1>4. concat = y
    BY <1>1, Fields DEF binary_concat, Bit
<1>5. c_lui_imm(v) = Signed(concat, 18)
    BY DEF c_lui_imm
<1> HIDE DEF y, concat, scattered
<1>6. M = 2^9 * 2^8 /\ N = 2 * M
    BY Powers, Zenon
<1>7. s = IF y >= M THEN y - N ELSE y
    <2>1. 18 - 1 = 17
        OBVIOUS
    <2> QED BY <2>1, Zenon DEF Signed
<1>8. SInt(y, 18) = s
    <2>1. 18 \in Nat \ {0}
        OBVIOUS
    <2>2. y \in 0 .. 2^18 - 1
        <3> HIDE DEF N
        <3>1. y \in 0 .. N - 1
            BY <1>2, <1>6
        <3> QED BY <3>1 DEF N
    <2> QED BY <2>1, <2>2, SIntIsSigned, Zenon
<1>9. c_lui_imm(v) = s /\ c_lui_imm(v) = SInt(scattered, 18)
    BY <1>3, <1>4, <1>5, <1>8, Zenon
<1> HIDE DEF M, N, s
<1>10. s \in Int /\ -131072 <= s /\ s < 131072 /\ s % 4096 = 0 /\ (s = 0 <=> y = 0)
    BY <1>2, <1>6, <1>7
<1> QED BY <1>2, <1>9, <1>10 DEF scattered

\* The other immediates: each is the sum of the same bits, and in its range.
LEMMA SpnImm ==
    ASSUME NEW v \in Int
    PROVE  c_addi4spn_imm(v) = Scatter(v, 12, <<5, 4, 9, 8, 7, 6, 2, 3>>)
           /\ c_addi4spn_imm(v) \in 0 .. 1023
<1> DEFINE y == 32 * Bit(v, 12) + 16 * Bit(v, 11) + 512 * Bit(v, 10) + 256 * Bit(v, 9)
                + 128 * Bit(v, 8) + 64 * Bit(v, 7) + 4 * Bit(v, 6) + 8 * Bit(v, 5)
           scattered == Scatter(v, 12, <<5, 4, 9, 8, 7, 6, 2, 3>>)
           concat == binary_concat(v, 12, 11, 4) + binary_concat(v, 10, 7, 6)
                     + binary_concat(v, 6, 6, 2) + binary_concat(v, 5, 5, 3)
<1>1. Bit(v, 12) \in {0, 1} /\ Bit(v, 11) \in {0, 1} /\ Bit(v, 10) \in {0, 1}
      /\ Bit(v, 9) \in {0, 1} /\ Bit(v, 8) \in {0, 1} /\ Bit(v, 7) \in {0, 1}
      /\ Bit(v, 6) \in {0, 1} /\ Bit(v, 5) \in {0, 1}
    BY BitIsBit
<1>2. y \in 0 .. 1023
    BY <1>1
<1>3. scattered = y
    BY <1>1, Places12_5_4_9_8_7_6_2_3
<1>4. concat = y
    BY <1>1, Fields DEF binary_concat, Bit
<1>5. c_addi4spn_imm(v) = concat
    BY DEF c_addi4spn_imm
<1> HIDE DEF y, concat, scattered
<1>6. c_addi4spn_imm(v) = scattered /\ c_addi4spn_imm(v) \in 0 .. 1023
    BY <1>2, <1>3, <1>4, <1>5
<1> QED BY <1>6 DEF scattered

LEMMA WordImm ==
    ASSUME NEW v \in Int
    PROVE  c_word_imm(v) = Scatter(v, 12, <<5, 4, 3>>) + Scatter(v, 6, <<2, 6>>)
           /\ c_word_imm(v) \in 0 .. 127
<1> DEFINE y == 32 * Bit(v, 12) + 16 * Bit(v, 11) + 8 * Bit(v, 10) + 4 * Bit(v, 6) + 64 * Bit(v, 5)
           scattered == Scatter(v, 12, <<5, 4, 3>>) + Scatter(v, 6, <<2, 6>>)
           concat == binary_concat(v, 6, 6, 2) + binary_concat(v, 5, 5, 6)
                     + binary_concat(v, 12, 10, 3)
<1>1. Bit(v, 12) \in {0, 1} /\ Bit(v, 11) \in {0, 1} /\ Bit(v, 10) \in {0, 1}
      /\ Bit(v, 6) \in {0, 1} /\ Bit(v, 5) \in {0, 1}
    BY BitIsBit
<1>2. y \in 0 .. 127
    BY <1>1
<1>3. scattered = y
    BY <1>1, Places12_5_4_3, Places6_2_6
<1>4. concat = y
    BY <1>1, Fields DEF binary_concat, Bit
<1>5. c_word_imm(v) = concat
    BY DEF c_word_imm
<1> HIDE DEF y, concat, scattered
<1>6. c_word_imm(v) = scattered /\ c_word_imm(v) \in 0 .. 127
    BY <1>2, <1>3, <1>4, <1>5
<1> QED BY <1>6 DEF scattered

LEMMA DoubleImm ==
    ASSUME NEW v \in Int
    PROVE  c_double_imm(v) = Scatter(v, 12, <<5, 4, 3>>) + Scatter(v, 6, <<7, 6>>)
           /\ c_double_imm(v) \in 0 .. 255
<1> DEFINE y == 32 * Bit(v, 12) + 16 * Bit(v, 11) + 8 * Bit(v, 10) + 128 * Bit(v, 6)
                + 64 * Bit(v, 5)
           scattered == Scatter(v, 12, <<5, 4, 3>>) + Scatter(v, 6, <<7, 6>>)
           concat == binary_concat(v, 6, 5, 6) + binary_concat(v, 12, 10, 3)
<1>1. Bit(v, 12) \in {0, 1} /\ Bit(v, 11) \in {0, 1} /\ Bit(v, 10) \in {0, 1}
      /\ Bit(v, 6) \in {0, 1} /\ Bit(v, 5) \in {0, 1}
    BY BitIsBit
<1>2. y \in 0 .. 255
    BY <1>1
<1>3. scattered = y
    BY <1>1, Places12_5_4_3, Places6_7_6
<1>4. concat = y
    BY <1>1, Fields DEF binary_concat, Bit
<1>5. c_double_imm(v) = concat
    BY DEF c_double_imm
<1> HIDE DEF y, concat, scattered
<1>6. c_double_imm(v) = scattered /\ c_double_imm(v) \in 0 .. 255
    BY <1>2, <1>3, <1>4, <1>5
<1> QED BY <1>6 DEF scattered

LEMMA SixImm ==
    ASSUME NEW v \in Int
    PROVE  c_uimm(v) = Scatter(v, 12, <<5>>) + Scatter(v, 6, <<4, 3, 2, 1, 0>>)
           /\ c_uimm(v) \in 0 .. 63
<1> DEFINE y == 32 * Bit(v, 12) + 16 * Bit(v, 6) + 8 * Bit(v, 5) + 4 * Bit(v, 4) + 2 * Bit(v, 3)
                + Bit(v, 2)
           scattered == Scatter(v, 12, <<5>>) + Scatter(v, 6, <<4, 3, 2, 1, 0>>)
           concat == binary_concat(v, 12, 12, 5) + binary_concat(v, 6, 2, 0)
<1>1. Bit(v, 12) \in {0, 1} /\ Bit(v, 6) \in {0, 1} /\ Bit(v, 5) \in {0, 1}
      /\ Bit(v, 4) \in {0, 1} /\ Bit(v, 3) \in {0, 1} /\ Bit(v, 2) \in {0, 1}
    BY BitIsBit
<1>2. y \in 0 .. 63
    BY <1>1
<1>3. scattered = y
    BY <1>1, Places12_5, Places6_4_3_2_1_0
<1>4. concat = y
    BY <1>1, Fields DEF binary_concat, Bit
<1>5. c_uimm(v) = concat
    BY DEF c_uimm
<1> HIDE DEF y, concat, scattered
<1>6. c_uimm(v) = scattered /\ c_uimm(v) \in 0 .. 63
    BY <1>2, <1>3, <1>4, <1>5
<1> QED BY <1>6 DEF scattered

LEMMA LwspImm ==
    ASSUME NEW v \in Int
    PROVE  c_lwsp_imm(v) = Scatter(v, 12, <<5>>) + Scatter(v, 6, <<4, 3, 2, 7, 6>>)
           /\ c_lwsp_imm(v) \in 0 .. 255
<1> DEFINE y == 32 * Bit(v, 12) + 16 * Bit(v, 6) + 8 * Bit(v, 5) + 4 * Bit(v, 4) + 128 * Bit(v, 3)
                + 64 * Bit(v, 2)
           scattered == Scatter(v, 12, <<5>>) + Scatter(v, 6, <<4, 3, 2, 7, 6>>)
           concat == binary_concat(v, 6, 4, 2) + binary_concat(v, 3, 2, 6)
                     + binary_concat(v, 12, 12, 5)
<1>1. Bit(v, 12) \in {0, 1} /\ Bit(v, 6) \in {0, 1} /\ Bit(v, 5) \in {0, 1}
      /\ Bit(v, 4) \in {0, 1} /\ Bit(v, 3) \in {0, 1} /\ Bit(v, 2) \in {0, 1}
    BY BitIsBit
<1>2. y \in 0 .. 255
    BY <1>1
<1>3. scattered = y
    BY <1>1, Places12_5, Places6_4_3_2_7_6
<1>4. concat = y
    BY <1>1, Fields DEF binary_concat, Bit
<1>5. c_lwsp_imm(v) = concat
    BY DEF c_lwsp_imm
<1> HIDE DEF y, concat, scattered
<1>6. c_lwsp_imm(v) = scattered /\ c_lwsp_imm(v) \in 0 .. 255
    BY <1>2, <1>3, <1>4, <1>5
<1> QED BY <1>6 DEF scattered

LEMMA LdspImm ==
    ASSUME NEW v \in Int
    PROVE  c_ldsp_imm(v) = Scatter(v, 12, <<5>>) + Scatter(v, 6, <<4, 3, 8, 7, 6>>)
           /\ c_ldsp_imm(v) \in 0 .. 511
<1> DEFINE y == 32 * Bit(v, 12) + 16 * Bit(v, 6) + 8 * Bit(v, 5) + 256 * Bit(v, 4)
                + 128 * Bit(v, 3) + 64 * Bit(v, 2)
           scattered == Scatter(v, 12, <<5>>) + Scatter(v, 6, <<4, 3, 8, 7, 6>>)
           concat == binary_concat(v, 6, 5, 3) + binary_concat(v, 4, 2, 6)
                     + binary_concat(v, 12, 12, 5)
<1>1. Bit(v, 12) \in {0, 1} /\ Bit(v, 6) \in {0, 1} /\ Bit(v, 5) \in {0, 1}
      /\ Bit(v, 4) \in {0, 1} /\ Bit(v, 3) \in {0, 1} /\ Bit(v, 2) \in {0, 1}
    BY BitIsBit
<1>2. y \in 0 .. 511
    BY <1>1
<1>3. scattered = y
    BY <1>1, Places12_5, Places6_4_3_8_7_6
<1>4. concat = y
    BY <1>1, Fields DEF binary_concat, Bit
<1>5. c_ldsp_imm(v) = concat
    BY DEF c_ldsp_imm
<1> HIDE DEF y, concat, scattered
<1>6. c_ldsp_imm(v) = scattered /\ c_ldsp_imm(v) \in 0 .. 511
    BY <1>2, <1>3, <1>4, <1>5
<1> QED BY <1>6 DEF scattered

LEMMA SwspImm ==
    ASSUME NEW v \in Int
    PROVE  c_swsp_imm(v) = Scatter(v, 12, <<5, 4, 3, 2, 7, 6>>) /\ c_swsp_imm(v) \in 0 .. 255
<1> DEFINE y == 32 * Bit(v, 12) + 16 * Bit(v, 11) + 8 * Bit(v, 10) + 4 * Bit(v, 9)
                + 128 * Bit(v, 8) + 64 * Bit(v, 7)
           scattered == Scatter(v, 12, <<5, 4, 3, 2, 7, 6>>)
           concat == binary_concat(v, 12, 9, 2) + binary_concat(v, 8, 7, 6)
<1>1. Bit(v, 12) \in {0, 1} /\ Bit(v, 11) \in {0, 1} /\ Bit(v, 10) \in {0, 1}
      /\ Bit(v, 9) \in {0, 1} /\ Bit(v, 8) \in {0, 1} /\ Bit(v, 7) \in {0, 1}
    BY BitIsBit
<1>2. y \in 0 .. 255
    BY <1>1
<1>3. scattered = y
    BY <1>1, Places12_5_4_3_2_7_6
<1>4. concat = y
    BY <1>1, Fields DEF binary_concat, Bit
<1>5. c_swsp_imm(v) = concat
    BY DEF c_swsp_imm
<1> HIDE DEF y, concat, scattered
<1>6. c_swsp_imm(v) = scattered /\ c_swsp_imm(v) \in 0 .. 255
    BY <1>2, <1>3, <1>4, <1>5
<1> QED BY <1>6 DEF scattered

LEMMA SdspImm ==
    ASSUME NEW v \in Int
    PROVE  c_sdsp_imm(v) = Scatter(v, 12, <<5, 4, 3, 8, 7, 6>>) /\ c_sdsp_imm(v) \in 0 .. 511
<1> DEFINE y == 32 * Bit(v, 12) + 16 * Bit(v, 11) + 8 * Bit(v, 10) + 256 * Bit(v, 9)
                + 128 * Bit(v, 8) + 64 * Bit(v, 7)
           scattered == Scatter(v, 12, <<5, 4, 3, 8, 7, 6>>)
           concat == binary_concat(v, 12, 10, 3) + binary_concat(v, 9, 7, 6)
<1>1. Bit(v, 12) \in {0, 1} /\ Bit(v, 11) \in {0, 1} /\ Bit(v, 10) \in {0, 1}
      /\ Bit(v, 9) \in {0, 1} /\ Bit(v, 8) \in {0, 1} /\ Bit(v, 7) \in {0, 1}
    BY BitIsBit
<1>2. y \in 0 .. 511
    BY <1>1
<1>3. scattered = y
    BY <1>1, Places12_5_4_3_8_7_6
<1>4. concat = y
    BY <1>1, Fields DEF binary_concat, Bit
<1>5. c_sdsp_imm(v) = concat
    BY DEF c_sdsp_imm
<1> HIDE DEF y, concat, scattered
<1>6. c_sdsp_imm(v) = scattered /\ c_sdsp_imm(v) \in 0 .. 511
    BY <1>2, <1>3, <1>4, <1>5
<1> QED BY <1>6 DEF scattered

LEMMA SixteenImm ==
    ASSUME NEW v \in Int
    PROVE  c_addi16sp_imm(v) = SInt(Scatter(v, 12, <<9>>) + Scatter(v, 6, <<4, 6, 8, 7, 5>>), 10)
           /\ c_addi16sp_imm(v) \in Int /\ -512 <= c_addi16sp_imm(v) /\ c_addi16sp_imm(v) < 512
<1> DEFINE y == 512 * Bit(v, 12) + 16 * Bit(v, 6) + 64 * Bit(v, 5) + 256 * Bit(v, 4)
                + 128 * Bit(v, 3) + 32 * Bit(v, 2)
           scattered == Scatter(v, 12, <<9>>) + Scatter(v, 6, <<4, 6, 8, 7, 5>>)
           concat == binary_concat(v, 12, 12, 9) + binary_concat(v, 6, 6, 4)
                     + binary_concat(v, 5, 5, 6) + binary_concat(v, 4, 3, 7)
                     + binary_concat(v, 2, 2, 5)
<1>1. Bit(v, 12) \in {0, 1} /\ Bit(v, 6) \in {0, 1} /\ Bit(v, 5) \in {0, 1}
      /\ Bit(v, 4) \in {0, 1} /\ Bit(v, 3) \in {0, 1} /\ Bit(v, 2) \in {0, 1}
    BY BitIsBit
<1>2. y \in Int /\ 0 <= y /\ y < 1024
    BY <1>1
<1>3. scattered = y
    BY <1>1, Places12_9, Places6_4_6_8_7_5
<1>4. concat = y
    BY <1>1, Fields DEF binary_concat, Bit
<1>5. c_addi16sp_imm(v) = Signed(concat, 10)
    BY DEF c_addi16sp_imm
<1> HIDE DEF y, concat, scattered
<1>6. 2^(10 - 1) = 512 /\ 2^10 = 1024
    OBVIOUS
<1>7. Signed(y, 10) = IF y >= 512 THEN y - 1024 ELSE y
    BY <1>6 DEF Signed
<1>8. Signed(y, 10) \in Int /\ -512 <= Signed(y, 10) /\ Signed(y, 10) < 512
    <2> DEFINE z == Signed(y, 10)
    <2> HIDE DEF z
    <2>1. CASE y >= 512
        <3>1. z = y - 1024
            BY <1>7, <2>1 DEF z
        <3>2. z \in Int /\ -512 <= z /\ z < 512
            BY <1>2, <2>1, <3>1
        <3> QED BY <3>2 DEF z
    <2>2. CASE ~(y >= 512)
        <3>1. z = y
            BY <1>7, <2>2 DEF z
        <3>2. z \in Int /\ -512 <= z /\ z < 512
            BY <1>2, <2>2, <3>1
        <3> QED BY <3>2 DEF z
    <2> QED BY <2>1, <2>2
<1>9. SInt(y, 10) = Signed(y, 10)
    <2>1. 10 \in Nat \ {0} /\ y \in 0 .. 2^10 - 1
        BY <1>2
    <2> QED BY <2>1, SIntIsSigned, Zenon
<1>10. c_addi16sp_imm(v) = SInt(scattered, 10) /\ c_addi16sp_imm(v) \in Int
       /\ -512 <= c_addi16sp_imm(v) /\ c_addi16sp_imm(v) < 512
    BY <1>3, <1>4, <1>5, <1>8, <1>9
<1> QED BY <1>10 DEF scattered

LEMMA JumpImm ==
    ASSUME NEW v \in Int
    PROVE  c_j_imm(v) = SInt(Scatter(v, 12, <<11, 4, 9, 8, 10, 6, 7, 3, 2, 1, 5>>), 12)
           /\ c_j_imm(v) \in Int /\ -2048 <= c_j_imm(v) /\ c_j_imm(v) < 2048 /\ c_j_imm(v) % 2 = 0
<1> DEFINE y == 2048 * Bit(v, 12) + 16 * Bit(v, 11) + 512 * Bit(v, 10) + 256 * Bit(v, 9)
                + 1024 * Bit(v, 8) + 64 * Bit(v, 7) + 128 * Bit(v, 6) + 8 * Bit(v, 5)
                + 4 * Bit(v, 4) + 2 * Bit(v, 3) + 32 * Bit(v, 2)
           scattered == Scatter(v, 12, <<11, 4, 9, 8, 10, 6, 7, 3, 2, 1, 5>>)
           concat == binary_concat(v, 12, 12, 11) + binary_concat(v, 11, 11, 4)
                     + binary_concat(v, 10, 9, 8) + binary_concat(v, 8, 8, 10)
                     + binary_concat(v, 7, 7, 6) + binary_concat(v, 6, 6, 7)
                     + binary_concat(v, 5, 3, 1) + binary_concat(v, 2, 2, 5)
<1>1. Bit(v, 12) \in {0, 1} /\ Bit(v, 11) \in {0, 1} /\ Bit(v, 10) \in {0, 1}
      /\ Bit(v, 9) \in {0, 1} /\ Bit(v, 8) \in {0, 1} /\ Bit(v, 7) \in {0, 1}
      /\ Bit(v, 6) \in {0, 1} /\ Bit(v, 5) \in {0, 1} /\ Bit(v, 4) \in {0, 1}
      /\ Bit(v, 3) \in {0, 1} /\ Bit(v, 2) \in {0, 1}
    BY BitIsBit
<1>2. y \in Int /\ 0 <= y /\ y < 4096 /\ y % 2 = 0
    <2> DEFINE k == 1024 * Bit(v, 12) + 8 * Bit(v, 11) + 256 * Bit(v, 10) + 128 * Bit(v, 9)
                    + 512 * Bit(v, 8) + 32 * Bit(v, 7) + 64 * Bit(v, 6) + 4 * Bit(v, 5)
                    + 2 * Bit(v, 4) + Bit(v, 3) + 16 * Bit(v, 2)
    <2>1. y = 2 * k
        BY <1>1
    <2>2. k \in Int /\ 0 <= k
        BY <1>1
    <2>3. k <= 2047
        BY <1>1
    <2> HIDE DEF k, y
    <2> QED BY <2>1, <2>2, <2>3
<1>3. scattered = y
    BY <1>1, Places12_11_4_9_8_10_6_7_3_2_1_5
<1>4. concat = y
    BY <1>1, Fields DEF binary_concat, Bit
<1>5. c_j_imm(v) = Signed(concat, 12)
    BY DEF c_j_imm
<1> HIDE DEF y, concat, scattered
<1>6. 2^(12 - 1) = 2048 /\ 2^12 = 4096
    OBVIOUS
<1>7. Signed(y, 12) = IF y >= 2048 THEN y - 4096 ELSE y
    BY <1>6 DEF Signed
<1>8. Signed(y, 12) \in Int /\ -2048 <= Signed(y, 12) /\ Signed(y, 12) < 2048
      /\ Signed(y, 12) % 2 = 0
    <2> DEFINE z == Signed(y, 12)
    <2> HIDE DEF z
    <2>1. CASE y >= 2048
        <3>1. z = y - 4096
            BY <1>7, <2>1 DEF z
        <3>2. z \in Int /\ -2048 <= z /\ z < 2048 /\ z % 2 = 0
            BY <1>2, <2>1, <3>1
        <3> QED BY <3>2 DEF z
    <2>2. CASE ~(y >= 2048)
        <3>1. z = y
            BY <1>7, <2>2 DEF z
        <3>2. z \in Int /\ -2048 <= z /\ z < 2048 /\ z % 2 = 0
            BY <1>2, <2>2, <3>1
        <3> QED BY <3>2 DEF z
    <2> QED BY <2>1, <2>2
<1>9. SInt(y, 12) = Signed(y, 12)
    <2>1. 12 \in Nat \ {0} /\ y \in 0 .. 2^12 - 1
        BY <1>2
    <2> QED BY <2>1, SIntIsSigned, Zenon
<1>10. c_j_imm(v) = SInt(scattered, 12) /\ c_j_imm(v) \in Int /\ -2048 <= c_j_imm(v)
       /\ c_j_imm(v) < 2048 /\ c_j_imm(v) % 2 = 0
    BY <1>3, <1>4, <1>5, <1>8, <1>9
<1> QED BY <1>10 DEF scattered

LEMMA OffsetImm ==
    ASSUME NEW v \in Int
    PROVE  c_b_imm(v) = SInt(Scatter(v, 12, <<8, 4, 3>>) + Scatter(v, 6, <<7, 6, 2, 1, 5>>), 9)
           /\ c_b_imm(v) \in Int /\ -256 <= c_b_imm(v) /\ c_b_imm(v) < 256 /\ c_b_imm(v) % 2 = 0
<1> DEFINE y == 256 * Bit(v, 12) + 16 * Bit(v, 11) + 8 * Bit(v, 10) + 128 * Bit(v, 6)
                + 64 * Bit(v, 5) + 4 * Bit(v, 4) + 2 * Bit(v, 3) + 32 * Bit(v, 2)
           scattered == Scatter(v, 12, <<8, 4, 3>>) + Scatter(v, 6, <<7, 6, 2, 1, 5>>)
           concat == binary_concat(v, 12, 12, 8) + binary_concat(v, 11, 10, 3)
                     + binary_concat(v, 6, 5, 6) + binary_concat(v, 4, 3, 1)
                     + binary_concat(v, 2, 2, 5)
<1>1. Bit(v, 12) \in {0, 1} /\ Bit(v, 11) \in {0, 1} /\ Bit(v, 10) \in {0, 1}
      /\ Bit(v, 6) \in {0, 1} /\ Bit(v, 5) \in {0, 1} /\ Bit(v, 4) \in {0, 1}
      /\ Bit(v, 3) \in {0, 1} /\ Bit(v, 2) \in {0, 1}
    BY BitIsBit
<1>2. y \in Int /\ 0 <= y /\ y < 512 /\ y % 2 = 0
    <2> DEFINE k == 128 * Bit(v, 12) + 8 * Bit(v, 11) + 4 * Bit(v, 10) + 64 * Bit(v, 6)
                    + 32 * Bit(v, 5) + 2 * Bit(v, 4) + Bit(v, 3) + 16 * Bit(v, 2)
    <2>1. y = 2 * k
        BY <1>1
    <2>2. k \in Int /\ 0 <= k
        BY <1>1
    <2>3. k <= 255
        BY <1>1
    <2> HIDE DEF k, y
    <2> QED BY <2>1, <2>2, <2>3
<1>3. scattered = y
    BY <1>1, Places12_8_4_3, Places6_7_6_2_1_5
<1>4. concat = y
    BY <1>1, Fields DEF binary_concat, Bit
<1>5. c_b_imm(v) = Signed(concat, 9)
    BY DEF c_b_imm
<1> HIDE DEF y, concat, scattered
<1>6. 2^(9 - 1) = 256 /\ 2^9 = 512
    OBVIOUS
<1>7. Signed(y, 9) = IF y >= 256 THEN y - 512 ELSE y
    BY <1>6 DEF Signed
<1>8. Signed(y, 9) \in Int /\ -256 <= Signed(y, 9) /\ Signed(y, 9) < 256 /\ Signed(y, 9) % 2 = 0
    <2> DEFINE z == Signed(y, 9)
    <2> HIDE DEF z
    <2>1. CASE y >= 256
        <3>1. z = y - 512
            BY <1>7, <2>1 DEF z
        <3>2. z \in Int /\ -256 <= z /\ z < 256 /\ z % 2 = 0
            BY <1>2, <2>1, <3>1
        <3> QED BY <3>2 DEF z
    <2>2. CASE ~(y >= 256)
        <3>1. z = y
            BY <1>7, <2>2 DEF z
        <3>2. z \in Int /\ -256 <= z /\ z < 256 /\ z % 2 = 0
            BY <1>2, <2>2, <3>1
        <3> QED BY <3>2 DEF z
    <2> QED BY <2>1, <2>2
<1>9. SInt(y, 9) = Signed(y, 9)
    <2>1. 9 \in Nat \ {0} /\ y \in 0 .. 2^9 - 1
        BY <1>2
    <2> QED BY <2>1, SIntIsSigned, Zenon
<1>10. c_b_imm(v) = SInt(scattered, 9) /\ c_b_imm(v) \in Int /\ -256 <= c_b_imm(v)
       /\ c_b_imm(v) < 256 /\ c_b_imm(v) % 2 = 0
    BY <1>3, <1>4, <1>5, <1>8, <1>9
<1> QED BY <1>10 DEF scattered

----------------------------------------------------------------------------
(* The immediates of the 32-bit formats are read back as they were put.    *)

\* The signed one of six bits.
LEMMA ImmImm ==
    ASSUME NEW v \in Int
    PROVE  /\ c_imm(v) = SInt(Scatter(v, 12, <<5>>) + Scatter(v, 6, <<4, 3, 2, 1, 0>>), 6)
           /\ c_imm(v) \in Int /\ -32 <= c_imm(v) /\ c_imm(v) < 32
<1> DEFINE y == c_uimm(v)
<1>1. y = Scatter(v, 12, <<5>>) + Scatter(v, 6, <<4, 3, 2, 1, 0>>) /\ y \in 0 .. 63
    BY SixImm
<1>2. c_imm(v) = Signed(y, 6)
    BY DEF c_imm
<1> HIDE DEF y
<1>3. 2^(6 - 1) = 32 /\ 2^6 = 64
    OBVIOUS
<1>4. Signed(y, 6) = IF y >= 32 THEN y - 64 ELSE y
    BY <1>3 DEF Signed
<1>5. SInt(y, 6) = Signed(y, 6)
    <2>1. 6 \in Nat \ {0} /\ y \in 0 .. 2^6 - 1
        BY <1>1
    <2> QED BY <2>1, SIntIsSigned, Zenon
<1> QED BY <1>1, <1>2, <1>4, <1>5

\* The upper and the lower part of a number, again.
LEMMA Joined ==
    ASSUME NEW y \in Int
    PROVE  /\ ((y \div 32) % 128) * 32 + (y % 32) = y % 4096
           /\ (y \div 32) % 128 \in 0 .. 127 /\ y % 32 \in 0 .. 31
<1>1. y % (32 * 128) = 32 * ((y \div 32) % 128) + (y % 32)
    <2>1. 32 \in Nat \ {0} /\ 128 \in Nat \ {0}
        OBVIOUS
    <2> QED BY <2>1, DivDiv
<1> DEFINE a == (y \div 32) % 128
           b == y % 32
<1>2. a \in Int /\ b \in Int /\ a \in 0 .. 127 /\ b \in 0 .. 31
    OBVIOUS
<1>3. y % 4096 = 32 * a + b
    BY <1>1
<1> HIDE DEF a, b
<1>4. a * 32 + b = y % 4096
    BY <1>2, <1>3
<1> QED BY <1>2, <1>4 DEF a, b

LEMMA SignedTwelve ==
    ASSUME NEW y \in Int, -2048 <= y, y < 2048
    PROVE  Signed(y % 4096, 12) = y
<1>1. 2^(12 - 1) = 2048 /\ 2^12 = 4096
    OBVIOUS
<1>2. CASE y >= 0
    <2>1. y % 4096 = y
        BY <1>2
    <2> QED BY <1>1, <2>1 DEF Signed
<1>3. CASE ~(y >= 0)
    <2>1. y % 4096 = y + 4096
        BY <1>3
    <2> QED BY <1>1, <1>3, <2>1 DEF Signed
<1> QED BY <1>2, <1>3

\* The formats, one by one.
LEMMA ITypeFields ==
    ASSUME NEW opcode, NEW funct3, NEW rd, NEW rs1, NEW imm \in Int, -2048 <= imm, imm < 2048
    PROVE  LET i == IType(opcode, funct3, rd, rs1, imm)
           IN  /\ i.opcode = opcode /\ i.funct3 = funct3 /\ i.rd = rd /\ i.rs1 = rs1
               /\ imm12(i) = imm
<1> DEFINE i == IType(opcode, funct3, rd, rs1, imm)
<1>1. /\ i.opcode = opcode /\ i.funct3 = funct3 /\ i.rd = rd /\ i.rs1 = rs1
      /\ i.funct7 = (imm \div 32) % 128 /\ i.rs2 = imm % 32
    BY DEF IType, RType
<1> HIDE DEF i
<1>2. i.funct7 * 32 + i.rs2 = imm % 4096
    BY <1>1, Joined
<1>3. Signed(imm % 4096, 12) = imm
    BY SignedTwelve
<1>4. imm12(i) = imm
    BY <1>2, <1>3 DEF imm12
<1> QED BY <1>1, <1>4 DEF i

LEMMA STypeFields ==
    ASSUME NEW funct3, NEW rs1, NEW rs2, NEW imm \in Int, -2048 <= imm, imm < 2048
    PROVE  LET i == SType(funct3, rs1, rs2, imm)
           IN  /\ i.opcode = "STORE" /\ i.funct3 = funct3 /\ i.rs1 = rs1 /\ i.rs2 = rs2
               /\ s_imm(i) = imm
<1> DEFINE i == SType(funct3, rs1, rs2, imm)
<1>1. /\ i.opcode = "STORE" /\ i.funct3 = funct3 /\ i.rs1 = rs1 /\ i.rs2 = rs2
      /\ i.funct7 = (imm \div 32) % 128 /\ i.rd = imm % 32
    BY DEF SType, RType
<1> HIDE DEF i
<1>2. i.funct7 * 32 + i.rd = imm % 4096
    BY <1>1, Joined
<1>3. Signed(imm % 4096, 12) = imm
    BY SignedTwelve
<1>4. s_imm(i) = imm
    BY <1>2, <1>3 DEF s_imm
<1> QED BY <1>1, <1>4 DEF i

LEMMA RTypeFields ==
    ASSUME NEW opcode, NEW funct7, NEW funct3, NEW rd, NEW rs1, NEW rs2
    PROVE  LET i == RType(opcode, funct7, funct3, rd, rs1, rs2)
           IN  /\ i.opcode = opcode /\ i.funct7 = funct7 /\ i.funct3 = funct3
               /\ i.rd = rd /\ i.rs1 = rs1 /\ i.rs2 = rs2
BY DEF RType

\* The low digits of an even number, as the jumps and branches spread them.
SpreadOf(y) == Bit(y, 11) * 2048 + ((y \div 32) % 64) * 32 + ((y \div 2) % 16) * 2

\* Twelve bits without the lowest, as branches and jumps hold them.
LEMMA Spread ==
    ASSUME NEW y \in Int, y % 2 = 0
    PROVE  y % 4096 = SpreadOf(y)
<1> DEFINE b == Bit(y, 11)
           c == (y \div 32) % 64
           d == (y \div 2) % 16
<1>1. b \in {0, 1} /\ c \in 0 .. 63 /\ d \in 0 .. 15
    BY DEF Bit
<1>2. b = (y \div 2048) % 2
    BY DEF Bit
<1>3. y % (2048 * 2) = 2048 * ((y \div 2048) % 2) + (y % 2048)
    <2>1. 2048 \in Nat \ {0} /\ 2 \in Nat \ {0}
        OBVIOUS
    <2> QED BY <2>1, DivDiv
<1>4. y % (32 * 64) = 32 * ((y \div 32) % 64) + (y % 32)
    <2>1. 32 \in Nat \ {0} /\ 64 \in Nat \ {0}
        OBVIOUS
    <2> QED BY <2>1, DivDiv
<1>5. y % (2 * 16) = 2 * ((y \div 2) % 16) + (y % 2)
    <2>1. 2 \in Nat \ {0} /\ 16 \in Nat \ {0}
        OBVIOUS
    <2> QED BY <2>1, DivDiv
<1> DEFINE p == y % 4096
           q == y % 2048
           r == y % 32
<1>6a. p = 2048 * b + q
    <2>1. 2048 * 2 = 4096
        OBVIOUS
    <2> QED BY <1>2, <1>3, <2>1
<1>6b. q = 32 * c + r
    <2>1. 32 * 64 = 2048
        OBVIOUS
    <2> QED BY <1>4, <2>1
<1>6c. r = 2 * d
    <2>1. 2 * 16 = 32
        OBVIOUS
    <2> QED BY <1>5, <2>1
<1>6d. p \in Int /\ q \in Int /\ r \in Int
    OBVIOUS
<1> HIDE DEF b, c, d, p, q, r
<1>7. p = b * 2048 + c * 32 + d * 2
    BY <1>1, <1>6a, <1>6b, <1>6c, <1>6d
<1> QED BY <1>7 DEF b, c, d, p, SpreadOf

\* What the fields of a jump or a branch, its halves joined, read back.
LEMMA Halved ==
    ASSUME NEW t \in {0, 1}, NEW c \in 0 .. 63, NEW d \in 0 .. 15, NEW b \in {0, 1}
    PROVE  /\ (t * 64 + c) \div 64 = t /\ (t * 64 + c) % 64 = c
           /\ (d * 2 + b) % 2 = b /\ (d * 2 + b) \div 2 = d
OBVIOUS

LEMMA BTypeFields ==
    ASSUME NEW funct3, NEW rs1, NEW rs2, NEW imm \in Int, -2048 <= imm, imm < 2048, imm % 2 = 0
    PROVE  LET i == BType(funct3, rs1, rs2, imm)
           IN  /\ i.opcode = "BRANCH" /\ i.funct3 = funct3 /\ i.rs1 = rs1 /\ i.rs2 = rs2
               /\ b_imm(i) = imm
<1> DEFINE i == BType(funct3, rs1, rs2, imm)
           t == Bit(imm, 12)
           b == Bit(imm, 11)
           c == (imm \div 32) % 64
           d == (imm \div 2) % 16
<1>1. /\ i.opcode = "BRANCH" /\ i.funct3 = funct3 /\ i.rs1 = rs1 /\ i.rs2 = rs2
      /\ i.funct7 = t * 64 + c /\ i.rd = d * 2 + b
    BY DEF BType, RType
<1>2a. b \in {0, 1} /\ c \in 0 .. 63 /\ d \in 0 .. 15
    BY DEF Bit
<1>2b. imm % 4096 = b * 2048 + c * 32 + d * 2
    <2>1. imm % 4096 = SpreadOf(imm)
        BY Spread
    <2> QED BY <2>1 DEF SpreadOf
<1>3. t = IF imm < 0 THEN 1 ELSE 0
    <2>1. 2^12 = 4096
        OBVIOUS
    <2>2. imm < 0 => imm \div 4096 = -1
        OBVIOUS
    <2>3. imm >= 0 => imm \div 4096 = 0
        OBVIOUS
    <2>4. t = (imm \div 4096) % 2
        BY <2>1 DEF Bit
    <2> QED BY <2>2, <2>3, <2>4
<1>3a. t \in {0, 1}
    BY <1>3
<1>4. imm % 4096 = IF imm < 0 THEN imm + 4096 ELSE imm
    OBVIOUS
<1> HIDE DEF i, t, b, c, d
<1>5. b_imm(i) = Signed(t * 4096 + b * 2048 + c * 32 + d * 2, 13)
    <2>1. /\ (t * 64 + c) \div 64 = t /\ (t * 64 + c) % 64 = c
          /\ (d * 2 + b) % 2 = b /\ (d * 2 + b) \div 2 = d
        BY <1>2a, <1>2b, <1>3a, Halved
    <2>2. i.funct7 \div 64 = t /\ i.funct7 % 64 = c /\ i.rd % 2 = b /\ i.rd \div 2 = d
        BY <1>1, <2>1
    <2> QED BY <2>2 DEF b_imm
<1>6. t * 4096 + b * 2048 + c * 32 + d * 2 = IF imm < 0 THEN imm + 8192 ELSE imm
    <2> DEFINE m == imm % 4096
    <2>1. m \in Int /\ b \in Int /\ c \in Int /\ d \in Int
        BY <1>2a, <1>2b
    <2>2. m = b * 2048 + c * 32 + d * 2 /\ m = IF imm < 0 THEN imm + 4096 ELSE imm
        BY <1>2a, <1>2b, <1>4
    <2> HIDE DEF m
    <2>3. t * 4096 + m = IF imm < 0 THEN imm + 8192 ELSE imm
        BY <1>3, <2>1, <2>2
    <2>4. t * 4096 + b * 2048 + c * 32 + d * 2 = t * 4096 + m
        BY <1>3a, <2>1, <2>2
    <2> QED BY <2>3, <2>4
<1>7. 2^(13 - 1) = 4096 /\ 2^13 = 8192
    OBVIOUS
<1>8. b_imm(i) = imm
    BY <1>5, <1>6, <1>7 DEF Signed
<1> QED BY <1>1, <1>8 DEF i

\* Sign extension from the widths of the upper and the jump immediates.
LEMMA SignedWide ==
    ASSUME NEW z \in Int
    PROVE  /\ Signed(z, 20) = IF z >= 524288 THEN z - 1048576 ELSE z
           /\ Signed(z, 21) = IF z >= 1048576 THEN z - 2097152 ELSE z
<1> DEFINE M == 2^17
           T == 2^18
           H == 2^19
           N == 2^20
           O == 2^21
<1>1. M = 2^9 * 2^8 /\ T = 2 * M /\ H = 2 * T /\ N = 2 * H /\ O = 2 * N
    BY Powers, Zenon
<1>2. Signed(z, 20) = IF z >= H THEN z - N ELSE z
    <2>1. 20 - 1 = 19
        OBVIOUS
    <2> QED BY <2>1, Zenon DEF Signed
<1>3. Signed(z, 21) = IF z >= N THEN z - O ELSE z
    <2>1. 21 - 1 = 20
        OBVIOUS
    <2> QED BY <2>1, Zenon DEF Signed
<1> HIDE DEF M, T, H, N, O
<1>4. H = 524288 /\ N = 1048576 /\ O = 2097152
    <2>1. M = 131072
        BY <1>1
    <2> QED BY <1>1, <2>1
<1> QED BY <1>2, <1>3, <1>4

LEMMA BitTwenty ==
    ASSUME NEW v \in Int
    PROVE  Bit(v, 20) = (v \div 1048576) % 2
<1> DEFINE M == 2^17
           T == 2^18
           H == 2^19
           N == 2^20
<1>1. M = 2^9 * 2^8 /\ T = 2 * M /\ H = 2 * T /\ N = 2 * H
    BY Powers, Zenon
<1>2. Bit(v, 20) = (v \div N) % 2
    BY Zenon DEF Bit
<1> HIDE DEF M, T, H, N
<1>3. N = 1048576
    <2>1. M = 131072
        BY <1>1
    <2> QED BY <1>1, <2>1
<1> QED BY <1>2, <1>3

LEMMA UTypeFields ==
    ASSUME NEW rd, NEW imm \in Int, -131072 <= imm, imm < 131072, imm % 4096 = 0
    PROVE  LET i == UType(rd, imm)
           IN  /\ i.opcode = "LUI" /\ i.rd = rd
               /\ u_imm(i) = imm
<1> DEFINE i == UType(rd, imm)
           u == imm \div 4096
           a == (u \div 8192) % 128
           b == (u \div 256) % 32
           c == (u \div 8) % 32
           d == u % 8
           z == a * 8192 + b * 256 + c * 8 + d
<1>1. u \in Int /\ -32 <= u /\ u < 32 /\ u * 4096 = imm
    OBVIOUS
<1>2. /\ i.opcode = "LUI" /\ i.rd = rd
      /\ i.funct7 = a /\ i.rs2 = b /\ i.rs1 = c /\ i.funct3 = d
    BY DEF UType, RType
<1> HIDE DEF u, i
<1>3. z = IF u >= 0 THEN u ELSE 1048576 + u
    <2>1. a = IF u >= 0 THEN 0 ELSE 127
        <3>1. u \div 8192 = IF u >= 0 THEN 0 ELSE -1
            BY <1>1
        <3> QED BY <3>1
    <2>2. b = IF u >= 0 THEN 0 ELSE 31
        <3>1. u \div 256 = IF u >= 0 THEN 0 ELSE -1
            BY <1>1
        <3> QED BY <3>1
    <2>3. c * 8 + d = IF u >= 0 THEN u ELSE 256 + u
        BY <1>1
    <2>4. c \in Int /\ d \in Int
        BY <1>1
    <2> HIDE DEF a, b, c, d
    <2> QED BY <1>1, <2>1, <2>2, <2>3, <2>4
<1>4. u_imm(i) = Signed(z, 20) * 4096
    BY <1>2 DEF u_imm
<1> HIDE DEF z
<1>5. z \in Int
    BY <1>1, <1>3
<1>6. Signed(z, 20) = u
    BY <1>1, <1>3, <1>5, SignedWide
<1> QED BY <1>1, <1>2, <1>4, <1>6 DEF i

LEMMA JTypeFields ==
    ASSUME NEW rd, NEW imm \in Int, -2048 <= imm, imm < 2048, imm % 2 = 0
    PROVE  LET i == JType(rd, imm)
           IN  /\ i.opcode = "JAL" /\ i.rd = rd
               /\ j_imm(i) = imm
<1> DEFINE i == JType(rd, imm)
           t == Bit(imm, 20)
           a == (imm \div 32768) % 32
           e == (imm \div 4096) % 8
           b == Bit(imm, 11)
           c == (imm \div 32) % 64
           d == (imm \div 2) % 16
           z == t * 1048576 + a * 32768 + e * 4096 + b * 2048 + c * 32 + d * 2
<1>1. /\ i.opcode = "JAL" /\ i.rd = rd /\ i.funct7 = t * 64 + c /\ i.rs2 = d * 2 + b
      /\ i.rs1 = a /\ i.funct3 = e
    BY DEF JType, RType
<1>2. b \in {0, 1} /\ c \in 0 .. 63 /\ d \in 0 .. 15
    BY DEF Bit
<1>3. imm % 4096 = b * 2048 + c * 32 + d * 2
    <2>1. imm % 4096 = SpreadOf(imm)
        BY Spread
    <2> QED BY <2>1 DEF SpreadOf
<1>4. imm % 4096 = IF imm < 0 THEN imm + 4096 ELSE imm
    OBVIOUS
<1>5. a = IF imm < 0 THEN 31 ELSE 0
    <2>1. imm \div 32768 = IF imm < 0 THEN -1 ELSE 0
        OBVIOUS
    <2> QED BY <2>1
<1>6. e = IF imm < 0 THEN 7 ELSE 0
    <2>1. imm \div 4096 = IF imm < 0 THEN -1 ELSE 0
        OBVIOUS
    <2> QED BY <2>1
<1>7. t = IF imm < 0 THEN 1 ELSE 0
    <2>1. imm \div 1048576 = IF imm < 0 THEN -1 ELSE 0
        OBVIOUS
    <2>2. t = (imm \div 1048576) % 2
        BY BitTwenty
    <2> QED BY <2>1, <2>2
<1>8. j_imm(i) = Signed(z, 21)
    <2>1. /\ (t * 64 + c) \div 64 = t /\ (t * 64 + c) % 64 = c
          /\ (d * 2 + b) % 2 = b /\ (d * 2 + b) \div 2 = d
        <3>1. t \in {0, 1}
            BY <1>7
        <3> HIDE DEF t, b, c, d
        <3> QED BY <1>2, <3>1, Halved
    <2> HIDE DEF i, t, a, b, c, d, e
    <2>2. i.funct7 \div 64 = t /\ i.funct7 % 64 = c /\ i.rs2 % 2 = b /\ i.rs2 \div 2 = d
        BY <1>1, <2>1
    <2> QED BY <1>1, <2>2 DEF j_imm
<1> HIDE DEF i, t, a, b, c, d, e
<1>9. z = IF imm < 0 THEN imm + 2097152 ELSE imm
    <2> DEFINE m == imm % 4096
    <2>1. m \in Int /\ b \in Int /\ c \in Int /\ d \in Int
        BY <1>2
    <2>2. m = b * 2048 + c * 32 + d * 2 /\ m = IF imm < 0 THEN imm + 4096 ELSE imm
        BY <1>3, <1>4
    <2> HIDE DEF m
    <2>3. t * 1048576 + a * 32768 + e * 4096 + m = IF imm < 0 THEN imm + 2097152 ELSE imm
        BY <1>5, <1>6, <1>7, <2>1, <2>2
    <2>4. z = t * 1048576 + a * 32768 + e * 4096 + m
        BY <1>5, <1>6, <1>7, <2>1, <2>2
    <2> QED BY <2>3, <2>4
<1> HIDE DEF z
<1>10. z \in Int
    BY <1>9
<1>11. Signed(z, 21) = imm
    BY <1>9, <1>10, SignedWide
<1> QED BY <1>1, <1>8, <1>11 DEF i

----------------------------------------------------------------------------
(* Registers.                                                              *)

\* The two decoders find the same registers and the same single bits.
LEMMA RegFields ==
    ASSUME NEW v \in Int
    PROVE  /\ r5(v, 7) = Reg(v, 7) /\ r5(v, 2) = Reg(v, 2)
           /\ r3(v, 7) = Reg3(v, 7) /\ r3(v, 2) = Reg3(v, 2)
           /\ Reg(v, 7) \in 0 .. 31 /\ Reg(v, 2) \in 0 .. 31
           /\ Reg3(v, 7) \in 1 .. 31 /\ Reg3(v, 2) \in 1 .. 31
BY DEF r5, r3, Reg, Reg3, binary_concat

\* The single bits and functs.
LEMMA BitFields ==
    ASSUME NEW v \in Int
    PROVE  /\ binary_concat(v, 12, 12, 0) = Bit(v, 12) /\ binary_concat(v, 11, 11, 0) = Bit(v, 11)
           /\ binary_concat(v, 10, 10, 0) = Bit(v, 10)
              /\ binary_concat(v, 6, 5, 0) = (v \div 32) % 4
           /\ (v \div 1024) % 4 = Bit(v, 10) + 2 * Bit(v, 11)
           /\ Bit(v, 10) \in {0, 1} /\ Bit(v, 11) \in {0, 1} /\ Bit(v, 12) \in {0, 1}
           /\ (v \div 32) % 4 \in 0 .. 3
<1>1. (v \div 1024) % 4 = Bit(v, 10) + 2 * Bit(v, 11)
    BY Fields
<1> QED BY <1>1 DEF binary_concat, Bit

----------------------------------------------------------------------------

\* A register holds a number of its width.
LEMMA RegisterRange ==
    ASSUME NEW s, Typed(s), NEW r \in 0 .. 31
    PROVE  /\ s.n \in Nat \ {0} /\ 2^s.n \in Nat \ {0}
           /\ s.x[r] \in 0 .. 2^s.n - 1 /\ s.x[r] % 2^s.n = s.x[r]
           /\ s.x[0] = 0
<1>1. s.n \in Nat \ {0} /\ 2^s.n \in Nat \ {0}
    BY Pow DEF Typed, TypedHart
<1>2. s.x[r] \in 0 .. 2^s.n - 1 /\ s.x[0] = 0
    BY DEF Typed, TypedHart
<1>3. s.x[r] % 2^s.n = s.x[r]
    BY <1>1, <1>2, Small
<1> QED BY <1>1, <1>2, <1>3

\* Writing a register with its own value changes nothing.
LEMMA setGPRSame ==
    ASSUME NEW s, Typed(s), NEW r \in 0 .. 31
    PROVE  setGPR(s, r, s.x[r]) = s
<1>1. s.x[r] % 2^s.n = s.x[r]
    BY RegisterRange
<1>2. s.x \in [0 .. 31 -> 0 .. 2^s.n - 1] /\ IsHart(s)
    BY DEF Typed, TypedHart
<1>3. [s EXCEPT !.x[r] = s.x[r]] = s
    <2>1. [s.x EXCEPT ![r] = s.x[r]] = s.x
        BY <1>2
    <2> QED BY <1>2, <2>1 DEF IsHart
<1> QED BY <1>1, <1>3 DEF setGPR

\* A register keeps only its width.
LEMMA setGPRMod ==
    ASSUME NEW s, NEW rd, NEW a, NEW b, a % 2^s.n = b % 2^s.n
    PROVE  setGPR(s, rd, a) = setGPR(s, rd, b)
BY DEF setGPR

\* Adding through alu_exec is adding.
LEMMA AddAlu ==
    ASSUME NEW s, Typed(s), NEW rd, NEW r \in 0 .. 31, NEW b \in Int
    PROVE  setGPR(s, rd, alu_exec(s.x[r], b % 2^s.n, "ADD", FALSE, s.n)) = setGPR(s, rd, s.x[r] + b)
<1> DEFINE n == s.n
           a == s.x[r]
           N == 2^n
           y == a + (b % N)
<1>1. n \in Nat \ {0} /\ N \in Nat \ {0} /\ a \in 0 .. N - 1
    BY RegisterRange
<1> HIDE DEF n, a, N
<1>2. b % N \in 0 .. N - 1 /\ b \div N \in Int /\ b = N * (b \div N) + (b % N)
    BY <1>1, DivMod
<1>3. y \in Int
    BY <1>1, <1>2
<1>4. alu_exec(a, b % N, "ADD", FALSE, n) = Extend(y, n, n)
    BY Zenon DEF alu_exec, AluResult
<1>5. Extend(y, n, n) = y % N
    BY <1>1, <1>3, ExtendFull, Zenon DEF N
<1> DEFINE q == b \div N
           m == b % N
<1>6. q \in Int /\ m \in Int /\ b = N * q + m /\ y = a + m /\ N \in Int /\ a \in Int
    BY <1>1, <1>2
<1> HIDE DEF q, m, y
<1>7. a + b = y + q * N
    BY <1>6
<1>8. (y + q * N) % N = y % N
    BY <1>1, <1>3, <1>6, ModShift
<1>9. y % N \in 0 .. N - 1
    BY <1>1, <1>3, DivMod
<1>10. (y % N) % N = y % N
    BY <1>1, <1>9, Small
<1>11. alu_exec(a, b % N, "ADD", FALSE, n) % N = (a + b) % N
    BY <1>4, <1>5, <1>7, <1>8, <1>10
<1>12. setGPR(s, rd, alu_exec(a, b % N, "ADD", FALSE, n)) = setGPR(s, rd, a + b)
    BY <1>11, setGPRMod, Zenon DEF N, n
<1> QED BY <1>12 DEF N, n, a

----------------------------------------------------------------------------
(* What the 32-bit instructions do that compressed ones stand for.         *)

\* A number of twelve bits, and an instruction that holds it.
Twelve(imm) == imm \in Int /\ -2048 <= imm /\ imm < 2048
IsImm(i, opcode, funct3, rd, rs1, imm) ==
    i.opcode = opcode /\ i.funct3 = funct3 /\ i.rd = rd /\ i.rs1 = rs1 /\ imm12(i) = imm

LEMMA ITypeIsImm ==
    ASSUME NEW opcode, NEW funct3, NEW rd, NEW rs1, NEW imm, Twelve(imm)
    PROVE  IsImm(IType(opcode, funct3, rd, rs1, imm), opcode, funct3, rd, rs1, imm)
<1>1. imm \in Int /\ -2048 <= imm /\ imm < 2048
    BY DEF Twelve
<1> DEFINE i == IType(opcode, funct3, rd, rs1, imm)
<1>2. i.opcode = opcode /\ i.funct3 = funct3 /\ i.rd = rd /\ i.rs1 = rs1 /\ imm12(i) = imm
    BY <1>1, ITypeFields
<1> HIDE DEF i
<1> QED BY <1>2 DEF i, IsImm

\* x[rd] = x[rs1] op b, and the sum of the same.
AluTo(s, rd, rs1, b, op, word) == setGPR(s, rd, alu_exec(s.x[rs1], b % 2^s.n, op, word, s.n))
AddTo(s, rd, rs1, b) == setGPR(s, rd, s.x[rs1] + b)

LEMMA AddIsAlu ==
    ASSUME NEW s, Typed(s), NEW rd, NEW rs1 \in 0 .. 31, NEW b \in Int
    PROVE  AluTo(s, rd, rs1, b, "ADD", FALSE) = AddTo(s, rd, rs1, b)
BY AddAlu DEF AluTo, AddTo

\* What ExecBase makes of an immediate operation that is no shift.
LEMMA ImmExec ==
    ASSUME NEW s, NEW i, NEW rd, NEW rs1, NEW imm, NEW word \in BOOLEAN, NEW funct3 \in {0, 7},
           IsImm(i, IF word THEN "OPIMM32" ELSE "OPIMM", funct3, rd, rs1, imm), word => funct3 = 0
    PROVE  ExecBase(s, i) = AluTo(s, rd, rs1, imm, IF funct3 = 0 THEN "ADD" ELSE "AND", word)
<1>1. /\ i.opcode = (IF word THEN "OPIMM32" ELSE "OPIMM") /\ i.funct3 = funct3 /\ i.rd = rd
      /\ i.rs1 = rs1 /\ imm12(i) = imm
    BY DEF IsImm
<1>2. ExecBase(s, i) = ExecOpImm(s, i, word)
    BY <1>1 DEF ExecBase
<1>3. Op(0, funct3) = IF funct3 = 0 THEN "ADD" ELSE "AND"
    BY DEF Op
<1>4. ExecOpImm(s, i, word) =
        setGPR(s, i.rd, alu_exec(s.x[i.rs1], imm12(i) % 2^s.n, Op(0, i.funct3), word, s.n))
    BY <1>1 DEF ExecOpImm
<1> QED BY <1>1, <1>2, <1>3, <1>4 DEF AluTo

LEMMA AddImmExec ==
    ASSUME NEW s, Typed(s), NEW rd \in 0 .. 31, NEW rs1 \in 0 .. 31, NEW imm, Twelve(imm)
    PROVE  ExecBase(s, IType("OPIMM", 0, rd, rs1, imm)) = AddTo(s, rd, rs1, imm)
<1> DEFINE i == IType("OPIMM", 0, rd, rs1, imm)
<1>1. IsImm(i, "OPIMM", 0, rd, rs1, imm)
    BY ITypeIsImm, Zenon
<1> HIDE DEF i
<1>2. IsImm(i, IF FALSE THEN "OPIMM32" ELSE "OPIMM", 0, rd, rs1, imm) /\ FALSE \in BOOLEAN
      /\ 0 \in {0, 7}
    BY <1>1
<1>3. ExecBase(s, i) = AluTo(s, rd, rs1, imm, IF 0 = 0 THEN "ADD" ELSE "AND", FALSE)
    BY <1>2, ImmExec, Zenon
<1>4. ExecBase(s, i) = AluTo(s, rd, rs1, imm, "ADD", FALSE)
    BY <1>3
<1>5. imm \in Int
    BY DEF Twelve
<1>6. ExecBase(s, i) = AddTo(s, rd, rs1, imm)
    BY <1>4, <1>5, AddIsAlu, Zenon
<1> QED BY <1>6 DEF i

\* The same of a register-register operation.
Encoded(f7, f3, op, word, opcode) ==
    /\ word \in BOOLEAN /\ opcode = (IF word THEN "OP32" ELSE "OP")
    /\ <<f7, f3>> = Encoding[op] /\ op \in {"ADD", "SUB", "XOR", "OR", "AND"}
    /\ word => op \in {"ADD", "SUB"}

RegTo(s, rd, rs1, rs2, op, word) == setGPR(s, rd, alu_exec(s.x[rs1], s.x[rs2], op, word, s.n))

\* A register operation.
LEMMA RegExec ==
    ASSUME NEW s, NEW rd, NEW rs1, NEW rs2, NEW f7, NEW f3, NEW op, NEW word, NEW opcode,
           Encoded(f7, f3, op, word, opcode)
    PROVE  ExecBase(s, RType(opcode, f7, f3, rd, rs1, rs2)) = RegTo(s, rd, rs1, rs2, op, word)
<1> DEFINE i == RType(opcode, f7, f3, rd, rs1, rs2)
<1>0. word \in BOOLEAN /\ opcode = (IF word THEN "OP32" ELSE "OP")
    BY DEF Encoded
<1>1. /\ i.opcode = (IF word THEN "OP32" ELSE "OP") /\ i.funct7 = f7 /\ i.funct3 = f3
      /\ i.rd = rd /\ i.rs1 = rs1 /\ i.rs2 = rs2
    BY <1>0 DEF RType
<1> HIDE DEF i
<1>2. ExecBase(s, i) = ExecOp(s, i, word)
    BY <1>0, <1>1, ExecOpOfBase
<1>3. Op(f7, f3) = op /\ op # "NOP" /\ (word => op \in WordOp)
    BY DEF Encoded, Encoding, Op, WordOp
<1>4. ExecOp(s, i, word) = setGPR(s, rd, alu_exec(s.x[rs1], s.x[rs2], op, word, s.n))
    BY <1>1, <1>3 DEF ExecOp
<1> QED BY <1>2, <1>4 DEF i, RegTo

----------------------------------------------------------------------------
(* Shifts.                                                                 *)

\* The fields of a shift, whose upper bits select the arithmetic one.
\* The shift amount, as it is and with the bit of the arithmetic shift.
ShiftImm(six) == {six, 1024 + six}
IsShift(i, funct3, rd, six, imm) ==
    /\ i.opcode = "OPIMM" /\ i.funct3 = funct3 /\ i.rd = rd /\ i.rs1 = rd
    /\ imm12(i) = imm /\ imm12(i) % 64 = six
    /\ i.funct7 \div 2 = IF imm = six THEN 0 ELSE 16
    /\ i.funct7 >= 32 <=> imm # six

\* The fields of a shift.
LEMMA ShiftFields ==
    ASSUME NEW funct3, NEW rd, NEW six \in 0 .. 63, NEW imm \in ShiftImm(six)
    PROVE  IsShift(IType("OPIMM", funct3, rd, rd, imm), funct3, rd, six, imm)
<1> DEFINE i == IType("OPIMM", funct3, rd, rd, imm)
<1>1. imm \in Int /\ -2048 <= imm /\ imm < 2048 /\ imm % 64 = six
    BY DEF ShiftImm
<1>2. i.funct7 = (imm \div 32) % 128
    BY DEF IType, RType
<1>3. i.funct7 \div 2 = (IF imm = six THEN 0 ELSE 16) /\ (i.funct7 >= 32 <=> imm # six)
    <2> DEFINE k == six \div 32
    <2>1. k \in {0, 1} /\ imm \div 32 = (IF imm = six THEN 0 ELSE 32) + k
        BY DEF ShiftImm
    <2> HIDE DEF i, k
    <2>2. i.funct7 = (IF imm = six THEN 0 ELSE 32) + k
        BY <1>2, <2>1
    <2> QED BY <2>1, <2>2
<1>4. IsImm(i, "OPIMM", funct3, rd, rd, imm)
    <2>1. Twelve(imm)
        BY <1>1 DEF Twelve
    <2> QED BY <2>1, ITypeIsImm
<1> HIDE DEF i
<1>5. imm12(i) % 64 = six
    BY <1>1, <1>4 DEF IsImm
<1> QED BY <1>3, <1>4, <1>5 DEF i, IsShift, IsImm

LEMMA SixMod ==
    ASSUME NEW s, Typed(s), NEW six \in 0 .. 63
    PROVE  six % 2^s.n = six
<1> DEFINE N == 2^s.n
           k == s.n - 6
<1>1. s.n \in Nat /\ s.n >= 6
    BY DEF Typed, TypedHart
<1>2. k \in Nat /\ 6 \in Nat /\ s.n = k + 6
    BY <1>1
<1>3. N = 2^k * 2^6 /\ 2^k \in Nat \ {0}
    <2>1. 2^(k + 6) = 2^k * 2^6
        BY <1>2, PowAdd, Zenon
    <2>2. 2^k \in Nat \ {0}
        BY <1>2, Pow, Zenon
    <2> QED BY <1>2, <2>1, <2>2, Zenon
<1>4. N \in Nat \ {0} /\ N >= 64
    <2> DEFINE K == 2^k
    <2>1. K \in Nat \ {0} /\ N = K * 64
        BY <1>3
    <2> HIDE DEF K, N
    <2> QED BY <2>1
<1> HIDE DEF N
<1>5. six % N = six
    BY <1>4
<1> QED BY <1>5 DEF N

\* A shift by zero leaves the register.
LEMMA ShiftZero ==
    ASSUME NEW s, Typed(s), NEW r \in 0 .. 31, NEW op \in {"SLL", "SRL", "SRA"}
    PROVE  setGPR(s, r, alu_exec(s.x[r], 0, op, FALSE, s.n)) = s
<1> DEFINE n == s.n
           a == s.x[r]
           N == 2^n
<1>1. n \in Nat \ {0} /\ N \in Nat \ {0} /\ a \in 0 .. N - 1 /\ a % N = a
    BY RegisterRange
<1>2. 0 % n = 0 /\ n - 0 = n /\ 2^0 = 1
    BY <1>1
<1>3. Signed(a, n) \in Int /\ Signed(a, n) % N = a
    BY <1>1, SignedRange, Halves
<1> DEFINE y == AluResult(a, 0, op, FALSE, n)
<1>4. y = IF op = "SLL" THEN ShiftLeft(a, 0 % n, n)
          ELSE IF op = "SRL" THEN ShiftRight(a, 0 % n) ELSE ShiftRight(Signed(a, n), 0 % n)
    BY DEF AluResult
<1>5. y \in Int /\ y % N = a
    <2> HIDE DEF n, N, a, y
    <2>1. ShiftLeft(a, 0, n) = a
        <3>1. ShiftLeft(a, 0, n) = (a % N) * 1
            BY <1>2 DEF ShiftLeft, N
        <3> QED BY <1>1, <3>1
    <2>2. ShiftRight(a, 0) = a
        <3>1. ShiftRight(a, 0) = a \div 1
            BY <1>2 DEF ShiftRight
        <3> QED BY <1>1, <3>1
    <2>3. ShiftRight(Signed(a, n), 0) = Signed(a, n)
        <3>1. ShiftRight(Signed(a, n), 0) = Signed(a, n) \div 1
            BY <1>2 DEF ShiftRight
        <3> QED BY <1>3, <3>1
    <2> QED BY <1>1, <1>2, <1>3, <1>4, <2>1, <2>2, <2>3
<1>6. alu_exec(a, 0, op, FALSE, n) = Extend(y, n, n)
    BY Zenon DEF alu_exec
<1> HIDE DEF y
<1>7. Extend(y, n, n) = a
    BY <1>1, <1>5, ExtendFull, Zenon
<1>8. setGPR(s, r, a) = s
    BY setGPRSame
<1> QED BY <1>6, <1>7, <1>8

\* What ExecBase makes of the three shifts.
LEMMA LeftExec ==
    ASSUME NEW s, NEW rd, NEW six \in 0 .. 63
    PROVE  ExecBase(s, IType("OPIMM", 1, rd, rd, six)) = Alu(s, rd, six, "SLL", FALSE)
<1> DEFINE i == IType("OPIMM", 1, rd, rd, six)
<1>1. IsShift(i, 1, rd, six, six)
    BY ShiftFields DEF ShiftImm
<1> HIDE DEF i
<1>2. i.opcode = "OPIMM" /\ i.funct3 = 1 /\ i.rd = rd /\ i.rs1 = rd /\ imm12(i) = six
    BY <1>1 DEF IsShift
<1>3. ExecBase(s, i) = ExecOpImm(s, i, FALSE)
    BY <1>2 DEF ExecBase
<1>4. ShiftOk(i, FALSE)
    BY <1>2 DEF ShiftOk
<1>5. Op(0, 1) = "SLL"
    BY DEF Op
<1>6. ExecOpImm(s, i, FALSE) =
        setGPR(s, i.rd, alu_exec(s.x[i.rs1], imm12(i) % 2^s.n, Op(0, i.funct3), FALSE, s.n))
    BY <1>2, <1>4 DEF ExecOpImm
<1> QED BY <1>2, <1>3, <1>5, <1>6 DEF i, Alu

LEMMA RightImm ==
    ASSUME NEW s, NEW i, NEW rd, NEW b,
           i.opcode = "OPIMM", i.funct3 = 5, i.rd = rd, i.rs1 = rd, ShiftOk(i, FALSE),
           imm12(i) % 64 = b % 2^s.n
    PROVE  ExecBase(s, i) = Alu(s, rd, b, IF i.funct7 >= 32 THEN "SRA" ELSE "SRL", FALSE)
<1> DEFINE low == imm12(i) % 64
           mod == b % 2^s.n
           op == IF i.funct7 >= 32 THEN "SRA" ELSE "SRL"
<1>1. ExecBase(s, i) = ExecOpImm(s, i, FALSE)
    BY DEF ExecBase
<1>2. ExecOpImm(s, i, FALSE) = setGPR(s, i.rd, alu_exec(s.x[i.rs1], low, op, FALSE, s.n))
    BY DEF ExecOpImm
<1>3. Alu(s, rd, b, op, FALSE) = setGPR(s, rd, alu_exec(s.x[rd], mod, op, FALSE, s.n))
    BY DEF Alu
<1>4. low = mod
    OBVIOUS
<1> HIDE DEF low, mod, op
<1>5. ExecBase(s, i) = Alu(s, rd, b, op, FALSE)
    BY <1>1, <1>2, <1>3, <1>4
<1> QED BY <1>5 DEF op

LEMMA RightExec ==
    ASSUME NEW s, Typed(s), NEW rd, NEW six \in 0 .. 63, NEW imm \in ShiftImm(six)
    PROVE  ExecBase(s, IType("OPIMM", 5, rd, rd, imm))
           = Alu(s, rd, six, IF imm = six THEN "SRL" ELSE "SRA", FALSE)
<1> DEFINE i == IType("OPIMM", 5, rd, rd, imm)
<1>1. IsShift(i, 5, rd, six, imm)
    BY ShiftFields
<1> HIDE DEF i
<1>2. /\ i.opcode = "OPIMM" /\ i.funct3 = 5 /\ i.rd = rd /\ i.rs1 = rd /\ imm12(i) % 64 = six
      /\ i.funct7 \div 2 \in {0, 16} /\ (i.funct7 >= 32 <=> imm # six)
    BY <1>1 DEF IsShift
<1>3. ShiftOk(i, FALSE)
    BY <1>2 DEF ShiftOk
<1>4. imm12(i) % 64 = six % 2^s.n
    BY <1>2, SixMod
<1>5. (IF i.funct7 >= 32 THEN "SRA" ELSE "SRL") = IF imm = six THEN "SRL" ELSE "SRA"
    BY <1>2
<1>6. ExecBase(s, i) = Alu(s, rd, six, IF i.funct7 >= 32 THEN "SRA" ELSE "SRL", FALSE)
    <2>1. i.opcode = "OPIMM" /\ i.funct3 = 5 /\ i.rd = rd /\ i.rs1 = rd
        BY <1>2
    <2> QED BY <1>3, <1>4, <2>1, RightImm, Zenon
<1> QED BY <1>5, <1>6 DEF i

\* The compressed shifts leave out a shift by zero.
LEMMA NonZeroShift ==
    ASSUME NEW s, Typed(s), NEW rd \in 0 .. 31, NEW six \in 0 .. 63, NEW op \in {"SLL", "SRL",
           "SRA"}
    PROVE  NonZero(six, s, Alu(s, rd, six, op, FALSE)) = Alu(s, rd, six, op, FALSE)
<1>1. CASE six = 0
    <2>1. six % 2^s.n = 0
        BY <1>1, SixMod
    <2>2. setGPR(s, rd, alu_exec(s.x[rd], 0, op, FALSE, s.n)) = s
        BY ShiftZero
    <2> QED BY <1>1, <2>1, <2>2 DEF NonZero, Alu
<1>2. CASE six # 0
    BY <1>2 DEF NonZero
<1> QED BY <1>1, <1>2

----------------------------------------------------------------------------
(* Loads, stores, jumps and branches.                                      *)

\* A load and a store of words and doublewords.
LEMMA LoadExec ==
    ASSUME NEW s, NEW rd, NEW rs1, NEW imm, Twelve(imm), NEW f3 \in {2, 3}
    PROVE  ExecBase(s, IType("LOAD", f3, rd, rs1, imm))
           = memRead(s, rd, Address(s, rs1, imm), IF f3 = 2 THEN 4 ELSE 8, FALSE)
<1> DEFINE i == IType("LOAD", f3, rd, rs1, imm)
<1>1. IsImm(i, "LOAD", f3, rd, rs1, imm)
    BY ITypeIsImm, Zenon
<1> HIDE DEF i
<1>2. i.opcode = "LOAD" /\ i.funct3 = f3 /\ i.rd = rd /\ i.rs1 = rs1 /\ imm12(i) = imm
    BY <1>1 DEF IsImm
<1>3. ExecBase(s, i) = ExecLoad(s, i)
    BY <1>2 DEF ExecBase
<1>4. 2^(f3 % 4) = (IF f3 = 2 THEN 4 ELSE 8) /\ (f3 >= 4) = FALSE /\ f3 # 7
    <2>1. CASE f3 = 2
        BY <2>1
    <2>2. CASE f3 = 3
        BY <2>2
    <2> QED BY <2>1, <2>2
<1>5. ExecLoad(s, i)
      = memRead(s, i.rd, Address(s, i.rs1, imm12(i)), 2^(i.funct3 % 4), i.funct3 >= 4)
    BY <1>2, <1>4 DEF ExecLoad
<1> DEFINE size == 2^(f3 % 4)
           unsigned == f3 >= 4
           bytes == IF f3 = 2 THEN 4 ELSE 8
<1>6. size = bytes /\ unsigned = FALSE
    BY <1>4
<1>7. ExecBase(s, i) = memRead(s, rd, Address(s, rs1, imm), size, unsigned)
    BY <1>2, <1>3, <1>5, Zenon
<1> HIDE DEF size, unsigned, bytes
<1>8. ExecBase(s, i) = memRead(s, rd, Address(s, rs1, imm), bytes, FALSE)
    BY <1>6, <1>7, Zenon
<1> QED BY <1>8 DEF i, bytes

LEMMA StoreExec ==
    ASSUME NEW s, NEW rs1, NEW rs2, NEW imm, Twelve(imm), NEW f3 \in {2, 3}
    PROVE  ExecBase(s, SType(f3, rs1, rs2, imm))
           = memWrite(s, Address(s, rs1, imm), IF f3 = 2 THEN 4 ELSE 8, s.x[rs2])
<1> DEFINE i == SType(f3, rs1, rs2, imm)
<1>1. imm \in Int /\ -2048 <= imm /\ imm < 2048
    BY DEF Twelve
<1>2. i.opcode = "STORE" /\ i.funct3 = f3 /\ i.rs1 = rs1 /\ i.rs2 = rs2 /\ s_imm(i) = imm
    BY <1>1, STypeFields
<1> HIDE DEF i
<1>3. ExecBase(s, i) = ExecStore(s, i)
    BY <1>2 DEF ExecBase
<1> DEFINE size == 2^f3
           bytes == IF f3 = 2 THEN 4 ELSE 8
<1>4. size = bytes /\ ~(f3 > 3)
    <2>1. CASE f3 = 2
        BY <2>1
    <2>2. CASE f3 = 3
        BY <2>2
    <2> QED BY <2>1, <2>2
<1>5. ExecStore(s, i) = memWrite(s, Address(s, i.rs1, s_imm(i)), 2^i.funct3, s.x[i.rs2])
    BY <1>2, <1>4 DEF ExecStore
<1>6. i.funct3 = f3 /\ i.rs1 = rs1 /\ i.rs2 = rs2 /\ s_imm(i) = imm
    BY <1>2
<1>7. ExecBase(s, i) = memWrite(s, Address(s, rs1, imm), size, s.x[rs2])
    BY <1>3, <1>5, <1>6, Zenon
<1> HIDE DEF size, bytes
<1>8. ExecBase(s, i) = memWrite(s, Address(s, rs1, imm), bytes, s.x[rs2])
    BY <1>4, <1>7, Zenon
<1> QED BY <1>8 DEF i, bytes

\* What stands for nothing is illegal.
LEMMA UndefinedExec ==
    ASSUME NEW s
    PROVE  ExecBase(s, Undefined) = Illegal(s)
BY DEF ExecBase, Undefined, RType

\* A jump by an even offset from an even pc is aligned.
LEMMA EvenTarget ==
    ASSUME NEW s, Typed(s), NEW imm \in Int, imm % 2 = 0
    PROVE  ((s.pc + imm) % 2^s.n) % 2 = 0
<1> DEFINE N == 2^s.n
           H == 2^(s.n - 1)
           y == s.pc + imm
           q == y \div N
           r == y % N
<1>1. s.n \in Nat \ {0} /\ s.pc \in 0 .. N - 1 /\ s.pc % 2 = 0
    BY DEF Typed, TypedHart, PC_ALIGN
<1>2. N \in Nat \ {0} /\ H \in Nat \ {0} /\ N = 2 * H
    BY <1>1, Halves
<1> HIDE DEF N, H
<1>3. y \in Int /\ y % 2 = 0
    BY <1>1, <1>2
<1> HIDE DEF y
<1>4. q \in Int /\ r \in 0 .. N - 1 /\ y = N * q + r
    BY <1>2, <1>3, DivMod
<1> HIDE DEF q, r
<1> DEFINE k == H * q
<1>5. k \in Int /\ N * q = 2 * k /\ r \in Int
    BY <1>2, <1>4
<1> HIDE DEF k
<1>6. y = 2 * k + r
    BY <1>4, <1>5
<1>7. r % 2 = 0
    BY <1>3, <1>5, <1>6
<1> QED BY <1>7 DEF r, y, N

LEMMA AlignedJump ==
    ASSUME NEW s, NEW target, target % 2 = 0, NEW link
    PROVE  JumpTo(s, target, 0, link) = [s EXCEPT !.npc = target]
BY DEF JumpTo, setGPR, PC_ALIGN

\* A jump without a link and a branch, whose targets are even.
LEMMA JumpExec ==
    ASSUME NEW s, Typed(s), NEW imm, Twelve(imm), imm % 2 = 0
    PROVE  ExecBase(s, JType(0, imm)) = Branch(s, imm)
<1> DEFINE i == JType(0, imm)
           target == (s.pc + imm) % 2^s.n
<1>1. imm \in Int /\ -2048 <= imm /\ imm < 2048
    BY DEF Twelve
<1>2. i.opcode = "JAL" /\ i.rd = 0 /\ j_imm(i) = imm
    BY <1>1, JTypeFields
<1> HIDE DEF i
<1>3. target % 2 = 0
    BY <1>1, EvenTarget
<1>4. ExecBase(s, i) = JumpTo(s, (s.pc + j_imm(i)) % 2^s.n, i.rd, s.pc + 4)
    BY <1>2 DEF ExecBase
<1>5. ExecBase(s, i) = JumpTo(s, target, 0, s.pc + 4)
    BY <1>2, <1>4, Zenon
<1>6. Branch(s, imm) = [s EXCEPT !.npc = target]
    BY DEF Branch
<1> HIDE DEF target
<1> QED BY <1>3, <1>5, <1>6, AlignedJump DEF i

LEMMA BranchExec ==
    ASSUME NEW s, Typed(s), NEW imm, Twelve(imm), imm % 2
           = 0, NEW rs1 \in 0 .. 31, NEW f3 \in {0, 1}
    PROVE  ExecBase(s, BType(f3, rs1, 0, imm))
           = IF (f3 = 0) = (s.x[rs1] = 0) THEN Branch(s, imm) ELSE s
<1> DEFINE i == BType(f3, rs1, 0, imm)
           target == (s.pc + imm) % 2^s.n
<1>1. imm \in Int /\ -2048 <= imm /\ imm < 2048
    BY DEF Twelve
<1>2. i.opcode = "BRANCH" /\ i.funct3 = f3 /\ i.rs1 = rs1 /\ i.rs2 = 0 /\ b_imm(i) = imm
    BY <1>1, BTypeFields
<1> HIDE DEF i
<1>3. target % 2 = 0
    BY <1>1, EvenTarget
<1>4. ExecBase(s, i) = ExecBranch(s, i)
    BY <1>2 DEF ExecBase
<1>5. s.x[0] = 0
    BY DEF Typed, TypedHart
<1>6. Taken(s, i) <=> ((f3 = 0) = (s.x[rs1] = 0))
    <2>1. CASE f3 = 0
        BY <1>2, <1>5, <2>1 DEF Taken
    <2>2. CASE f3 = 1
        BY <1>2, <1>5, <2>2 DEF Taken
    <2> QED BY <2>1, <2>2
<1>7. i.funct3 \notin {2, 3}
    BY <1>2
<1>8. ExecBranch(s, i) = IF Taken(s, i) THEN JumpTo(s, (s.pc + b_imm(i)) % 2^s.n, 0, 0) ELSE s
    BY <1>7, Zenon DEF ExecBranch
<1>9. b_imm(i) = imm
    BY <1>2
<1>10. ExecBase(s, i) = IF Taken(s, i) THEN JumpTo(s, target, 0, 0) ELSE s
    BY <1>4, <1>8, <1>9, Zenon
<1>11. Branch(s, imm) = [s EXCEPT !.npc = target]
    BY DEF Branch
<1> HIDE DEF target
<1>12. JumpTo(s, target, 0, 0) = Branch(s, imm)
    BY <1>3, <1>11, AlignedJump
<1> QED BY <1>6, <1>10, <1>12 DEF i

----------------------------------------------------------------------------
(* The decoding of compressed instructions.                                *)

\* Every immediate but that of c.lui has twelve bits.
LEMMA TwelveBits ==
    ASSUME NEW v \in Int
    PROVE  /\ Twelve(c_addi4spn_imm(v)) /\ Twelve(c_word_imm(v)) /\ Twelve(c_double_imm(v))
           /\ Twelve(c_uimm(v)) /\ Twelve(c_imm(v)) /\ Twelve(c_addi16sp_imm(v))
           /\ Twelve(c_j_imm(v)) /\ Twelve(c_b_imm(v)) /\ Twelve(c_lwsp_imm(v))
           /\ Twelve(c_ldsp_imm(v)) /\ Twelve(c_swsp_imm(v)) /\ Twelve(c_sdsp_imm(v))
<1>1. Twelve(c_addi4spn_imm(v))
    <2> DEFINE imm == c_addi4spn_imm(v)
    <2>1. imm \in 0 .. 1023
        BY SpnImm
    <2> HIDE DEF imm
    <2>2. imm \in Int /\ -2048 <= imm /\ imm < 2048
        BY <2>1
    <2> QED BY <2>2 DEF Twelve, imm
<1>2. Twelve(c_word_imm(v))
    BY WordImm DEF Twelve
<1>3. Twelve(c_double_imm(v))
    BY DoubleImm DEF Twelve
<1>4. Twelve(c_uimm(v))
    BY SixImm DEF Twelve
<1>5. Twelve(c_imm(v))
    BY ImmImm DEF Twelve
<1>6. Twelve(c_addi16sp_imm(v))
    BY SixteenImm DEF Twelve
<1>7. Twelve(c_j_imm(v))
    BY JumpImm DEF Twelve
<1>8. Twelve(c_b_imm(v))
    BY OffsetImm DEF Twelve
<1>9. Twelve(c_lwsp_imm(v))
    BY LwspImm DEF Twelve
<1>10. Twelve(c_ldsp_imm(v))
    <2> DEFINE imm == c_ldsp_imm(v)
    <2>1. imm \in 0 .. 511
        BY LdspImm
    <2> HIDE DEF imm
    <2>2. imm \in Int /\ -2048 <= imm /\ imm < 2048
        BY <2>1
    <2> QED BY <2>2 DEF Twelve, imm
<1>11. Twelve(c_swsp_imm(v))
    BY SwspImm DEF Twelve
<1>12. Twelve(c_sdsp_imm(v))
    <2> DEFINE imm == c_sdsp_imm(v)
    <2>1. imm \in 0 .. 511
        BY SdspImm
    <2> HIDE DEF imm
    <2>2. imm \in Int /\ -2048 <= imm /\ imm < 2048
        BY <2>1
    <2> QED BY <2>2 DEF Twelve, imm
<1> QED BY <1>1, <1>2, <1>3, <1>4, <1>5, <1>6, <1>7, <1>8, <1>9, <1>10, <1>11, <1>12

\* The quadrant and the upper three bits of v.
Code(v, q, f) == v \in Int /\ v % 4 = q /\ v \div 8192 = f

\* They select the operation.
LEMMA Opcodes ==
    ASSUME NEW v
    PROVE  /\ Code(v, 0, 0) => rvc_opcode(v) = "ADDI4SPN"
           /\ Code(v, 0, 1) => rvc_opcode(v) = "none"
           /\ Code(v, 0, 2) => rvc_opcode(v) = "LW"
           /\ Code(v, 0, 3) => rvc_opcode(v) = "LD"
           /\ Code(v, 0, 4) => rvc_opcode(v) = "none"
           /\ Code(v, 0, 5) => rvc_opcode(v) = "none"
           /\ Code(v, 0, 6) => rvc_opcode(v) = "SW"
           /\ Code(v, 0, 7) => rvc_opcode(v) = "SD"
           /\ Code(v, 1, 0) => rvc_opcode(v) = "ADDI"
           /\ Code(v, 1, 1) => rvc_opcode(v) = "ADDIW"
           /\ Code(v, 1, 2) => rvc_opcode(v) = "LI"
           /\ Code(v, 1, 3) => rvc_opcode(v) = "ADDI16SPN_LUI"
           /\ Code(v, 1, 4) => rvc_opcode(v) = "ALU"
           /\ Code(v, 1, 5) => rvc_opcode(v) = "J"
           /\ Code(v, 1, 6) => rvc_opcode(v) = "BEQZ"
           /\ Code(v, 1, 7) => rvc_opcode(v) = "BNEZ"
           /\ Code(v, 2, 0) => rvc_opcode(v) = "SLLI"
           /\ Code(v, 2, 1) => rvc_opcode(v) = "none"
           /\ Code(v, 2, 2) => rvc_opcode(v) = "LWSP"
           /\ Code(v, 2, 3) => rvc_opcode(v) = "LDSP"
           /\ Code(v, 2, 4) => rvc_opcode(v) = "JR_MV_EB_JALR_ADD"
           /\ Code(v, 2, 5) => rvc_opcode(v) = "none"
           /\ Code(v, 2, 6) => rvc_opcode(v) = "SWSP"
           /\ Code(v, 2, 7) => rvc_opcode(v) = "SDSP"
<1>1. Code(v, 0, 0) => rvc_opcode(v) = "ADDI4SPN"
    <2>1. Code(v, 0, 0) => (v % 4) * 8 + (v \div 8192) = 0
        BY DEF Code
    <2> QED BY <2>1 DEF rvc_opcode
<1>2. Code(v, 0, 1) => rvc_opcode(v) = "none"
    <2>1. Code(v, 0, 1) => (v % 4) * 8 + (v \div 8192) = 1
        BY DEF Code
    <2> QED BY <2>1 DEF rvc_opcode
<1>3. Code(v, 0, 2) => rvc_opcode(v) = "LW"
    <2>1. Code(v, 0, 2) => (v % 4) * 8 + (v \div 8192) = 2
        BY DEF Code
    <2> QED BY <2>1 DEF rvc_opcode
<1>4. Code(v, 0, 3) => rvc_opcode(v) = "LD"
    <2>1. Code(v, 0, 3) => (v % 4) * 8 + (v \div 8192) = 3
        BY DEF Code
    <2> QED BY <2>1 DEF rvc_opcode
<1>5. Code(v, 0, 4) => rvc_opcode(v) = "none"
    <2>1. Code(v, 0, 4) => (v % 4) * 8 + (v \div 8192) = 4
        BY DEF Code
    <2> QED BY <2>1 DEF rvc_opcode
<1>6. Code(v, 0, 5) => rvc_opcode(v) = "none"
    <2>1. Code(v, 0, 5) => (v % 4) * 8 + (v \div 8192) = 5
        BY DEF Code
    <2> QED BY <2>1 DEF rvc_opcode
<1>7. Code(v, 0, 6) => rvc_opcode(v) = "SW"
    <2>1. Code(v, 0, 6) => (v % 4) * 8 + (v \div 8192) = 6
        BY DEF Code
    <2> QED BY <2>1 DEF rvc_opcode
<1>8. Code(v, 0, 7) => rvc_opcode(v) = "SD"
    <2>1. Code(v, 0, 7) => (v % 4) * 8 + (v \div 8192) = 7
        BY DEF Code
    <2> QED BY <2>1 DEF rvc_opcode
<1>9. Code(v, 1, 0) => rvc_opcode(v) = "ADDI"
    <2>1. Code(v, 1, 0) => (v % 4) * 8 + (v \div 8192) = 8
        BY DEF Code
    <2> QED BY <2>1 DEF rvc_opcode
<1>10. Code(v, 1, 1) => rvc_opcode(v) = "ADDIW"
    <2>1. Code(v, 1, 1) => (v % 4) * 8 + (v \div 8192) = 9
        BY DEF Code
    <2> QED BY <2>1 DEF rvc_opcode
<1>11. Code(v, 1, 2) => rvc_opcode(v) = "LI"
    <2>1. Code(v, 1, 2) => (v % 4) * 8 + (v \div 8192) = 10
        BY DEF Code
    <2> QED BY <2>1 DEF rvc_opcode
<1>12. Code(v, 1, 3) => rvc_opcode(v) = "ADDI16SPN_LUI"
    <2>1. Code(v, 1, 3) => (v % 4) * 8 + (v \div 8192) = 11
        BY DEF Code
    <2> QED BY <2>1 DEF rvc_opcode
<1>13. Code(v, 1, 4) => rvc_opcode(v) = "ALU"
    <2>1. Code(v, 1, 4) => (v % 4) * 8 + (v \div 8192) = 12
        BY DEF Code
    <2> QED BY <2>1 DEF rvc_opcode
<1>14. Code(v, 1, 5) => rvc_opcode(v) = "J"
    <2>1. Code(v, 1, 5) => (v % 4) * 8 + (v \div 8192) = 13
        BY DEF Code
    <2> QED BY <2>1 DEF rvc_opcode
<1>15. Code(v, 1, 6) => rvc_opcode(v) = "BEQZ"
    <2>1. Code(v, 1, 6) => (v % 4) * 8 + (v \div 8192) = 14
        BY DEF Code
    <2> QED BY <2>1 DEF rvc_opcode
<1>16. Code(v, 1, 7) => rvc_opcode(v) = "BNEZ"
    <2>1. Code(v, 1, 7) => (v % 4) * 8 + (v \div 8192) = 15
        BY DEF Code
    <2> QED BY <2>1 DEF rvc_opcode
<1>17. Code(v, 2, 0) => rvc_opcode(v) = "SLLI"
    <2>1. Code(v, 2, 0) => (v % 4) * 8 + (v \div 8192) = 16
        BY DEF Code
    <2> QED BY <2>1 DEF rvc_opcode
<1>18. Code(v, 2, 1) => rvc_opcode(v) = "none"
    <2>1. Code(v, 2, 1) => (v % 4) * 8 + (v \div 8192) = 17
        BY DEF Code
    <2> QED BY <2>1 DEF rvc_opcode
<1>19. Code(v, 2, 2) => rvc_opcode(v) = "LWSP"
    <2>1. Code(v, 2, 2) => (v % 4) * 8 + (v \div 8192) = 18
        BY DEF Code
    <2> QED BY <2>1 DEF rvc_opcode
<1>20. Code(v, 2, 3) => rvc_opcode(v) = "LDSP"
    <2>1. Code(v, 2, 3) => (v % 4) * 8 + (v \div 8192) = 19
        BY DEF Code
    <2> QED BY <2>1 DEF rvc_opcode
<1>21. Code(v, 2, 4) => rvc_opcode(v) = "JR_MV_EB_JALR_ADD"
    <2>1. Code(v, 2, 4) => (v % 4) * 8 + (v \div 8192) = 20
        BY DEF Code
    <2> QED BY <2>1 DEF rvc_opcode
<1>22. Code(v, 2, 5) => rvc_opcode(v) = "none"
    <2>1. Code(v, 2, 5) => (v % 4) * 8 + (v \div 8192) = 21
        BY DEF Code
    <2> QED BY <2>1 DEF rvc_opcode
<1>23. Code(v, 2, 6) => rvc_opcode(v) = "SWSP"
    <2>1. Code(v, 2, 6) => (v % 4) * 8 + (v \div 8192) = 22
        BY DEF Code
    <2> QED BY <2>1 DEF rvc_opcode
<1>24. Code(v, 2, 7) => rvc_opcode(v) = "SDSP"
    <2>1. Code(v, 2, 7) => (v % 4) * 8 + (v \div 8192) = 23
        BY DEF Code
    <2> QED BY <2>1 DEF rvc_opcode
<1> QED BY <1>1, <1>2, <1>3, <1>4, <1>5, <1>6, <1>7, <1>8, <1>9, <1>10, <1>11, <1>12, <1>13, <1>14,
           <1>15, <1>16, <1>17, <1>18, <1>19, <1>20, <1>21, <1>22, <1>23, <1>24

\* What the compressed instructions stand for, with the immediates the core decodes.
LEMMA Expand0 ==
    ASSUME NEW v, NEW f, Code(v, 0, f)
    PROVE  Expand(v) =
             CASE f = 0 /\ c_addi4spn_imm(v) # 0
                    -> IType("OPIMM", 0, Reg3(v, 2), 2, c_addi4spn_imm(v))
               [] f = 2 -> IType("LOAD", 2, Reg3(v, 2), Reg3(v, 7), c_word_imm(v))
               [] f = 3 -> IType("LOAD", 3, Reg3(v, 2), Reg3(v, 7), c_double_imm(v))
               [] f = 6 -> SType(2, Reg3(v, 7), Reg3(v, 2), c_word_imm(v))
               [] f = 7 -> SType(3, Reg3(v, 7), Reg3(v, 2), c_double_imm(v))
               [] OTHER -> Undefined
<1> DEFINE spn == Scatter(v, 12, <<5, 4, 9, 8, 7, 6, 2, 3>>)
           word == Scatter(v, 12, <<5, 4, 3>>) + Scatter(v, 6, <<2, 6>>)
           double == Scatter(v, 12, <<5, 4, 3>>) + Scatter(v, 6, <<7, 6>>)
<1>1. v \in Int /\ v % 4 = 0 /\ v \div 8192 = f
    BY DEF Code
<1>2. c_addi4spn_imm(v) = spn
    BY <1>1, SpnImm
<1>3. c_word_imm(v) = word
    BY <1>1, WordImm
<1>4. c_double_imm(v) = double
    BY <1>1, DoubleImm
<1>5. Expand(v) = Quadrant0(v)
    BY <1>1 DEF Expand
<1>6. Quadrant0(v) =
        LET g == v \div 8192
        IN  CASE g = 0 /\ spn # 0 -> IType("OPIMM", 0, Reg3(v, 2), 2, spn)
              [] g = 2 -> IType("LOAD", 2, Reg3(v, 2), Reg3(v, 7), word)
              [] g = 3 -> IType("LOAD", 3, Reg3(v, 2), Reg3(v, 7), double)
              [] g = 6 -> SType(2, Reg3(v, 7), Reg3(v, 2), word)
              [] g = 7 -> SType(3, Reg3(v, 7), Reg3(v, 2), double)
              [] OTHER -> Undefined
    BY DEF Quadrant0
<1> HIDE DEF spn, word, double
<1> QED BY <1>1, <1>2, <1>3, <1>4, <1>5, <1>6

\* The same of the second quadrant, and of the third.
LEMMA Expand1 ==
    ASSUME NEW v, NEW f, Code(v, 1, f)
    PROVE  Expand(v) =
             LET rd == Reg(v, 7)
                 rd3 == Reg3(v, 7)
                 rs3 == Reg3(v, 2)
                 f2 == (v \div 1024) % 4
                 arith == <<Bit(v, 12), (v \div 32) % 4>>
             IN  CASE f = 0 -> IType("OPIMM", 0, rd, rd, c_imm(v))
                   [] f = 1 -> IType("OPIMM32", 0, rd, rd, c_imm(v))
                   [] f = 2 -> IType("OPIMM", 0, rd, 0, c_imm(v))
                   [] f = 3 /\ rd = 2 -> IType("OPIMM", 0, 2, 2, c_addi16sp_imm(v))
                   [] f = 3 /\ rd # 2 -> UType(rd, c_lui_imm(v))
                   [] f = 4 /\ f2 = 0 -> IType("OPIMM", 5, rd3, rd3, c_uimm(v))
                   [] f = 4 /\ f2 = 1 -> IType("OPIMM", 5, rd3, rd3, 1024 + c_uimm(v))
                   [] f = 4 /\ f2 = 2 -> IType("OPIMM", 7, rd3, rd3, c_imm(v))
                   [] f = 4 /\ f2 = 3 /\ arith = <<0, 0>> -> RType("OP", 32, 0, rd3, rd3, rs3)
                   [] f = 4 /\ f2 = 3 /\ arith = <<0, 1>> -> RType("OP", 0, 4, rd3, rd3, rs3)
                   [] f = 4 /\ f2 = 3 /\ arith = <<0, 2>> -> RType("OP", 0, 6, rd3, rd3, rs3)
                   [] f = 4 /\ f2 = 3 /\ arith = <<0, 3>> -> RType("OP", 0, 7, rd3, rd3, rs3)
                   [] f = 4 /\ f2 = 3 /\ arith = <<1, 0>> -> RType("OP32", 32, 0, rd3, rd3, rs3)
                   [] f = 4 /\ f2 = 3 /\ arith = <<1, 1>> -> RType("OP32", 0, 0, rd3, rd3, rs3)
                   [] f = 5 -> JType(0, c_j_imm(v))
                   [] f = 6 -> BType(0, rd3, 0, c_b_imm(v))
                   [] f = 7 -> BType(1, rd3, 0, c_b_imm(v))
                   [] OTHER -> Undefined
<1> DEFINE six == Scatter(v, 12, <<5>>) + Scatter(v, 6, <<4, 3, 2, 1, 0>>)
           imm == SInt(six, 6)
           sixteen == SInt(Scatter(v, 12, <<9>>) + Scatter(v, 6, <<4, 6, 8, 7, 5>>), 10)
           upper == SInt(Scatter(v, 12, <<17>>) + Scatter(v, 6, <<16, 15, 14, 13, 12>>), 18)
           jump == SInt(Scatter(v, 12, <<11, 4, 9, 8, 10, 6, 7, 3, 2, 1, 5>>), 12)
           branch == SInt(Scatter(v, 12, <<8, 4, 3>>) + Scatter(v, 6, <<7, 6, 2, 1, 5>>), 9)
<1>1. v \in Int /\ v % 4 = 1 /\ v \div 8192 = f
    BY DEF Code
<1>2. c_uimm(v) = six
    BY <1>1, SixImm
<1>3. c_imm(v) = imm
    BY <1>1, ImmImm
<1>4. c_addi16sp_imm(v) = sixteen
    BY <1>1, SixteenImm
<1>5. c_lui_imm(v) = upper
    BY <1>1, UpperImm
<1>6. c_j_imm(v) = jump
    BY <1>1, JumpImm
<1>7. c_b_imm(v) = branch
    BY <1>1, OffsetImm
<1>8. Expand(v) = Quadrant1(v)
    BY <1>1 DEF Expand
<1> DEFINE rd == Reg(v, 7)
           rd3 == Reg3(v, 7)
           rs3 == Reg3(v, 2)
           f2 == (v \div 1024) % 4
           arith == <<Bit(v, 12), (v \div 32) % 4>>
<1>9. Quadrant1(v) =
        LET g == v \div 8192
        IN  CASE g = 0 -> IType("OPIMM", 0, rd, rd, imm)
              [] g = 1 -> IType("OPIMM32", 0, rd, rd, imm)
              [] g = 2 -> IType("OPIMM", 0, rd, 0, imm)
              [] g = 3 /\ rd = 2 -> IType("OPIMM", 0, 2, 2, sixteen)
              [] g = 3 /\ rd # 2 -> UType(rd, upper)
              [] g = 4 /\ f2 = 0 -> IType("OPIMM", 5, rd3, rd3, six)
              [] g = 4 /\ f2 = 1 -> IType("OPIMM", 5, rd3, rd3, 1024 + six)
              [] g = 4 /\ f2 = 2 -> IType("OPIMM", 7, rd3, rd3, imm)
              [] g = 4 /\ f2 = 3 /\ arith = <<0, 0>> -> RType("OP", 32, 0, rd3, rd3, rs3)
              [] g = 4 /\ f2 = 3 /\ arith = <<0, 1>> -> RType("OP", 0, 4, rd3, rd3, rs3)
              [] g = 4 /\ f2 = 3 /\ arith = <<0, 2>> -> RType("OP", 0, 6, rd3, rd3, rs3)
              [] g = 4 /\ f2 = 3 /\ arith = <<0, 3>> -> RType("OP", 0, 7, rd3, rd3, rs3)
              [] g = 4 /\ f2 = 3 /\ arith = <<1, 0>> -> RType("OP32", 32, 0, rd3, rd3, rs3)
              [] g = 4 /\ f2 = 3 /\ arith = <<1, 1>> -> RType("OP32", 0, 0, rd3, rd3, rs3)
              [] g = 5 -> JType(0, jump)
              [] g = 6 -> BType(0, rd3, 0, branch)
              [] g = 7 -> BType(1, rd3, 0, branch)
              [] OTHER -> Undefined
    BY DEF Quadrant1
<1> HIDE DEF six, imm, sixteen, upper, jump, branch
<1> QED BY <1>1, <1>2, <1>3, <1>4, <1>5, <1>6, <1>7, <1>8, <1>9

LEMMA Expand2 ==
    ASSUME NEW v, NEW f, Code(v, 2, f)
    PROVE  Expand(v) =
             LET rd == Reg(v, 7)
                 rs2 == Reg(v, 2)
                 link == Bit(v, 12)
             IN  CASE f = 0 -> IType("OPIMM", 1, rd, rd, c_uimm(v))
                   [] f = 2 -> IType("LOAD", 2, rd, 2, c_lwsp_imm(v))
                   [] f = 3 -> IType("LOAD", 3, rd, 2, c_ldsp_imm(v))
                   [] f = 4 /\ rs2 # 0 -> RType("OP", 0, 0, rd, IF link = 1 THEN rd ELSE 0, rs2)
                   [] f = 4 /\ rs2 = 0 /\ rd # 0 -> IType("JALR", 0, link, rd, 0)
                   [] f = 4 /\ rs2 = 0 /\ rd = 0 /\ link = 1 -> IType("SYSTEM", 0, 0, 0, 1)
                   [] f = 6 -> SType(2, 2, rs2, c_swsp_imm(v))
                   [] f = 7 -> SType(3, 2, rs2, c_sdsp_imm(v))
                   [] OTHER -> Undefined
<1> DEFINE six == Scatter(v, 12, <<5>>) + Scatter(v, 6, <<4, 3, 2, 1, 0>>)
           lw == Scatter(v, 12, <<5>>) + Scatter(v, 6, <<4, 3, 2, 7, 6>>)
           ld == Scatter(v, 12, <<5>>) + Scatter(v, 6, <<4, 3, 8, 7, 6>>)
           sw == Scatter(v, 12, <<5, 4, 3, 2, 7, 6>>)
           sd == Scatter(v, 12, <<5, 4, 3, 8, 7, 6>>)
           rd == Reg(v, 7)
           rs2 == Reg(v, 2)
           link == Bit(v, 12)
<1>1. v \in Int /\ v % 4 = 2 /\ v \div 8192 = f
    BY DEF Code
<1>2. c_uimm(v) = six
    BY <1>1, SixImm
<1>3. c_lwsp_imm(v) = lw
    BY <1>1, LwspImm
<1>4. c_ldsp_imm(v) = ld
    BY <1>1, LdspImm
<1>5. c_swsp_imm(v) = sw
    BY <1>1, SwspImm
<1>6. c_sdsp_imm(v) = sd
    BY <1>1, SdspImm
<1>7. Expand(v) = Quadrant2(v)
    BY <1>1 DEF Expand
<1>8. Quadrant2(v) =
        LET g == v \div 8192
        IN  CASE g = 0 -> IType("OPIMM", 1, rd, rd, six)
              [] g = 2 -> IType("LOAD", 2, rd, 2, lw)
              [] g = 3 -> IType("LOAD", 3, rd, 2, ld)
              [] g = 4 /\ rs2 # 0 -> RType("OP", 0, 0, rd, IF link = 1 THEN rd ELSE 0, rs2)
              [] g = 4 /\ rs2 = 0 /\ rd # 0 -> IType("JALR", 0, link, rd, 0)
              [] g = 4 /\ rs2 = 0 /\ rd = 0 /\ link = 1 -> IType("SYSTEM", 0, 0, 0, 1)
              [] g = 6 -> SType(2, 2, rs2, sw)
              [] g = 7 -> SType(3, 2, rs2, sd)
              [] OTHER -> Undefined
    BY DEF Quadrant2
<1> HIDE DEF six, lw, ld, sw, sd
<1> QED BY <1>1, <1>2, <1>3, <1>4, <1>5, <1>6, <1>7, <1>8

----------------------------------------------------------------------------
(* The two executions agree, instruction by instruction.                   *)

\* The two executions of a compressed instruction agree, but for its link.
Agrees(s, v) == ExecRvc(s, v) = ExecBase(s, Expand(v))

\* The registers a compressed instruction names.
Named(v) ==
    /\ r5(v, 7) = Reg(v, 7) /\ r5(v, 2) = Reg(v, 2) /\ r3(v, 7) = Reg3(v, 7)
       /\ r3(v, 2) = Reg3(v, 2)
    /\ Reg(v, 7) \in 0 .. 31 /\ Reg(v, 2) \in 0 .. 31 /\ Reg3(v, 7) \in 0 .. 31
       /\ Reg3(v, 2) \in 0 .. 31
    /\ 0 \in 0 .. 31 /\ 1 \in 0 .. 31 /\ 2 \in 0 .. 31

\* They are registers.
LEMMA CodeNamed ==
    ASSUME NEW v, NEW q, NEW f, Code(v, q, f)
    PROVE  Named(v) /\ v \in Int
<1>1. v \in Int
    BY DEF Code
<1> QED BY <1>1, RegFields DEF Named

\* Codes without an instruction.
LEMMA NoneAgrees ==
    ASSUME NEW s, NEW v, rvc_opcode(v) = "none", Expand(v) = Undefined
    PROVE  Agrees(s, v)
<1>1. ExecRvc(s, v) = Illegal(s)
    BY DEF ExecRvc
<1> QED BY <1>1, UndefinedExec DEF Agrees

----------------------------------------------------------------------------
(* Loads and stores.                                                       *)

LEMMA LoadAgrees ==
    ASSUME NEW s, NEW v, NEW rd, NEW rs1, NEW imm, Twelve(imm)
    PROVE  /\ /\ ExecRvc(s, v) = memRead(s, rd, Address(s, rs1, imm), 4, FALSE)
              /\ Expand(v) = IType("LOAD", 2, rd, rs1, imm)
              => Agrees(s, v)
           /\ /\ ExecRvc(s, v) = memRead(s, rd, Address(s, rs1, imm), 8, FALSE)
              /\ Expand(v) = IType("LOAD", 3, rd, rs1, imm)
              => Agrees(s, v)
<1>1. ExecBase(s, IType("LOAD", 2, rd, rs1, imm)) = memRead(s, rd, Address(s, rs1, imm), 4, FALSE)
    BY LoadExec
<1>2. ExecBase(s, IType("LOAD", 3, rd, rs1, imm)) = memRead(s, rd, Address(s, rs1, imm), 8, FALSE)
    BY LoadExec
<1> QED BY <1>1, <1>2, Zenon DEF Agrees

LEMMA StoreAgrees ==
    ASSUME NEW s, NEW v, NEW rs1, NEW rs2, NEW imm, Twelve(imm)
    PROVE  /\ /\ ExecRvc(s, v) = memWrite(s, Address(s, rs1, imm), 4, s.x[rs2])
              /\ Expand(v) = SType(2, rs1, rs2, imm)
              => Agrees(s, v)
           /\ /\ ExecRvc(s, v) = memWrite(s, Address(s, rs1, imm), 8, s.x[rs2])
              /\ Expand(v) = SType(3, rs1, rs2, imm)
              => Agrees(s, v)
<1>1. ExecBase(s, SType(2, rs1, rs2, imm)) = memWrite(s, Address(s, rs1, imm), 4, s.x[rs2])
    BY StoreExec
<1>2. ExecBase(s, SType(3, rs1, rs2, imm)) = memWrite(s, Address(s, rs1, imm), 8, s.x[rs2])
    BY StoreExec
<1> QED BY <1>1, <1>2, Zenon DEF Agrees

\* All loads, then all stores.
LEMMA LoadsAgree ==
    ASSUME NEW s, NEW v,
           Code(v, 0, 2) \/ Code(v, 0, 3) \/ Code(v, 2, 2) \/ Code(v, 2, 3)
    PROVE  Agrees(s, v)
<1>1. Named(v) /\ v \in Int
    BY CodeNamed
<1>2. CASE Code(v, 0, 2)
    <2>1. rvc_opcode(v) = "LW"
        BY <1>2, Opcodes
    <2>2. ExecRvc(s, v) = memRead(s, Reg3(v, 2), Address(s, Reg3(v, 7), c_word_imm(v)), 4, FALSE)
        BY <1>1, <2>1 DEF ExecRvc, Named, Address
    <2>3. Expand(v) = IType("LOAD", 2, Reg3(v, 2), Reg3(v, 7), c_word_imm(v))
        BY <1>2, Expand0
    <2>4. Twelve(c_word_imm(v))
        BY <1>1, TwelveBits
    <2> QED BY <2>2, <2>3, <2>4, LoadAgrees, Zenon
<1>3. CASE Code(v, 0, 3)
    <2>1. rvc_opcode(v) = "LD"
        BY <1>3, Opcodes
    <2>2. ExecRvc(s, v) = memRead(s, Reg3(v, 2), Address(s, Reg3(v, 7), c_double_imm(v)), 8, FALSE)
        BY <1>1, <2>1 DEF ExecRvc, Named, Address
    <2>3. Expand(v) = IType("LOAD", 3, Reg3(v, 2), Reg3(v, 7), c_double_imm(v))
        BY <1>3, Expand0
    <2>4. Twelve(c_double_imm(v))
        BY <1>1, TwelveBits
    <2> QED BY <2>2, <2>3, <2>4, LoadAgrees, Zenon
<1>4. CASE Code(v, 2, 2)
    <2>1. rvc_opcode(v) = "LWSP"
        BY <1>4, Opcodes
    <2>2. ExecRvc(s, v) = memRead(s, Reg(v, 7), Address(s, 2, c_lwsp_imm(v)), 4, FALSE)
        BY <1>1, <2>1 DEF ExecRvc, Named, Address
    <2>3. Expand(v) = IType("LOAD", 2, Reg(v, 7), 2, c_lwsp_imm(v))
        BY <1>4, Expand2
    <2>4. Twelve(c_lwsp_imm(v))
        BY <1>1, TwelveBits
    <2> QED BY <2>2, <2>3, <2>4, LoadAgrees, Zenon
<1>5. CASE Code(v, 2, 3)
    <2>1. rvc_opcode(v) = "LDSP"
        BY <1>5, Opcodes
    <2>2. ExecRvc(s, v) = memRead(s, Reg(v, 7), Address(s, 2, c_ldsp_imm(v)), 8, FALSE)
        BY <1>1, <2>1 DEF ExecRvc, Named, Address
    <2>3. Expand(v) = IType("LOAD", 3, Reg(v, 7), 2, c_ldsp_imm(v))
        BY <1>5, Expand2
    <2>4. Twelve(c_ldsp_imm(v))
        BY <1>1, TwelveBits
    <2> QED BY <2>2, <2>3, <2>4, LoadAgrees, Zenon
<1> QED BY <1>2, <1>3, <1>4, <1>5

LEMMA StoresAgree ==
    ASSUME NEW s, NEW v,
           Code(v, 0, 6) \/ Code(v, 0, 7) \/ Code(v, 2, 6) \/ Code(v, 2, 7)
    PROVE  Agrees(s, v)
<1>1. Named(v) /\ v \in Int
    BY CodeNamed
<1>2. CASE Code(v, 0, 6)
    <2>1. rvc_opcode(v) = "SW"
        BY <1>2, Opcodes
    <2>2. ExecRvc(s, v) = memWrite(s, Address(s, Reg3(v, 7), c_word_imm(v)), 4, s.x[Reg3(v, 2)])
        BY <1>1, <2>1 DEF ExecRvc, Named, Address
    <2>3. Expand(v) = SType(2, Reg3(v, 7), Reg3(v, 2), c_word_imm(v))
        BY <1>2, Expand0
    <2>4. Twelve(c_word_imm(v))
        BY <1>1, TwelveBits
    <2> QED BY <2>2, <2>3, <2>4, StoreAgrees, Zenon
<1>3. CASE Code(v, 0, 7)
    <2>1. rvc_opcode(v) = "SD"
        BY <1>3, Opcodes
    <2>2. ExecRvc(s, v) = memWrite(s, Address(s, Reg3(v, 7), c_double_imm(v)), 8, s.x[Reg3(v, 2)])
        BY <1>1, <2>1 DEF ExecRvc, Named, Address
    <2>3. Expand(v) = SType(3, Reg3(v, 7), Reg3(v, 2), c_double_imm(v))
        BY <1>3, Expand0
    <2>4. Twelve(c_double_imm(v))
        BY <1>1, TwelveBits
    <2> QED BY <2>2, <2>3, <2>4, StoreAgrees, Zenon
<1>4. CASE Code(v, 2, 6)
    <2>1. rvc_opcode(v) = "SWSP"
        BY <1>4, Opcodes
    <2>2. ExecRvc(s, v) = memWrite(s, Address(s, 2, c_swsp_imm(v)), 4, s.x[Reg(v, 2)])
        BY <1>1, <2>1 DEF ExecRvc, Named, Address
    <2>3. Expand(v) = SType(2, 2, Reg(v, 2), c_swsp_imm(v))
        BY <1>4, Expand2
    <2>4. Twelve(c_swsp_imm(v))
        BY <1>1, TwelveBits
    <2> QED BY <2>2, <2>3, <2>4, StoreAgrees, Zenon
<1>5. CASE Code(v, 2, 7)
    <2>1. rvc_opcode(v) = "SDSP"
        BY <1>5, Opcodes
    <2>2. ExecRvc(s, v) = memWrite(s, Address(s, 2, c_sdsp_imm(v)), 8, s.x[Reg(v, 2)])
        BY <1>1, <2>1 DEF ExecRvc, Named, Address
    <2>3. Expand(v) = SType(3, 2, Reg(v, 2), c_sdsp_imm(v))
        BY <1>5, Expand2
    <2>4. Twelve(c_sdsp_imm(v))
        BY <1>1, TwelveBits
    <2> QED BY <2>2, <2>3, <2>4, StoreAgrees, Zenon
<1> QED BY <1>2, <1>3, <1>4, <1>5

----------------------------------------------------------------------------
(* Immediates.                                                             *)

\* Adding nothing leaves the register.
LEMMA AddNothing ==
    ASSUME NEW s, Typed(s), NEW rd \in 0 .. 31, NEW imm, Twelve(imm)
    PROVE  NonZero(imm, s, AddTo(s, rd, rd, imm)) = AddTo(s, rd, rd, imm)
<1>1. CASE imm = 0
    <2>1. s.x[rd] + 0 = s.x[rd]
        BY RegisterRange
    <2> QED BY <1>1, <2>1, setGPRSame DEF NonZero, AddTo
<1>2. CASE imm # 0
    BY <1>2 DEF NonZero
<1> QED BY <1>1, <1>2

\* A register operation of the compressed instructions on an immediate.
LEMMA AluIsAluTo ==
    ASSUME NEW s, NEW rd, NEW b, NEW op, NEW word
    PROVE  Alu(s, rd, b, op, word) = AluTo(s, rd, rd, b, op, word)
BY Zenon DEF Alu, AluTo

\* c.addi4spn, whose zero is illegal.
LEMMA SpnAgrees ==
    ASSUME NEW s, Typed(s), NEW v, Code(v, 0, 0)
    PROVE  Agrees(s, v)
<1> DEFINE imm == c_addi4spn_imm(v)
           rd == Reg3(v, 2)
<1>1. Named(v) /\ v \in Int
    BY CodeNamed
<1>2. rvc_opcode(v) = "ADDI4SPN"
    BY Opcodes
<1>3. ExecRvc(s, v) = IF imm = 0 THEN Illegal(s) ELSE AddTo(s, rd, 2, imm)
    BY <1>1, <1>2 DEF ExecRvc, Named, AddTo
<1>4. Expand(v) = IF imm = 0 THEN Undefined ELSE IType("OPIMM", 0, rd, 2, imm)
    BY Expand0
<1>5. Twelve(imm) /\ rd \in 0 .. 31 /\ 2 \in 0 .. 31
    BY <1>1, TwelveBits DEF Named
<1> HIDE DEF imm, rd
<1>6. ExecBase(s, IType("OPIMM", 0, rd, 2, imm)) = AddTo(s, rd, 2, imm)
    BY <1>5, AddImmExec, Zenon
<1> QED BY <1>3, <1>4, <1>6, UndefinedExec DEF Agrees

\* c.addi and c.addiw, of a zero immediate too.
LEMMA AddiAgrees ==
    ASSUME NEW s, Typed(s), NEW v, Code(v, 1, 0)
    PROVE  Agrees(s, v)
<1> DEFINE imm == c_imm(v)
           rd == Reg(v, 7)
<1>1. Named(v) /\ v \in Int
    BY CodeNamed
<1>2. rvc_opcode(v) = "ADDI"
    BY Opcodes
<1>3. ExecRvc(s, v) = NonZero(imm, s, Alu(s, rd, imm, "ADD", FALSE))
    BY <1>1, <1>2 DEF ExecRvc, Named
<1>4. Expand(v) = IType("OPIMM", 0, rd, rd, imm)
    BY Expand1
<1>5. Twelve(imm)
    BY <1>1, TwelveBits
<1>6. rd \in 0 .. 31 /\ imm \in Int
    BY <1>1, <1>5 DEF Named, Twelve
<1> HIDE DEF imm, rd
<1>7. ExecBase(s, IType("OPIMM", 0, rd, rd, imm)) = AddTo(s, rd, rd, imm)
    BY <1>5, <1>6, AddImmExec, Zenon
<1>8. Alu(s, rd, imm, "ADD", FALSE) = AddTo(s, rd, rd, imm)
    BY <1>6, AluIsAluTo, AddIsAlu, Zenon
<1>9. NonZero(imm, s, AddTo(s, rd, rd, imm)) = AddTo(s, rd, rd, imm)
    BY <1>5, <1>6, AddNothing, Zenon
<1> QED BY <1>3, <1>4, <1>7, <1>8, <1>9 DEF Agrees

LEMMA AddiwAgrees ==
    ASSUME NEW s, NEW v, Code(v, 1, 1)
    PROVE  Agrees(s, v)
<1> DEFINE imm == c_imm(v)
           rd == Reg(v, 7)
           i == IType("OPIMM32", 0, rd, rd, imm)
<1>1. Named(v) /\ v \in Int
    BY CodeNamed
<1>2. rvc_opcode(v) = "ADDIW"
    BY Opcodes
<1>3. ExecRvc(s, v) = Alu(s, rd, imm, "ADD", TRUE)
    BY <1>1, <1>2 DEF ExecRvc, Named
<1>4. Expand(v) = i
    BY Expand1
<1>5. Twelve(imm)
    BY <1>1, TwelveBits
<1> HIDE DEF imm, rd
<1>6. IsImm(i, "OPIMM32", 0, rd, rd, imm)
    BY <1>5, ITypeIsImm, Zenon
<1> HIDE DEF i
<1>7. ExecBase(s, i) = AluTo(s, rd, rd, imm, "ADD", TRUE)
    BY <1>6, ImmExec
<1> QED BY <1>3, <1>4, <1>7, AluIsAluTo DEF Agrees

\* c.li.
LEMMA LiAgrees ==
    ASSUME NEW s, Typed(s), NEW v, Code(v, 1, 2)
    PROVE  Agrees(s, v)
<1> DEFINE imm == c_imm(v)
           rd == Reg(v, 7)
<1>1. Named(v) /\ v \in Int
    BY CodeNamed
<1>2. rvc_opcode(v) = "LI"
    BY Opcodes
<1>3. ExecRvc(s, v) = setGPR(s, rd, imm)
    BY <1>1, <1>2 DEF ExecRvc, Named
<1>4. Expand(v) = IType("OPIMM", 0, rd, 0, imm)
    BY Expand1
<1>5. Twelve(imm)
    BY <1>1, TwelveBits
<1>6. rd \in 0 .. 31 /\ 0 \in 0 .. 31 /\ imm \in Int
    BY <1>1, <1>5 DEF Named, Twelve
<1> HIDE DEF imm, rd
<1>7. ExecBase(s, IType("OPIMM", 0, rd, 0, imm)) = AddTo(s, rd, 0, imm)
    BY <1>5, <1>6, AddImmExec, Zenon
<1>8. s.x[0] + imm = imm
    BY <1>6, RegisterRange
<1> QED BY <1>3, <1>4, <1>7, <1>8 DEF Agrees, AddTo

\* c.addi16sp and c.lui, but for the reserved one.
LEMMA LuiAgrees ==
    ASSUME NEW s, Typed(s), NEW v, Code(v, 1, 3), ~Reserved(v)
    PROVE  Agrees(s, v)
<1> DEFINE imm == c_addi16sp_imm(v)
           upper == c_lui_imm(v)
           rd == Reg(v, 7)
<1>1. Named(v) /\ v \in Int
    BY CodeNamed
<1>2. rvc_opcode(v) = "ADDI16SPN_LUI"
    BY Opcodes
<1>3. ExecRvc(s, v) = IF rd = 2 THEN NonZero(imm, s, setGPR(s, rd, s.x[rd] + imm))
                      ELSE NonZero(upper, s, setGPR(s, rd, upper))
    BY <1>1, <1>2 DEF ExecRvc, Named
<1>4. CASE rd = 2
    <2>1. Expand(v) = IType("OPIMM", 0, 2, 2, imm)
        BY <1>4, Expand1
    <2>2. Twelve(imm)
        BY <1>1, TwelveBits
    <2>3. 2 \in 0 .. 31
        OBVIOUS
    <2> HIDE DEF imm, rd, upper
    <2>4. ExecBase(s, IType("OPIMM", 0, 2, 2, imm)) = AddTo(s, 2, 2, imm)
        BY <2>2, <2>3, AddImmExec, Zenon
    <2>5. NonZero(imm, s, AddTo(s, 2, 2, imm)) = AddTo(s, 2, 2, imm)
        BY <2>2, <2>3, AddNothing, Zenon
    <2>6. ExecRvc(s, v) = NonZero(imm, s, AddTo(s, 2, 2, imm))
        BY <1>3, <1>4 DEF AddTo
    <2> QED BY <2>1, <2>4, <2>5, <2>6 DEF Agrees
<1>5. CASE rd # 2
    <2> DEFINE i == UType(rd, upper)
    <2>1. Expand(v) = i
        BY <1>5, Expand1
    <2>2. upper # 0
        <3>1. upper = 0 => Bit(v, 12) = 0 /\ Reg(v, 2) = 0
            BY <1>1, UpperImm
        <3>2. v % 4 = 1 /\ v \div 8192 = 3
            BY DEF Code
        <3> HIDE DEF upper
        <3> QED BY <1>5, <3>1, <3>2 DEF Reserved
    <2>3. upper \in Int /\ -131072 <= upper /\ upper < 131072 /\ upper % 4096 = 0
        BY <1>1, UpperImm
    <2> HIDE DEF rd, upper, imm
    <2>4. i.opcode = "LUI" /\ i.rd = rd /\ u_imm(i) = upper
        BY <2>3, UTypeFields
    <2> HIDE DEF i
    <2>5. ExecBase(s, i) = setGPR(s, rd, upper)
        BY <2>4 DEF ExecBase
    <2> QED BY <1>3, <1>5, <2>1, <2>2, <2>5 DEF Agrees, NonZero
<1> QED BY <1>4, <1>5

\* c.slli.
LEMMA SlliAgrees ==
    ASSUME NEW s, Typed(s), NEW v, Code(v, 2, 0)
    PROVE  Agrees(s, v)
<1> DEFINE six == c_uimm(v)
           rd == Reg(v, 7)
<1>1. Named(v) /\ v \in Int
    BY CodeNamed
<1>2. rvc_opcode(v) = "SLLI"
    BY Opcodes
<1>3. ExecRvc(s, v) = NonZero(six, s, Alu(s, rd, six, "SLL", FALSE))
    BY <1>1, <1>2 DEF ExecRvc, Named
<1>4. Expand(v) = IType("OPIMM", 1, rd, rd, six)
    BY Expand2
<1>5. six \in 0 .. 63 /\ rd \in 0 .. 31
    BY <1>1, SixImm DEF Named
<1> HIDE DEF six, rd
<1>6. ExecBase(s, IType("OPIMM", 1, rd, rd, six)) = Alu(s, rd, six, "SLL", FALSE)
    BY <1>5, LeftExec, Zenon
<1>7. NonZero(six, s, Alu(s, rd, six, "SLL", FALSE)) = Alu(s, rd, six, "SLL", FALSE)
    BY <1>5, NonZeroShift
<1> QED BY <1>3, <1>4, <1>6, <1>7 DEF Agrees

----------------------------------------------------------------------------
(* Shifts and bits.                                                        *)

\* The right shifts and the conjunction with an immediate.
LEMMA RightAgrees ==
    ASSUME NEW s, Typed(s), NEW v, Code(v, 1, 4), Bit(v, 11) = 0
    PROVE  Agrees(s, v)
<1> DEFINE six == c_uimm(v)
           rd == Reg3(v, 7)
           op == IF Bit(v, 10) = 1 THEN "SRA" ELSE "SRL"
           imm == IF Bit(v, 10) = 1 THEN 1024 + six ELSE six
<1>1. Named(v) /\ v \in Int
    BY CodeNamed
<1>2. rvc_opcode(v) = "ALU"
    BY Opcodes
<1>3. /\ binary_concat(v, 11, 11, 0) = 0 /\ binary_concat(v, 10, 10, 0) = Bit(v, 10)
      /\ (v \div 1024) % 4 = Bit(v, 10) /\ Bit(v, 10) \in {0, 1}
    BY <1>1, BitFields
<1>4. ExecRvc(s, v) = ExecRvcAlu(s, v)
    BY <1>2 DEF ExecRvc
<1>5. ExecRvcAlu(s, v) = NonZero(six, s, Alu(s, rd, six, op, FALSE))
    BY <1>1, <1>3 DEF ExecRvcAlu, Named
<1>6. Expand(v) = IType("OPIMM", 5, rd, rd, imm)
    <2> DEFINE f2 == (v \div 1024) % 4
               b == Bit(v, 10)
    <2>1. f2 = b /\ b \in {0, 1}
        BY <1>3
    <2>2. Expand(v) = CASE f2 = 0 -> IType("OPIMM", 5, rd, rd, six)
                        [] f2 = 1 -> IType("OPIMM", 5, rd, rd, 1024 + six)
                        [] OTHER -> Expand(v)
        BY Expand1
    <2> HIDE DEF f2, b, rd, six
    <2>3. Expand(v) = IType("OPIMM", 5, rd, rd, IF b = 1 THEN 1024 + six ELSE six)
        BY <2>1, <2>2
    <2> QED BY <2>3 DEF b
<1>7. six \in 0 .. 63 /\ rd \in 0 .. 31
    BY <1>1, SixImm DEF Named
<1>8. imm \in ShiftImm(six) /\ op = (IF imm = six THEN "SRL" ELSE "SRA")
      /\ op \in {"SLL", "SRL", "SRA"}
    BY <1>7 DEF ShiftImm
<1> HIDE DEF six, rd, op, imm
<1>9. ExecBase(s, IType("OPIMM", 5, rd, rd, imm)) = Alu(s, rd, six, op, FALSE)
    <2>1. ExecBase(s, IType("OPIMM", 5, rd, rd, imm))
          = Alu(s, rd, six, IF imm = six THEN "SRL" ELSE "SRA", FALSE)
        BY <1>7, <1>8, RightExec, Zenon
    <2> QED BY <1>8, <2>1
<1>10. NonZero(six, s, Alu(s, rd, six, op, FALSE)) = Alu(s, rd, six, op, FALSE)
    BY <1>7, <1>8, NonZeroShift, Zenon
<1> QED BY <1>4, <1>5, <1>6, <1>9, <1>10 DEF Agrees

\* c.andi.
LEMMA AndiAgrees ==
    ASSUME NEW s, NEW v, Code(v, 1, 4), Bit(v, 11) = 1, Bit(v, 10) = 0
    PROVE  Agrees(s, v)
<1> DEFINE imm == c_imm(v)
           rd == Reg3(v, 7)
           i == IType("OPIMM", 7, rd, rd, imm)
<1>1. Named(v) /\ v \in Int
    BY CodeNamed
<1>2. rvc_opcode(v) = "ALU"
    BY Opcodes
<1>3. /\ binary_concat(v, 11, 11, 0) # 0 /\ binary_concat(v, 10, 10, 0) = 0
      /\ (v \div 1024) % 4 = 2
    BY <1>1, BitFields
<1>4. ExecRvc(s, v) = ExecRvcAlu(s, v)
    BY <1>2 DEF ExecRvc
<1>5. ExecRvcAlu(s, v) = Alu(s, rd, imm, "AND", FALSE)
    <2>1. r3(v, 7) = rd
        BY <1>1 DEF Named
    <2>2. binary_concat(v, 11, 11, 0) # 0 /\ binary_concat(v, 10, 10, 0) = 0
        BY <1>3
    <2> QED BY <2>1, <2>2, Zenon DEF ExecRvcAlu
<1>6. Expand(v) = i
    BY <1>3, Expand1
<1>7. Twelve(imm)
    BY <1>1, TwelveBits
<1> HIDE DEF imm, rd
<1>8. IsImm(i, "OPIMM", 7, rd, rd, imm)
    BY <1>7, ITypeIsImm, Zenon
<1> HIDE DEF i
<1>9. ExecBase(s, i) = AluTo(s, rd, rd, imm, "AND", FALSE)
    <2>1. IsImm(i, IF FALSE THEN "OPIMM32" ELSE "OPIMM", 7, rd, rd, imm) /\ FALSE \in BOOLEAN
          /\ 7 \in {0, 7}
        BY <1>8
    <2>2. ExecBase(s, i) = AluTo(s, rd, rd, imm, IF 7 = 0 THEN "ADD" ELSE "AND", FALSE)
        BY <2>1, ImmExec, Zenon
    <2>3. (IF 7 = 0 THEN "ADD" ELSE "AND") = "AND"
        OBVIOUS
    <2> QED BY <2>2, <2>3
<1> QED BY <1>4, <1>5, <1>6, <1>9, AluIsAluTo DEF Agrees

----------------------------------------------------------------------------
(* Register operations.                                                    *)

\* A register as the second operand needs no reduction.
LEMMA AluRegister ==
    ASSUME NEW s, Typed(s), NEW rd, NEW r \in 0 .. 31, NEW op, NEW word
    PROVE  Alu(s, rd, s.x[r], op, word) = RegTo(s, rd, rd, r, op, word)
<1>1. s.x[r] % 2^s.n = s.x[r]
    BY RegisterRange
<1> QED BY <1>1, Zenon DEF Alu, RegTo

\* A compressed register operation agrees with the one it stands for.
LEMMA RegToAgrees ==
    ASSUME NEW s, NEW rd, NEW rs1, NEW rs2, NEW f7, NEW f3, NEW op, NEW word, NEW opcode,
           Encoded(f7, f3, op, word, opcode), NEW v,
           ExecRvc(s, v) = RegTo(s, rd, rs1, rs2, op, word),
           Expand(v) = RType(opcode, f7, f3, rd, rs1, rs2)
    PROVE  Agrees(s, v)
<1>1. ExecBase(s, RType(opcode, f7, f3, rd, rs1, rs2)) = RegTo(s, rd, rs1, rs2, op, word)
    BY RegExec, SMTT(30)
<1> QED BY <1>1, Zenon DEF Agrees

LEMMA RegisterAgrees ==
    ASSUME NEW s, NEW rd, NEW r, NEW f7, NEW f3, NEW op, NEW word, NEW opcode,
           Encoded(f7, f3, op, word, opcode),
           Typed(s), r \in 0 .. 31, NEW v,
           ExecRvc(s, v) = Alu(s, rd, s.x[r], op, word),
           Expand(v) = RType(opcode, f7, f3, rd, rd, r)
    PROVE  Agrees(s, v)
<1>1. ExecRvc(s, v) = RegTo(s, rd, rd, r, op, word)
    BY AluRegister, Zenon
<1> QED BY <1>1, RegToAgrees, Zenon

\* c.sub, c.xor, c.or, c.and, c.subw and c.addw.
LEMMA ArithAgrees ==
    ASSUME NEW s, Typed(s), NEW v, Code(v, 1, 4), Bit(v, 11) = 1, Bit(v, 10) = 1
    PROVE  Agrees(s, v)
<1> DEFINE rd == Reg3(v, 7)
           r == Reg3(v, 2)
           b == s.x[r]
           word == Bit(v, 12)
           funct2 == (v \div 32) % 4
           arith == <<word, funct2>>
           wide == word = 1
<1>1. Named(v) /\ v \in Int
    BY CodeNamed
<1>2. rvc_opcode(v) = "ALU"
    BY Opcodes
<1>3. /\ binary_concat(v, 11, 11, 0) # 0 /\ binary_concat(v, 10, 10, 0) # 0
      /\ binary_concat(v, 12, 12, 0) = word /\ binary_concat(v, 6, 5, 0) = funct2
      /\ (v \div 1024) % 4 = 3 /\ word \in {0, 1} /\ funct2 \in 0 .. 3
    BY <1>1, BitFields
<1>4. ExecRvc(s, v) = ExecRvcAlu(s, v)
    BY <1>2 DEF ExecRvc
<1>5. ExecRvcAlu(s, v) =
        CASE funct2 = 0 -> Alu(s, rd, b, "SUB", wide)
          [] funct2 = 1 -> Alu(s, rd, b, IF wide THEN "ADD" ELSE "XOR", wide)
          [] funct2 = 2 /\ ~wide -> Alu(s, rd, b, "OR", FALSE)
          [] funct2 = 3 /\ ~wide -> Alu(s, rd, b, "AND", FALSE)
          [] OTHER -> Illegal(s)
    <2>1. r3(v, 7) = rd /\ r3(v, 2) = r
        BY <1>1 DEF Named
    <2>2. /\ binary_concat(v, 11, 11, 0) # 0 /\ binary_concat(v, 10, 10, 0) # 0
          /\ binary_concat(v, 12, 12, 0) = word /\ binary_concat(v, 6, 5, 0) = funct2
        BY <1>3
    <2> HIDE DEF word, funct2, rd, r
    <2> QED BY <2>1, <2>2, Zenon DEF ExecRvcAlu
<1>6. Expand(v) =
        CASE arith = <<0, 0>> -> RType("OP", 32, 0, rd, rd, r)
          [] arith = <<0, 1>> -> RType("OP", 0, 4, rd, rd, r)
          [] arith = <<0, 2>> -> RType("OP", 0, 6, rd, rd, r)
          [] arith = <<0, 3>> -> RType("OP", 0, 7, rd, rd, r)
          [] arith = <<1, 0>> -> RType("OP32", 32, 0, rd, rd, r)
          [] arith = <<1, 1>> -> RType("OP32", 0, 0, rd, rd, r)
          [] OTHER -> Undefined
    BY <1>3, Expand1
<1>7. r \in 0 .. 31
    BY <1>1 DEF Named
<1>8. /\ Encoded(32, 0, "SUB", FALSE, "OP") /\ Encoded(0, 4, "XOR", FALSE, "OP")
      /\ Encoded(0, 6, "OR", FALSE, "OP") /\ Encoded(0, 7, "AND", FALSE, "OP")
      /\ Encoded(32, 0, "SUB", TRUE, "OP32") /\ Encoded(0, 0, "ADD", TRUE, "OP32")
    BY DEF Encoded, Encoding
<1> HIDE DEF rd, r, wide, word, funct2
<1>9. CASE word = 0 /\ funct2 = 0
    <2> wide = FALSE /\ funct2 = 0 /\ funct2 # 1 /\ funct2 # 2 /\ funct2 # 3
        BY <1>9 DEF wide
    <2>1. ExecRvc(s, v) = Alu(s, rd, b, "SUB", FALSE)
        BY <1>4, <1>5, Zenon
    <2>2. Expand(v) = RType("OP", 32, 0, rd, rd, r)
        BY <1>6, <1>9
    <2> QED BY <1>7, <1>8, <2>1, <2>2, RegisterAgrees, Zenon
<1>10. CASE word = 0 /\ funct2 = 1
    <2> wide = FALSE /\ funct2 = 1 /\ funct2 # 0 /\ funct2 # 2 /\ funct2 # 3
        BY <1>10 DEF wide
    <2>1. ExecRvc(s, v) = Alu(s, rd, b, "XOR", FALSE)
        BY <1>4, <1>5, Zenon
    <2>2. Expand(v) = RType("OP", 0, 4, rd, rd, r)
        BY <1>6, <1>10
    <2> QED BY <1>7, <1>8, <2>1, <2>2, RegisterAgrees, Zenon
<1>11. CASE word = 0 /\ funct2 = 2
    <2> wide = FALSE /\ funct2 = 2 /\ funct2 # 0 /\ funct2 # 1 /\ funct2 # 3
        BY <1>11 DEF wide
    <2>1. ExecRvc(s, v) = Alu(s, rd, b, "OR", FALSE)
        BY <1>4, <1>5, Zenon
    <2>2. Expand(v) = RType("OP", 0, 6, rd, rd, r)
        BY <1>6, <1>11
    <2> QED BY <1>7, <1>8, <2>1, <2>2, RegisterAgrees, Zenon
<1>12. CASE word = 0 /\ funct2 = 3
    <2> wide = FALSE /\ funct2 = 3 /\ funct2 # 0 /\ funct2 # 1 /\ funct2 # 2
        BY <1>12 DEF wide
    <2>1. ExecRvc(s, v) = Alu(s, rd, b, "AND", FALSE)
        BY <1>4, <1>5, Zenon
    <2>2. Expand(v) = RType("OP", 0, 7, rd, rd, r)
        BY <1>6, <1>12
    <2> QED BY <1>7, <1>8, <2>1, <2>2, RegisterAgrees, Zenon
<1>13. CASE word = 1 /\ funct2 = 0
    <2> wide = TRUE /\ funct2 = 0 /\ funct2 # 1 /\ funct2 # 2 /\ funct2 # 3
        BY <1>13 DEF wide
    <2>1. ExecRvc(s, v) = Alu(s, rd, b, "SUB", TRUE)
        BY <1>4, <1>5, Zenon
    <2>2. Expand(v) = RType("OP32", 32, 0, rd, rd, r)
        BY <1>6, <1>13
    <2> QED BY <1>7, <1>8, <2>1, <2>2, RegisterAgrees, Zenon
<1>14. CASE word = 1 /\ funct2 = 1
    <2> wide = TRUE /\ funct2 = 1 /\ funct2 # 0 /\ funct2 # 2 /\ funct2 # 3
        BY <1>14 DEF wide
    <2>1. ExecRvc(s, v) = Alu(s, rd, b, "ADD", TRUE)
        BY <1>4, <1>5, Zenon
    <2>2. Expand(v) = RType("OP32", 0, 0, rd, rd, r)
        BY <1>6, <1>14
    <2> QED BY <1>7, <1>8, <2>1, <2>2, RegisterAgrees, Zenon
<1>15. CASE word = 1 /\ funct2 \in {2, 3}
    <2> wide = TRUE /\ funct2 # 0 /\ funct2 # 1
        BY <1>15 DEF wide
    <2>1. ExecRvc(s, v) = Illegal(s)
        BY <1>4, <1>5, Zenon
    <2>2. Expand(v) = Undefined
        BY <1>6, <1>15
    <2> QED BY <2>1, <2>2, UndefinedExec DEF Agrees
<1> QED BY <1>3, <1>9, <1>10, <1>11, <1>12, <1>13, <1>14, <1>15

----------------------------------------------------------------------------
(* Jumps and branches.                                                     *)

\* The codes without an instruction.
LEMMA NonesAgree ==
    ASSUME NEW s, NEW v,
           \/ Code(v, 0, 1) \/ Code(v, 0, 4) \/ Code(v, 0, 5)
           \/ Code(v, 2, 1) \/ Code(v, 2, 5)
    PROVE  Agrees(s, v)
<1>1. rvc_opcode(v) = "none"
    BY Opcodes
<1>2. CASE Code(v, 0, 1) \/ Code(v, 0, 4) \/ Code(v, 0, 5)
    <2>1. Expand(v) = Undefined
        BY <1>2, Expand0
    <2> QED BY <1>1, <2>1, NoneAgrees
<1>3. CASE Code(v, 2, 1) \/ Code(v, 2, 5)
    <2>1. Expand(v) = Undefined
        BY <1>3, Expand2
    <2> QED BY <1>1, <2>1, NoneAgrees
<1> QED BY <1>2, <1>3

\* The jump and the two branches.
LEMMA JumpAgrees ==
    ASSUME NEW s, Typed(s), NEW v, Code(v, 1, 5)
    PROVE  Agrees(s, v)
<1> DEFINE imm == c_j_imm(v)
<1>1. v \in Int
    BY CodeNamed
<1>2. rvc_opcode(v) = "J"
    BY Opcodes
<1>3. ExecRvc(s, v) = Branch(s, imm)
    BY <1>2 DEF ExecRvc
<1>4. Expand(v) = JType(0, imm)
    BY Expand1
<1>5. Twelve(imm)
    BY <1>1, TwelveBits
<1>6. imm % 2 = 0
    BY <1>1, JumpImm
<1> HIDE DEF imm
<1>7. ExecBase(s, JType(0, imm)) = Branch(s, imm)
    BY <1>5, <1>6, JumpExec
<1> QED BY <1>3, <1>4, <1>7 DEF Agrees

LEMMA BranchesAgree ==
    ASSUME NEW s, Typed(s), NEW v, Code(v, 1, 6) \/ Code(v, 1, 7)
    PROVE  Agrees(s, v)
<1> DEFINE imm == c_b_imm(v)
           r == Reg3(v, 7)
<1>1. Named(v) /\ v \in Int
    BY CodeNamed
<1>2. Twelve(imm)
    BY <1>1, TwelveBits
<1>3. imm % 2 = 0
    BY <1>1, OffsetImm
<1>4. r \in 0 .. 31 /\ r3(v, 7) = r
    BY <1>1 DEF Named
<1>5. CASE Code(v, 1, 6)
    <2>1. rvc_opcode(v) = "BEQZ"
        BY <1>5, Opcodes
    <2>2. ExecRvc(s, v) = IF s.x[r] = 0 THEN Branch(s, imm) ELSE s
        BY <1>4, <2>1 DEF ExecRvc
    <2>3. Expand(v) = BType(0, r, 0, imm)
        BY <1>5, Expand1
    <2> HIDE DEF imm, r
    <2>4. ExecBase(s, BType(0, r, 0, imm)) = IF (0 = 0) = (s.x[r] = 0) THEN Branch(s, imm) ELSE s
        BY <1>2, <1>3, <1>4, BranchExec
    <2> QED BY <2>2, <2>3, <2>4 DEF Agrees
<1>6. CASE Code(v, 1, 7)
    <2>1. rvc_opcode(v) = "BNEZ"
        BY <1>6, Opcodes
    <2>2. ExecRvc(s, v) = IF s.x[r] # 0 THEN Branch(s, imm) ELSE s
        BY <1>4, <2>1 DEF ExecRvc
    <2>3. Expand(v) = BType(1, r, 0, imm)
        BY <1>6, Expand1
    <2> HIDE DEF imm, r
    <2>4. ExecBase(s, BType(1, r, 0, imm)) = IF (1 = 0) = (s.x[r] = 0) THEN Branch(s, imm) ELSE s
        BY <1>2, <1>3, <1>4, BranchExec
    <2> QED BY <2>2, <2>3, <2>4 DEF Agrees
<1> QED BY <1>5, <1>6

----------------------------------------------------------------------------
(* The moves, additions and jumps of registers.                            *)

\* The register group of the two decoders.
LEMMA RegisterGroup ==
    ASSUME NEW s, NEW v, Code(v, 2, 4)
    PROVE  LET rd == Reg(v, 7)
               rs2 == Reg(v, 2)
               link == Bit(v, 12) = 1
           IN  ExecRvc(s, v) =
                 IF rs2 # 0
                 THEN IF link THEN Alu(s, rd, s.x[rs2], "ADD", FALSE) ELSE setGPR(s, rd, s.x[rs2])
                 ELSE IF rd = 0 THEN IF link THEN Call(s, "ebreak") ELSE Illegal(s)
                 ELSE JumpTo(s, 2 * (s.x[rd] \div 2), IF link THEN 1 ELSE 0, s.pc + 2)
<1>1. Named(v) /\ v \in Int
    BY CodeNamed
<1>2. rvc_opcode(v) = "JR_MV_EB_JALR_ADD"
    BY Opcodes
<1>3. ExecRvc(s, v) = ExecRvcRegister(s, v)
    BY <1>2 DEF ExecRvc
<1>4. r5(v, 7) = Reg(v, 7) /\ r5(v, 2) = Reg(v, 2)
    BY <1>1 DEF Named
<1>5. binary_concat(v, 12, 12, 0) = Bit(v, 12)
    BY <1>1, BitFields
<1> QED BY <1>3, <1>4, <1>5, Zenon DEF ExecRvcRegister

\* c.add and c.mv.
LEMMA AddAgrees ==
    ASSUME NEW s, Typed(s), NEW v, Code(v, 2, 4), Reg(v, 2) # 0, Bit(v, 12) = 1
    PROVE  Agrees(s, v)
<1> DEFINE rd == Reg(v, 7)
           r == Reg(v, 2)
<1>1. ExecRvc(s, v) = Alu(s, rd, s.x[r], "ADD", FALSE)
    BY RegisterGroup, Zenon
<1>2. Expand(v) = RType("OP", 0, 0, rd, rd, r)
    BY Expand2
<1>3. r \in 0 .. 31
    BY CodeNamed DEF Named
<1>4. Encoded(0, 0, "ADD", FALSE, "OP")
    BY DEF Encoded, Encoding
<1> HIDE DEF rd, r
<1> QED BY <1>1, <1>2, <1>3, <1>4, RegisterAgrees, Zenon

LEMMA MoveAgrees ==
    ASSUME NEW s, Typed(s), NEW v, Code(v, 2, 4), Reg(v, 2) # 0, Bit(v, 12) # 1
    PROVE  Agrees(s, v)
<1> DEFINE rd == Reg(v, 7)
           r == Reg(v, 2)
           b == s.x[r]
<1>1. ExecRvc(s, v) = setGPR(s, rd, b)
    BY RegisterGroup, Zenon
<1>2. Expand(v) = RType("OP", 0, 0, rd, 0, r)
    BY Expand2
<1>3. r \in 0 .. 31 /\ 0 \in 0 .. 31
    BY CodeNamed DEF Named
<1>4. Encoded(0, 0, "ADD", FALSE, "OP")
    BY DEF Encoded, Encoding
<1> HIDE DEF rd, r
<1>6. b \in Int /\ b % 2^s.n = b /\ s.x[0] = 0 /\ 0 + b = b
    BY <1>3, RegisterRange
<1>7. RegTo(s, rd, 0, r, "ADD", FALSE)
      = setGPR(s, rd, alu_exec(s.x[0], b % 2^s.n, "ADD", FALSE, s.n))
    BY <1>6 DEF RegTo
<1>8. setGPR(s, rd, alu_exec(s.x[0], b % 2^s.n, "ADD", FALSE, s.n)) = setGPR(s, rd, s.x[0] + b)
    BY <1>3, <1>6, AddAlu
<1>9. setGPR(s, rd, s.x[0] + b) = setGPR(s, rd, b)
    BY <1>6
<1>10. ExecRvc(s, v) = RegTo(s, rd, 0, r, "ADD", FALSE)
    BY <1>1, <1>7, <1>8, <1>9, Zenon
<1> QED BY <1>2, <1>4, <1>10, RegToAgrees, Zenon

\* Without a second register: ebreak, nothing, or a jump to a register.
LEMMA BreakAgrees ==
    ASSUME NEW s, NEW v, Code(v, 2, 4), Reg(v, 2) = 0, Reg(v, 7) = 0
    PROVE  Agrees(s, v)
<1> DEFINE i == IType("SYSTEM", 0, 0, 0, 1)
<1>1. ExecRvc(s, v) = IF Bit(v, 12) = 1 THEN Call(s, "ebreak") ELSE Illegal(s)
    BY RegisterGroup, Zenon
<1>2. Expand(v) = IF Bit(v, 12) = 1 THEN i ELSE Undefined
    BY Expand2
<1>3. /\ i.opcode = "SYSTEM" /\ i.funct3 = 0 /\ i.rd = 0 /\ i.rs1 = 0 /\ i.rs2 = 1 /\ i.funct7 = 0
    BY DEF IType, RType
<1> HIDE DEF i
<1>4. ExecBase(s, i) = ExecSystem(s, i)
    BY <1>3 DEF ExecBase
<1>5. ExecSystem(s, i) = Call(s, "ebreak")
    BY <1>3 DEF ExecSystem
<1> QED BY <1>1, <1>2, <1>4, <1>5, UndefinedExec DEF Agrees

\* A register jump to an even address, but for the link: c.jalr writes x1 with
\* its own length.
LEMMA RegisterJump ==
    ASSUME NEW s, Typed(s), NEW v, Code(v, 2, 4), Reg(v, 2) = 0, Reg(v, 7) # 0, s.x[Reg(v, 7)] % 2
           = 0
    PROVE  LET target == s.x[Reg(v, 7)]
               link == Bit(v, 12)
           IN  /\ ExecRvc(s, v) = JumpTo(s, target, link, s.pc + 2)
               /\ ExecBase(s, Expand(v)) = JumpTo(s, target, link, s.pc + 4)
<1> DEFINE rd == Reg(v, 7)
           target == s.x[rd]
           link == Bit(v, 12)
           i == IType("JALR", 0, link, rd, 0)
<1>1. Named(v) /\ v \in Int
    BY CodeNamed
<1>2. link \in {0, 1} /\ rd \in 0 .. 31
    BY <1>1, BitFields DEF Named
<1>3. target \in Int /\ target % 2^s.n = target /\ target % 2 = 0
    BY <1>2, RegisterRange
<1>4. ExecRvc(s, v) = JumpTo(s, 2 * (target \div 2), IF link = 1 THEN 1 ELSE 0, s.pc + 2)
    BY RegisterGroup, Zenon
<1>5. Expand(v) = i
    BY Expand2
<1>6. Twelve(0)
    BY DEF Twelve
<1>7. i.opcode = "JALR" /\ i.rd = link /\ i.rs1 = rd
    BY DEF IType, RType
<1>8. imm12(i) = 0
    BY DEF imm12, IType, RType, Signed
<1> HIDE DEF rd, link, i
<1>9. 2 * (target \div 2) = target
    <2> HIDE DEF target
    <2> QED BY <1>3
<1>10. (IF link = 1 THEN 1 ELSE 0) = link
    BY <1>2
<1>11. Address(s, rd, 2 * (0 \div 2)) = target
    <2>1. target + 2 * (0 \div 2) = target
        BY <1>3
    <2> QED BY <1>3, <2>1 DEF Address
<1>12. ExecBase(s, i) = JumpTo(s, Address(s, i.rs1, 2 * (imm12(i) \div 2)), i.rd, s.pc + 4)
    BY <1>7 DEF ExecBase
<1>13. ExecBase(s, i) = JumpTo(s, target, link, s.pc + 4)
    BY <1>7, <1>8, <1>11, <1>12
<1>14. ExecRvc(s, v) = JumpTo(s, target, link, s.pc + 2)
    BY <1>4, <1>9, <1>10
<1> QED BY <1>5, <1>13, <1>14 DEF rd, link

----------------------------------------------------------------------------
(* Compressed instructions.                                                *)

\* A compressed instruction is in one of the quadrants.
LEMMA Quadrants ==
    ASSUME NEW i, is_compressed(i), TypedInst(i)
    PROVE  \E q \in 0 .. 2, f \in 0 .. 7 : Code(i.val, q, f)
<1> DEFINE v == i.val
           q == v % 4
           f == v \div 8192
<1>1. v \in Nat /\ f \in 0 .. 7 /\ q # 3
    BY DEF TypedInst
<1> HIDE DEF v
<1>2. q \in 0 .. 2
    BY <1>1
<1>3. Code(v, q, f)
    BY <1>1 DEF Code
<1> HIDE DEF q, f
<1> QED BY <1>1, <1>2, <1>3 DEF v

\* But for a register jump, every compressed instruction does what it stands for.
LEMMA AllAgree ==
    ASSUME NEW s, Typed(s), NEW v, NEW q \in 0 .. 2, NEW f \in 0 .. 7, Code(v, q, f),
           ~Reserved(v), ~IsRegisterJump(v)
    PROVE  Agrees(s, v)
<1>0. v \in Int
    BY DEF Code
<1>1. CASE q = 0
    <2>1. \/ Code(v, 0, 0) \/ Code(v, 0, 1) \/ Code(v, 0, 2) \/ Code(v, 0, 3)
          \/ Code(v, 0, 4) \/ Code(v, 0, 5) \/ Code(v, 0, 6) \/ Code(v, 0, 7)
        BY <1>1
    <2> QED BY <2>1, SpnAgrees, NonesAgree, LoadsAgree, StoresAgree
<1>2. CASE q = 1
    <2>1. \/ Code(v, 1, 0) \/ Code(v, 1, 1) \/ Code(v, 1, 2) \/ Code(v, 1, 3)
          \/ Code(v, 1, 4) \/ Code(v, 1, 5) \/ Code(v, 1, 6) \/ Code(v, 1, 7)
        BY <1>2
    <2>2. Code(v, 1, 4) => Agrees(s, v)
        BY <1>0, BitFields, RightAgrees, AndiAgrees, ArithAgrees
    <2> QED BY <2>1, <2>2, AddiAgrees, AddiwAgrees, LiAgrees, LuiAgrees, JumpAgrees, BranchesAgree
<1>3. CASE q = 2
    <2>1. \/ Code(v, 2, 0) \/ Code(v, 2, 1) \/ Code(v, 2, 2) \/ Code(v, 2, 3)
          \/ Code(v, 2, 4) \/ Code(v, 2, 5) \/ Code(v, 2, 6) \/ Code(v, 2, 7)
        BY <1>3
    <2>2. Code(v, 2, 4) => Agrees(s, v)
        <3>1. SUFFICES ASSUME Code(v, 2, 4)
              PROVE  Agrees(s, v)
            OBVIOUS
        <3>2. Reg(v, 2) # 0 \/ Reg(v, 7) = 0
            BY <3>1 DEF IsRegisterJump, Code
        <3> QED BY <3>1, <3>2, AddAgrees, MoveAgrees, BreakAgrees
    <2> QED BY <2>1, <2>2, SlliAgrees, NonesAgree, LoadsAgree, StoresAgree
<1> QED BY <1>1, <1>2, <1>3

\* What the link register of c.jalr differs in.
LEMMA JumpsAgree ==
    ASSUME NEW s, Typed(s), NEW v, Code(v, 2, 4), IsRegisterJump(v), s.x[Reg(v, 7)] % 2 = 0
    PROVE  LET t == ExecRvc(s, v)
               base == ExecBase(s, Expand(v))
           IN  /\ t.x = IF Bit(v, 12) = 1 THEN [base.x EXCEPT ![1] = (s.pc + 2) % 2^s.n] ELSE base.x
               /\ t.npc = base.npc /\ t.trap = base.trap /\ t.stored = base.stored
                  /\ t.call = base.call
<1> DEFINE target == s.x[Reg(v, 7)]
           link == Bit(v, 12)
           t == ExecRvc(s, v)
           base == ExecBase(s, Expand(v))
<1>1. Reg(v, 2) = 0 /\ Reg(v, 7) # 0
    BY DEF IsRegisterJump
<1>2. t = JumpTo(s, target, link, s.pc + 2) /\ base = JumpTo(s, target, link, s.pc + 4)
    BY <1>1, RegisterJump, Zenon
<1>3. v \in Int
    BY CodeNamed
<1>4. link \in {0, 1}
    BY <1>3, BitFields
<1>5. target % 2 = 0
    OBVIOUS
<1>6. IsHart(s) /\ DOMAIN s.x = 0 .. 31
    <2>1. s.x \in [0 .. 31 -> 0 .. 2^s.n - 1]
        BY DEF Typed, TypedHart
    <2>2. DOMAIN s.x = 0 .. 31
        BY <2>1, Zenon
    <2>3. IsHart(s)
        BY DEF Typed
    <2> QED BY <2>2, <2>3
<1> HIDE DEF target, link, t, base
<1>7. /\ t = [setGPR(s, link, s.pc + 2) EXCEPT !.npc = target]
      /\ base = [setGPR(s, link, s.pc + 4) EXCEPT !.npc = target]
    BY <1>2, <1>5 DEF JumpTo, PC_ALIGN
<1>8. CASE link = 0
    <2>1. t = base
        BY <1>7, <1>8 DEF setGPR
    <2> QED BY <1>8, <2>1 DEF t, base, link
<1>9. CASE link = 1
    <2>1. /\ t = [[s EXCEPT !.x[1] = (s.pc + 2) % 2^s.n] EXCEPT !.npc = target]
          /\ base = [[s EXCEPT !.x[1] = (s.pc + 4) % 2^s.n] EXCEPT !.npc = target]
        <3>1. \A b : setGPR(s, 1, b) = [s EXCEPT !.x[1] = b % 2^s.n]
            BY DEF setGPR
        <3> QED BY <1>7, <1>9, <3>1, Zenon
    <2> DEFINE a == (s.pc + 2) % 2^s.n
               b == (s.pc + 4) % 2^s.n
    <2> HIDE DEF a, b
    <2>2. /\ t.x = [s.x EXCEPT ![1] = a] /\ base.x = [s.x EXCEPT ![1] = b]
          /\ t.npc = base.npc /\ t.trap = base.trap /\ t.stored = base.stored /\ t.call = base.call
        BY <1>6, <2>1 DEF IsHart, a, b
    <2>3. t.x = [base.x EXCEPT ![1] = a]
        BY <1>6, <2>2
    <2> QED BY <1>9, <2>2, <2>3 DEF t, base, link, a
<1> QED BY <1>4, <1>8, <1>9

\* The two decoders, the two sets of immediates and the two copies of every
\* operation agree (ExecRvc and ExecBase), whatever the width of a register.
THEOREM CompressedCorrect == Spec => []CompressedAgrees
<1>1. ExecInv => CompressedAgrees
    <2> SUFFICES ASSUME ExecInv, Done, is_compressed(inst), ~Reserved(inst.val),
                        IsRegisterJump(inst.val) => before.x[Reg(inst.val, 7)] % 2 = 0
                 PROVE  LET base == ExecBase(before, Expand(inst.val))
                            links == IsRegisterJump(inst.val) /\ Bit(inst.val, 12) = 1
                        IN  /\ hart.x = IF links
                                        THEN [base.x EXCEPT ![1] = (before.pc + 2) % 2^before.n]
                                        ELSE base.x
                            /\ hart.npc = base.npc /\ hart.trap = base.trap
                            /\ hart.stored = base.stored /\ hart.call = base.call
        BY DEF CompressedAgrees
    <2> DEFINE v == inst.val
               t == ExecRvc(before, v)
               base == ExecBase(before, Expand(v))
    <2>1. Typed(before) /\ TypedInst(inst)
        BY InvTyped
    <2>2. /\ hart.x = t.x /\ hart.npc = t.npc /\ hart.trap = t.trap
          /\ hart.stored = t.stored /\ hart.call = t.call
        BY DoneExecuted, Zenon DEF Execute
    <2>4. PICK q \in 0 .. 2, f \in 0 .. 7 : Code(v, q, f)
        BY <2>1, Quadrants, Zenon
    <2> HIDE DEF v
    <2>5. CASE ~IsRegisterJump(v)
        <3>1. ~Reserved(v)
            BY DEF v
        <3>2. t = base
            BY <2>1, <2>4, <2>5, <3>1, AllAgree DEF Agrees
        <3> HIDE DEF t, base
        <3> QED BY <2>2, <2>5, <3>2 DEF v, base
    <2>6. CASE IsRegisterJump(v)
        <3>1. before.x[Reg(v, 7)] % 2 = 0
            BY <2>6 DEF v
        <3>2. Code(v, 2, 4)
            BY <2>4, <2>6 DEF IsRegisterJump, Code
        <3>3. /\ t.x = IF Bit(v, 12) = 1 THEN [base.x EXCEPT ![1] = (before.pc + 2) % 2^before.n]
                                         ELSE base.x
              /\ t.npc = base.npc /\ t.trap = base.trap /\ t.stored = base.stored
                 /\ t.call = base.call
            BY <2>1, <2>6, <3>1, <3>2, JumpsAgree
        <3> HIDE DEF t, base
        <3> QED BY <2>2, <2>6, <3>3 DEF v, base
    <2> QED BY <2>5, <2>6
<1>2. Spec => []ExecInv
    BY ExecInvHolds
<1> QED BY <1>1, <1>2, PTL
=============================================================================
