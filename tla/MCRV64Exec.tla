----------------------------- MODULE MCRV64Exec -----------------------------
(***************************************************************************)
(* Every compressed instruction on two register files of 24 bits, which    *)
(* hold the longest compressed immediate; a sample of the 32-bit ones on   *)
(* the first of them; every register-register and atomic operation on      *)
(* pairs of 8-bit numbers at and around the boundaries.                    *)
(***************************************************************************)
EXTENDS RV64Exec

MCLoaded(addr, m) == (addr * 37 + 5) % 2^m
MCFaulting == 0 .. 15

Regs1 ==
    [i \in 0 .. 31 |-> CASE i \in {0, 9} -> 0
                         [] i = 13 -> 699057
                         [] i = 12 -> 699058
                         [] i = 11 -> 699060
                         [] OTHER  -> (i * 699056) % 2^24]
Regs2 == [i \in 0 .. 31 |-> IF i \in {0, 8} THEN 0 ELSE 2^24 - 8 * i]

Wide(x) == [n |-> 24, x |-> x, pc |-> 4096]

Compressed == [harts |-> {Wide(Regs1), Wide(Regs2)},
               insts |-> [val : {v \in 0 .. 65535 : v % 4 # 3}]]

Sample ==
    [harts |-> {Wide(Regs1)},
     insts |-> [opcode : {"LUI", "AUIPC", "JAL", "JALR", "BRANCH", "LOAD", "STORE", "OPIMM", "OPIMM32",
                          "AMO", "FENCE", "SYSTEM", "none"},
                rd : {0, 5}, funct3 : 0 .. 7, rs1 : {0, 13}, rs2 : {0, 1, 2, 5},
                funct7 : {0, 8, 9, 24, 32, 64, 127}]]

Corner == {0, 1, 2, 3, 7, 8, 9, 15, 16, 17, 120, 127, 128, 129, 136, 240, 247, 248, 254, 255}
Pairs == {[n |-> 8, x |-> [i \in 0 .. 31 |-> CASE i = 5 -> a [] i = 6 -> b [] OTHER -> 0], pc |-> 64] :
              a \in Corner, b \in Corner}
Narrow(opcodes, funct7s, funct3s) ==
    [harts |-> Pairs,
     insts |-> [opcode : opcodes, rd : {7}, funct3 : funct3s, rs1 : {5}, rs2 : {6}, funct7 : funct7s]]

MCProgram ==
    <<Compressed, Sample, Narrow({"OP", "OP32"}, {0, 1, 2, 32}, 0 .. 7),
      Narrow({"AMO"}, {4 * funct5 : funct5 \in 0 .. 31}, {2, 3})>>
=============================================================================
