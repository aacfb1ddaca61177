----------------------------- MODULE MCGDBStub -----------------------------
(* A core of two program counters and a RAM of one byte at address 0, whose    *)
(* inclusive end is 1; the PLIC is at 2, 4 and 5 have no device, and 6 is above *)
(* LLONG_MAX.                                                                  *)
EXTENDS GDBStub

MCPc == {0, 1}
MCValue == {0, 1}
MCRegion == {[kind |-> "ram", base |-> 0, size |-> 1], [kind |-> "plic", base |-> 2, size |-> 1]}

\* The RAM is mapped, and to be read only the PLIC; 5 is no canonical address.
MCWalk == {[read |-> [a \in {0, 2} |-> a], write |-> [a \in {0} |-> a], asserts |-> {5}]}

MCCommand ==
    {[op |-> "?"], [op |-> "g"], [op |-> "p"], [op |-> "other"],
     [op |-> "q", hwbreak |-> TRUE],
     [op |-> "G", regs |-> <<0, 1>>, whole |-> TRUE],
     [op |-> "G", regs |-> <<0>>, whole |-> TRUE],
     [op |-> "m", addr |-> 0, len |-> 2],
     [op |-> "m", addr |-> 2, len |-> 1],
     [op |-> "m", addr |-> 6, len |-> 1],
     [op |-> "m", addr |-> 0, len |-> 3],
     [op |-> "M", addr |-> 0, len |-> 2, data |-> <<1, 1>>],
     [op |-> "Z", type |-> 0, pc |-> 1],
     [op |-> "Z", type |-> 2, pc |-> 0],
     [op |-> "z", type |-> 1, pc |-> 1],
     [op |-> "c", addressed |-> FALSE], [op |-> "c", addressed |-> TRUE]}

\* Every kind of noise, with and without the checksums of the stub.
MCLink ==
    {[checked |-> TRUE, kinds |-> {"garbled", "beheaded", "reply"}, faults |-> 2, interrupts |-> 0],
     [checked |-> TRUE, kinds |-> {"ack"}, faults |-> 1, interrupts |-> 0],
     [checked |-> TRUE, kinds |-> {}, faults |-> 0, interrupts |-> 2],
     [checked |-> TRUE, kinds |-> {"reply"}, faults |-> 1, interrupts |-> 1],
     [checked |-> FALSE, kinds |-> {"garbled"}, faults |-> 1, interrupts |-> 0]}
============================================================================
