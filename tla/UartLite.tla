------------------------------ MODULE UartLite ------------------------------
(***************************************************************************)
(* The serial port uartlite (dev/uartlite/include/uartlite.hpp) and the    *)
(* adapter that connects it to a terminal.                                 *)
(*                                                                         *)
(* Four registers of four bytes each, accessed whole.  Every read first    *)
(* brings the receive register and the VALID flag up to date; the receive  *)
(* register keeps its last character when the queue is empty.  The queues  *)
(* have no limit.  The run loop is one thread, so the two mutexes never    *)
(* wait and are left out.                                                  *)
(***************************************************************************)
EXTENDS Integers, Sequences

VARIABLES
    regs,        \* uartlite_regs; status and control are sets of flags
    rx, tx,      \* the two queues
    wait_ack,    \* the transmit queue ran empty and no register was read since
    out          \* what the terminal has received

uartVars == <<regs, rx, tx, wait_ack, out>>

UartInit ==
    /\ regs = [rx_fifo |-> 0, tx_fifo |-> 0, status |-> {"TX_FIFO_EMPTY"}, control |-> {}]
    /\ rx = <<>> /\ tx = <<>> /\ out = <<>>
    /\ wait_ack = FALSE

\* Mutant: a read does not acknowledge the empty transmit queue.
do_read_unacknowledged(r) ==
    /\ regs' = IF rx # <<>> THEN [regs EXCEPT !.status = @ \cup {"VALID"}, !.rx_fifo = Head(rx)]
                            ELSE [regs EXCEPT !.status = @ \ {"VALID"}]
    /\ rx' = IF r = "rx_fifo" /\ rx # <<>> THEN Tail(rx) ELSE rx
    /\ UNCHANGED <<wait_ack, tx, out>>

\* Mutant: any read takes a character off the queue.
do_read_pops(r) ==
    /\ regs' = IF rx # <<>> THEN [regs EXCEPT !.status = @ \cup {"VALID"}, !.rx_fifo = Head(rx)]
                            ELSE [regs EXCEPT !.status = @ \ {"VALID"}]
    /\ rx' = IF rx # <<>> THEN Tail(rx) ELSE rx
    /\ wait_ack' = FALSE
    /\ UNCHANGED <<tx, out>>

\* The value read is regs'[r].
do_read(r) ==
    /\ regs' = IF rx # <<>> THEN [regs EXCEPT !.status = @ \cup {"VALID"}, !.rx_fifo = Head(rx)]
                            ELSE [regs EXCEPT !.status = @ \ {"VALID"}]
    /\ rx' = IF r = "rx_fifo" /\ rx # <<>> THEN Tail(rx) ELSE rx
    /\ wait_ack' = FALSE
    /\ UNCHANGED <<tx, out>>

\* The overlap test includes the byte after the access, so a write to the
\* register before tx_fifo or control acts on what that register holds.
do_write(r, v) ==
    LET after == [regs EXCEPT ![r] = v]
        reset == IF r \in {"status", "control"} THEN after.control ELSE {}
        pushed == IF r \in {"rx_fifo", "tx_fifo"} THEN Append(tx, after.tx_fifo) ELSE tx
    IN /\ regs' = after
       /\ tx' = IF "RST_TX" \in reset THEN <<>> ELSE pushed
       /\ rx' = IF "RST_RX" \in reset THEN <<>> ELSE rx
       /\ UNCHANGED <<wait_ack, out>>

irq == rx # <<>> \/ wait_ack

\* Mutant: one character goes to the terminal and the queue is emptied.
StepOneChar(input) ==
    /\ out' = IF tx = <<>> THEN out ELSE Append(out, Head(tx))
    /\ tx' = <<>>
    /\ wait_ack' = (wait_ack \/ tx # <<>>)
    /\ rx' = rx \o input
    /\ UNCHANGED regs

\* The transmit queue goes to the terminal, then what was typed comes in.
Step(input) ==
    /\ out' = out \o tx
    /\ tx' = <<>>
    /\ wait_ack' = (wait_ack \/ tx # <<>>)
    /\ rx' = rx \o input
    /\ UNCHANGED regs
============================================================================
