------------------------------ MODULE Platform ------------------------------
(***************************************************************************)
(* The run loop of DefaultPlatform with its two cores, the interrupt       *)
(* controller and the serial port, and a guest that drives them.           *)
(*                                                                         *)
(* The loop updates the interrupt controllers, steps core 0, steps core 1  *)
(* and, every StepPeriod rounds (100 in the code), steps the serial port.  *)
(* A step of a core is one instruction, so at most one device access.  A   *)
(* core takes a step that does something else whenever it likes (Compute); *)
(* what its seip bit shows, claim # 0, is as old as the round.             *)
(*                                                                         *)
(* The guest is external: the interrupt handler of a driver for this       *)
(* controller and this port, which both cores run.  The interrupt is       *)
(* routed to one core at a time and moved by disabling it on the one before *)
(* enabling it on the other.  Characters are numbered in the order they    *)
(* are typed (received) or written by the guest (sent).                    *)
(***************************************************************************)
EXTENDS RVPLICtrl, UartLite

CONSTANTS
    StepPeriod,           \* rounds between two steps of the serial port
    MaxIn, MaxOut,        \* bounds: characters typed, characters written
    MaxMoves              \* bound: how often the interrupt is moved

Core == {"core0", "core1"}
\* The context of a core's seip line.
Ctx == [core0 |-> 1, core1 |-> 3]
\* The serial port's interrupt number.
Uart == 1

ASSUME PlatformAssumption ==
    /\ Source = {Uart} /\ Context = {Ctx[h] : h \in Core} /\ MaxLevel >= 1
    /\ StepPeriod \in Nat \ {0} /\ MaxIn \in Nat /\ MaxOut \in Nat /\ MaxMoves \in Nat

VARIABLES
    turn, counter,             \* the run loop: whose turn, rounds since the port's step
    pc,                        \* where each core's guest code is
    moves,                     \* how often the interrupt was moved
    received, dropped, sent,   \* characters typed, discarded by a reset, written
    got                        \* what the guest has read

guestVars == <<pc, moves, received, dropped, sent, got>>
vars == <<plicVars, uartVars, turn, counter, guestVars>>

Setup == {"reset", "priority", "route"}
Handler == {"status", "receive", "complete"}

PlatformTypeOK ==
    /\ turn \in Core \cup {"intc", "dev"}
    /\ counter \in 0 .. StepPeriod - 1
    /\ pc \in [Core -> Setup \cup Handler \cup {"main", "claim", "unmask"}]
    /\ moves \in 0 .. MaxMoves
    /\ received \in 0 .. MaxIn /\ dropped \in 0 .. MaxIn /\ sent \in 0 .. MaxOut
    /\ wait_ack \in BOOLEAN

Init ==
    /\ PlicInit /\ UartInit
    /\ turn = "intc" /\ counter = 0
    /\ pc = [core0 |-> "reset", core1 |-> "main"]
    /\ moves = 0 /\ received = 0 /\ dropped = 0 /\ sent = 0
    /\ got = <<>>

----------------------------------------------------------------------------
(* The run loop. *)

NextTurn == [intc |-> "core0", core0 |-> "core1", core1 |-> "dev", dev |-> "intc"]

Pass(who) == turn = who /\ turn' = NextTurn[who]

\* Mutant: the claim register of core 1 is not computed.
UpdateIntcCore0 ==
    /\ Pass("intc")
    /\ pending' = IF irq THEN pending \cup {Uart} ELSE pending
    /\ claim' = [claim EXCEPT ![1] = get_int(1, pending')]
    /\ UNCHANGED <<priority, threshold, enable, claimed, held, shared, uartVars, counter, guestVars>>

UpdateIntc ==
    /\ Pass("intc")
    /\ UpdateIntState(IF irq THEN {Uart} ELSE {})
    /\ UNCHANGED <<uartVars, counter, guestVars>>

\* The port is stepped when the counter reaches StepPeriod, which resets it.
DevIdle ==
    /\ Pass("dev")
    /\ counter + 1 < StepPeriod
    /\ counter' = counter + 1
    /\ UNCHANGED <<plicVars, uartVars, guestVars>>

\* Mutant: the counter is not reset.
DevStepCounts ==
    /\ Pass("dev")
    /\ counter + 1 = StepPeriod
    /\ counter' = counter + 1
    /\ \E n \in 0 .. MaxIn - received :
          /\ Step([i \in 1 .. n |-> received + i])
          /\ received' = received + n
    /\ UNCHANGED <<plicVars, pc, moves, dropped, sent, got>>

DevStep ==
    /\ Pass("dev")
    /\ counter + 1 = StepPeriod
    /\ counter' = 0
    /\ \E n \in 0 .. MaxIn - received :
          /\ Step([i \in 1 .. n |-> received + i])
          /\ received' = received + n
    /\ UNCHANGED <<plicVars, pc, moves, dropped, sent, got>>

----------------------------------------------------------------------------
(* The guest: one instruction of core h. *)

At(h, here) == Pass(h) /\ pc[h] = here /\ UNCHANGED counter
Goto(h, there) == pc' = [pc EXCEPT ![h] = there]

Compute(h) ==
    /\ Pass(h)
    /\ UNCHANGED <<plicVars, uartVars, counter, guestVars>>

\* Set-up, on core 0: reset the port, give the interrupt a priority, route it.
ResetPort(h) ==
    /\ At(h, "reset") /\ Goto(h, "priority")
    /\ do_write("control", {"RST_TX", "RST_RX"})
    /\ dropped' = received
    /\ UNCHANGED <<plicVars, moves, received, sent, got>>

SetPriority(h) ==
    /\ At(h, "priority") /\ Goto(h, "route")
    /\ WritePriority(Uart, 1)
    /\ UNCHANGED <<uartVars, moves, received, dropped, sent, got>>

Route(h) ==
    /\ At(h, "route") /\ Goto(h, "main")
    /\ WriteEnable(Ctx[h], {Uart})
    /\ UNCHANGED <<uartVars, moves, received, dropped, sent, got>>

\* The interrupt handler.
Trap(h) ==
    /\ At(h, "main") /\ Goto(h, "claim")
    /\ claim[Ctx[h]] # 0
    /\ UNCHANGED <<plicVars, uartVars, moves, received, dropped, sent, got>>

Claim(h) ==
    /\ At(h, "claim")
    /\ ReadClaim(Ctx[h])
    /\ Goto(h, IF claim[Ctx[h]] = 0 THEN "main" ELSE "status")
    /\ UNCHANGED <<uartVars, moves, received, dropped, sent, got>>

Status(h) ==
    /\ At(h, "status")
    /\ do_read("status")
    /\ Goto(h, IF "VALID" \in regs'.status THEN "receive" ELSE "complete")
    /\ UNCHANGED <<plicVars, moves, received, dropped, sent, got>>

Receive(h) ==
    /\ At(h, "receive") /\ Goto(h, "status")
    /\ do_read("rx_fifo")
    /\ got' = Append(got, regs'.rx_fifo)
    /\ UNCHANGED <<plicVars, moves, received, dropped, sent>>

Complete(h) ==
    /\ At(h, "complete") /\ Goto(h, "main")
    /\ WriteComplete(Ctx[h], Uart)
    /\ UNCHANGED <<uartVars, moves, received, dropped, sent, got>>

\* Any core writes to the console; core 0 moves the interrupt.
Transmit(h) ==
    /\ At(h, "main") /\ pc["core0"] \notin Setup
    /\ sent < MaxOut
    /\ do_write("tx_fifo", sent + 1)
    /\ sent' = sent + 1
    /\ UNCHANGED <<plicVars, pc, moves, received, dropped, got>>

Mask(h) ==
    /\ h = "core0" /\ At(h, "main") /\ Goto(h, "unmask")
    /\ moves < MaxMoves /\ moves' = moves + 1
    /\ \E c \in Context : Uart \in enable[c] /\ WriteEnable(c, {})
    /\ UNCHANGED <<uartVars, received, dropped, sent, got>>

Unmask(h) ==
    /\ At(h, "unmask") /\ Goto(h, "main")
    /\ \E c \in Context : WriteEnable(c, {Uart})
    /\ UNCHANGED <<uartVars, moves, received, dropped, sent, got>>

\* What the guest will do next if it does not only compute.
Driver(h) ==
    \/ ResetPort(h) \/ SetPriority(h) \/ Route(h) \/ Unmask(h)
    \/ Trap(h) \/ Claim(h) \/ Status(h) \/ Receive(h) \/ Complete(h)

Next ==
    \/ UpdateIntc \/ DevIdle \/ DevStep
    \/ \E h \in Core : Compute(h) \/ Driver(h) \/ Transmit(h) \/ Mask(h)

\* The loop never ends; the guest does not stay for ever between two accesses
\* of a handler, and takes an interrupt that is never withdrawn.
Spec == Init /\ [][Next]_vars /\ WF_vars(Next) /\ \A h \in Core : SF_vars(Driver(h))

----------------------------------------------------------------------------
\* Two cores never serve the port at once, though each acts on a claim
\* register computed before the other one's last step.
OneHandler ==
    \A h, k \in Core : pc[h] \in Handler /\ pc[k] \in Handler => h = k

\* The guest reads what was typed after its reset, each character once and in
\* order: status and data are two accesses, and a data read with an empty
\* queue would return the last character again.
RxInOrder ==
    got \o rx = [i \in 1 .. received - dropped |-> dropped + i]

\* The terminal gets what the guest wrote, each character once and in order.
TxInOrder ==
    out \o tx = [i \in 1 .. sent |-> i]

\* Whatever is typed is read: no order of claim, completion, a character that
\* arrives in between and a move of the interrupt leaves the port unserved.
InputRead == []<>(rx = <<>>)

\* When nothing is typed or written any more, the interrupt goes away: the
\* guest is not trapped for ever by a line nobody clears.
InterruptsSettle == <>[](~irq /\ \A h \in Core : pc[h] = "main" /\ claim[Ctx[h]] = 0)
============================================================================
