--------------------------- MODULE TimerPlatform ---------------------------
(***************************************************************************)
(* The run loop with the core-local interruptor and the machine-mode       *)
(* firmware of two cores, which arms timers and sends interrupts to the    *)
(* other core.                                                             *)
(*                                                                         *)
(* The loop samples the lines, then steps core 0, then core 1: what core 0 *)
(* writes into core 1's registers is not in the lines core 1 sees in the   *)
(* same round.  The firmware is external.  It is not interrupted in its    *)
(* handlers or while it arms a timer; a message is left in the mailbox of  *)
(* the other core before its interrupt is raised, and a handler lowers its *)
(* interrupt before it takes the message.                                  *)
(***************************************************************************)
EXTENDS RVCLInt

CONSTANTS
    Deadline,    \* the times timers are armed for
    MaxArms,     \* bound: timers armed, by each core
    MaxSends     \* bound: messages sent, by each core

Core == {"core0", "core1"}
Other == [core0 |-> "core1", core1 |-> "core0"]

ASSUME TimerAssumption ==
    /\ Hart = Core /\ Deadline \subseteq Register
    /\ MaxArms \in Nat /\ MaxSends \in Nat

VARIABLES
    turn,              \* the run loop: whose turn
    pc,                \* where each core's firmware is
    mtie,              \* whether its timer interrupt is enabled
    deadline,          \* what its timer was armed for
    mailbox,           \* whether a message waits for it
    arms, sends        \* timers armed and messages sent so far

guestVars == <<pc, mtie, deadline, mailbox, arms, sends>>
vars == <<clintVars, turn, guestVars>>

PC == {"main", "low", "high", "enable", "expired", "raise", "lower", "take"}

TimerTypeOK ==
    /\ ClintTypeOK
    /\ turn \in Core \cup {"intc"}
    /\ pc \in [Core -> PC]
    /\ mtie \in [Core -> BOOLEAN]
    /\ deadline \in [Core -> Register]
    /\ mailbox \in [Core -> BOOLEAN]
    /\ arms \in [Core -> 0 .. MaxArms] /\ sends \in [Core -> 0 .. MaxSends]

Init ==
    /\ ClintInit
    /\ turn = "intc"
    /\ pc = [h \in Core |-> "main"]
    /\ mtie = [h \in Core |-> FALSE]
    /\ deadline = [h \in Core |-> [hi |-> 0, lo |-> 0]]
    /\ mailbox = [h \in Core |-> FALSE]
    /\ arms = [h \in Core |-> 0] /\ sends = [h \in Core |-> 0]

----------------------------------------------------------------------------
NextTurn == [intc |-> "core0", core0 |-> "core1", core1 |-> "intc"]

Pass(who) == turn = who /\ turn' = NextTurn[who]

UpdateIntc ==
    /\ Pass("intc")
    /\ UpdateIntState
    /\ UNCHANGED guestVars

At(h, here) == Pass(h) /\ pc[h] = here
Goto(h, there) == pc' = [pc EXCEPT ![h] = there]

\* Any other instruction.
Compute(h) ==
    /\ Pass(h)
    /\ UNCHANGED <<clintVars, guestVars>>

\* A timer is armed with one write or, high half last, with two.
Arm(h) ==
    /\ At(h, "main")
    /\ arms[h] < MaxArms /\ arms' = [arms EXCEPT ![h] = @ + 1]
    /\ \E r \in Deadline :
          /\ deadline' = [deadline EXCEPT ![h] = r]
          /\ \/ WriteTimecmp(h, r) /\ Goto(h, "enable")
             \/ WriteTimecmpLow(h, r) /\ Goto(h, "high")
    /\ UNCHANGED <<mtie, mailbox, sends>>

ArmHigh(h) ==
    /\ At(h, "high") /\ Goto(h, "enable")
    /\ WriteTimecmpHigh(h, deadline[h])
    /\ UNCHANGED <<mtie, deadline, mailbox, arms, sends>>

EnableTimer(h) ==
    /\ At(h, "enable") /\ Goto(h, "main")
    /\ mtie' = [mtie EXCEPT ![h] = TRUE]
    /\ UNCHANGED <<clintVars, deadline, mailbox, arms, sends>>

\* The core takes the software interrupt before the timer's.
TrapSoftware(h) ==
    /\ At(h, "main") /\ Goto(h, "lower")
    /\ msipLine[h]
    /\ UNCHANGED <<clintVars, mtie, deadline, mailbox, arms, sends>>

TrapTimer(h) ==
    /\ At(h, "main") /\ Goto(h, "expired")
    /\ ~msipLine[h] /\ mtip[h] /\ mtie[h]
    /\ UNCHANGED <<clintVars, mtie, deadline, mailbox, arms, sends>>

\* The timer's handler disables it until it is armed again.
Expire(h) ==
    /\ At(h, "expired") /\ Goto(h, "main")
    /\ mtie' = [mtie EXCEPT ![h] = FALSE]
    /\ UNCHANGED <<clintVars, deadline, mailbox, arms, sends>>

\* A message to the other core, and its interrupt.
Post(h) ==
    /\ At(h, "main") /\ Goto(h, "raise")
    /\ sends[h] < MaxSends /\ sends' = [sends EXCEPT ![h] = @ + 1]
    /\ mailbox' = [mailbox EXCEPT ![Other[h]] = TRUE]
    /\ UNCHANGED <<clintVars, mtie, deadline, arms>>

Raise(h) ==
    /\ At(h, "raise") /\ Goto(h, "main")
    /\ WriteMsip(Other[h], 1)
    /\ UNCHANGED <<mtie, deadline, mailbox, arms, sends>>

Lower(h) ==
    /\ At(h, "lower") /\ Goto(h, "take")
    /\ WriteMsip(h, 0)
    /\ UNCHANGED <<mtie, deadline, mailbox, arms, sends>>

Take(h) ==
    /\ At(h, "take") /\ Goto(h, "main")
    /\ mailbox' = [mailbox EXCEPT ![h] = FALSE]
    /\ UNCHANGED <<clintVars, mtie, deadline, arms, sends>>

\* What the firmware has begun, and the interrupts it takes.
Driver(h) ==
    \/ ArmHigh(h) \/ EnableTimer(h) \/ TrapTimer(h) \/ Expire(h)
    \/ TrapSoftware(h) \/ Raise(h) \/ Lower(h) \/ Take(h)

Next ==
    \/ UpdateIntc
    \/ \E h \in Core : Compute(h) \/ Driver(h) \/ Arm(h) \/ Post(h)

Spec == Init /\ [][Next]_vars /\ WF_vars(Next) /\ \A h \in Core : SF_vars(Driver(h))

----------------------------------------------------------------------------
\* A timer does not expire early: the line a core sees is sampled, but never
\* with what the compare register held before the core armed its timer, nor
\* with one half of it.
NotEarly ==
    \A h \in Core : pc[h] = "expired" => mtime >= Value(deadline[h])

\* A message that waits has an interrupt that will announce it, or is about to
\* be taken, however lowering the interrupt and raising it again interleave.
NoLostMessage ==
    \A h \in Core : mailbox[h] =>
        msip[h] = 1 \/ pc[h] = "take" \/ pc[Other[h]] = "raise"

\* A timer that is enabled expires.
TimerExpires == \A h \in Core : mtie[h] ~> ~mtie[h]

\* A message is taken.
MessageTaken == \A h \in Core : mailbox[h] ~> ~mailbox[h]

\* No interrupt is left over once nobody sends or arms.
LinesSettle == <>[](\A h \in Core : ~msipLine[h] /\ pc[h] = "main")
============================================================================
