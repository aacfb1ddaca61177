-------------------------- MODULE MCTimerPlatform --------------------------
(* Registers of two halves of three values each, deadlines with both halves *)
(* different, and a clock that runs past them.                              *)
EXTENDS TimerPlatform

MCDeadline == {[hi |-> 0, lo |-> 2], [hi |-> 1, lo |-> 1]}
============================================================================
