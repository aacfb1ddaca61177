----------------------------- MODULE MCMMIOBus -----------------------------
(* Three devices on seven addresses; the RAM is large enough to hold the port. *)
EXTENDS MMIOBus

CONSTANTS ram, uart, plic

MCDev == {ram, uart, plic}
MCAddr == 0 .. 6
MCSize == {1, 2}
MCRegionSize == [d \in MCDev |-> CASE d = ram -> 3 [] d = uart -> 1 [] d = plic -> 2]
MCRam == {ram}
============================================================================
