----------------------------- MODULE GDBSession -----------------------------
(***************************************************************************)
(* A debugging session as the debugger means it: it gives one command at a *)
(* time, the core performs it once, and the answer of that command, no     *)
(* other, is what the debugger gets.  A command that resumes the core runs *)
(* the program until its pc is a watch point.                              *)
(*                                                                         *)
(* A command may end the emulator, by an assertion or an access outside    *)
(* the RAM, and so may the program it resumes.                             *)
(*                                                                         *)
(* There are no packets here.  GDBStub implements this specification over  *)
(* the remote serial protocol.  The session is trusted when damage to a    *)
(* command is noticed; in one that is not, as between a noisy line and the *)
(* stub as it is built (CONFIG_DEBUG_ENABLE), another command may be       *)
(* performed in place of the one that was given.                           *)
(***************************************************************************)
EXTENDS GDBTarget

CONSTANT Command      \* the commands the debugger may give

VARIABLES
    trusted,     \* damage to a command is noticed
    target,      \* the debugged core
    cmd,         \* the last command given
    stage,       \* idle, asked, running, done, or how the emulator ended: the stub gave
                 \* up the link (dead) or a command or the program ended it (aborted)
    answer,      \* the answer of cmd
    got          \* what the debugger last got

sessionVars == <<trusted, target, cmd, stage, answer, got>>

Pending == Reply("pending", <<>>)

\* The commands that may be performed.
Heard == {cmd} \cup IF trusted THEN {} ELSE Command \cup {NoCommand}

Init ==
    /\ trusted \in BOOLEAN
    /\ target \in Target
    /\ target.x0 = 0 /\ target.watch = {}
    /\ cmd = NoCommand
    /\ stage = "idle"
    /\ answer = Pending /\ got = Pending

Ask ==
    /\ stage = "idle" /\ stage' = "asked"
    /\ cmd' \in Command
    /\ answer' = Pending
    /\ UNCHANGED <<target, got>>

Perform ==
    /\ stage = "asked" /\ stage' = "done"
    /\ \E c \in Heard :
          /\ ~Resumes(c) /\ ~Undispatched(c)
          /\ \E outcome \in Effect(target, c) :
                /\ outcome.reply # Aborted
                /\ target' = outcome.target /\ answer' = outcome.reply
    /\ UNCHANGED <<cmd, got>>

Resume ==
    /\ stage = "asked" /\ stage' = "running"
    /\ \E c \in Heard : Resumes(c)
    /\ UNCHANGED <<target, cmd, answer, got>>

Run ==
    /\ stage = "running"
    /\ ~IsCurrentPCAtWatchPoint(target)
    /\ target' \in Stepped(target)
    /\ UNCHANGED <<cmd, stage, answer, got>>

Stop ==
    /\ stage = "running" /\ stage' = "done"
    /\ IsCurrentPCAtWatchPoint(target)
    /\ answer' = Halted
    /\ UNCHANGED <<target, cmd, got>>

Take ==
    /\ stage = "done" /\ stage' = "idle"
    /\ got' = answer
    /\ UNCHANGED <<target, cmd, answer>>

\* The link is so bad that the answer is given up, or the stub.
Lose ==
    /\ stage = "done" /\ stage' = "idle"
    /\ got' = Unanswered
    /\ UNCHANGED <<target, cmd, answer>>

\* The emulator ends in the middle of a command that may end it, or of the program.
Abort ==
    /\ \/ stage = "asked" /\ \E c \in Heard : MayAbort(target, c)
       \/ stage = "running" /\ ~IsCurrentPCAtWatchPoint(target)
    /\ stage' = "aborted"
    /\ UNCHANGED <<target, cmd, answer, got>>

\* The stub gives up the link before the command has come through.
Die ==
    /\ stage = "asked" /\ stage' = "dead"
    /\ UNCHANGED <<target, cmd, answer, got>>

Next ==
    /\ Ask \/ Perform \/ Resume \/ Run \/ Stop \/ Take \/ Lose \/ Abort \/ Die
    /\ UNCHANGED trusted

Spec == Init /\ [][Next]_sessionVars
=============================================================================
