------------------------------ MODULE GDBStub ------------------------------
(***************************************************************************)
(* The GDB stub (src/gdb_stub) and the debugger at the other end of the    *)
(* remote serial protocol.                                                 *)
(*                                                                         *)
(* The stub is one thread: it receives a packet (recvPacket), dispatches   *)
(* it (Debug_GDBStub) and sends the reply (packingAndSend), which waits    *)
(* for an acknowledgement.  While the core runs it reads nothing.  Packets *)
(* are received through a stdio stream made anew for each, which reads     *)
(* ahead and takes what it read with it; acknowledgements are read from    *)
(* the descriptor itself.                                                  *)
(*                                                                         *)
(* The debugger is external: it waits for each packet to be acknowledged,  *)
(* sends it again on a "-", ignores a reply that comes instead of an       *)
(* acknowledgement, acknowledges a reply, and gives up an answer when all  *)
(* is quiet.  It may interrupt a running program (0x03), which the stub    *)
(* does not support.                                                       *)
(*                                                                         *)
(* A link is what may happen on the wire: packets to the stub garbled or   *)
(* without their "$", replies garbled, an acknowledgement of the stub      *)
(* lost, interrupts.  Acknowledgements of the debugger arrive.  The stub   *)
(* compares checksums only when it is built without CONFIG_DEBUG_ENABLE,   *)
(* which sdkconfig.h sets; otherwise a garbled packet is an order like any *)
(* other, and so is one, to either build, whose damage keeps its sum.      *)
(***************************************************************************)
EXTENDS GDBTarget, SequencesExt

CONSTANTS
    Command,     \* the commands the debugger may give
    Link,        \* links: [checked, kinds, faults, interrupts]
    MaxRetry     \* how often a packet is asked for, or a reply sent, again (10)

ASSUME StubAssumption == MaxRetry \in Nat

VARIABLES
    link,        \* the link of this session; checked: damage shows in the checksums
                 \* and they are compared
    damage,      \* faults of each kind so far
    interrupts,  \* interrupts sent so far
    stub,        \* where the stub is: recv, dispatch, running, ack, dead when it gave
                 \* up, or aborted when the emulator ended otherwise
    tries,       \* nr_retry_times of recvPacket or packingAndSend
    protocol,    \* recvPacket is in its second loop
    packet,      \* the command received
    reply,       \* the reply of the last command
    target,      \* the debugged core
    debugger,    \* where the debugger is: idle, ack or reply
    cmd,         \* its last command
    got,         \* what it last got
    toStub, toDebugger,   \* the two directions of the connection
    performed    \* history: the last command has been performed

stubVars == <<stub, tries, protocol, packet, reply, target>>
debuggerVars == <<debugger, cmd, got>>
linkVars == <<link, damage, interrupts>>
vars == <<stubVars, debuggerVars, linkVars, performed, toStub, toDebugger>>

Pending == Reply("pending", <<>>)     \* nothing answered yet

\* No damage to a packet goes unnoticed.
Trusted == "garbled" \in link.kinds => link.checked

Session == INSTANCE GDBSession WITH
    trusted <- Trusted,
    answer <- IF performed THEN reply ELSE Pending,
    stage <- IF stub \in {"dead", "aborted"} THEN stub
             ELSE IF debugger = "idle" THEN "idle"
             ELSE IF stub = "running" THEN "running"
             ELSE IF ~performed THEN "asked"
             ELSE "done"

----------------------------------------------------------------------------
(* The wire.                                                               *)

Ack == [char |-> "+"]
Nak == [char |-> "-"]
Interrupt == [char |-> "^C"]
Packet(body) == [char |-> "$", form |-> "sound", body |-> body]

IsPacket(m) == m.char = "$"
Sound(m) == IsPacket(m) /\ m.form = "sound"

Kind == {"garbled", "beheaded", "reply", "ack"}
Damage(kind) ==
    /\ kind \in link.kinds
    /\ damage' = [damage EXCEPT ![kind] = @ + 1]
Damages == damage["garbled"] + damage["beheaded"] + damage["reply"] + damage["ack"]

\* What a damaged packet may be read as, where that matters.
Misread(kind) ==
    IF kind = "garbled" /\ ~link.checked THEN Command \cup {NoCommand} ELSE {NoCommand}

Spoil(kind) ==
    /\ kind \in {"garbled", "beheaded"}
    /\ \E i \in DOMAIN toStub, body \in Misread(kind) :
          /\ Sound(toStub[i])
          /\ toStub' = [toStub EXCEPT ![i] = [char |-> "$", form |-> kind, body |-> body]]
    /\ Damage(kind)
    /\ UNCHANGED toDebugger

SpoilReply ==
    /\ \E i \in DOMAIN toDebugger :
          Sound(toDebugger[i]) /\ toDebugger' = [toDebugger EXCEPT ![i].form = "garbled"]
    /\ Damage("reply")
    /\ UNCHANGED toStub

LoseAck ==
    /\ toDebugger # <<>> /\ Head(toDebugger) = Ack /\ toDebugger' = Tail(toDebugger)
    /\ Damage("ack")
    /\ UNCHANGED toStub

Fault ==
    /\ Damages < link.faults
    /\ SpoilReply \/ LoseAck \/ \E kind \in Kind : Spoil(kind)
    /\ UNCHANGED <<stubVars, debuggerVars, performed, link, interrupts>>

----------------------------------------------------------------------------
(* recvPacket.                                                             *)

\* recvAndCheck: what precedes a packet is skipped, and the stream that is
\* dropped afterwards may have read any part of what follows it.
recvAndCheck ==
    LET first == SelectInSeq(toStub, IsPacket)
    IN  /\ stub = "recv"
        /\ first # 0
        /\ \E last \in first .. Len(toStub) : toStub' = SubSeq(toStub, last + 1, Len(toStub))

Received == toStub[SelectInSeq(toStub, IsPacket)]

Feedback ==
    CASE Received.form = "beheaded"                 -> "PROTOCOL_ERR"
      [] Received.form = "garbled" /\ link.checked  -> "CHKSUM_ERR"
      [] OTHER                                      -> "OK"

\* Mutant: a protocol error is not asked for again.
AskAgain_checksums == Feedback = "CHKSUM_ERR" /\ ~protocol

\* The first loop is for checksum errors, the second for protocol errors; a
\* checksum error in the second ends it.
AskAgain == Feedback = "PROTOCOL_ERR" \/ (Feedback = "CHKSUM_ERR" /\ ~protocol)

recvPacket ==
    /\ recvAndCheck
    /\ \/ /\ Feedback = "OK"
          /\ stub' = "dispatch" /\ packet' = Received.body
          /\ tries' = 0 /\ protocol' = FALSE
          /\ toDebugger' = Append(toDebugger, Ack)
       \/ /\ AskAgain /\ tries < MaxRetry
          /\ tries' = tries + 1 /\ protocol' = (Feedback = "PROTOCOL_ERR")
          /\ toDebugger' = Append(toDebugger, Nak)
          /\ UNCHANGED <<stub, packet>>
       \/ /\ AskAgain /\ tries >= MaxRetry
          /\ stub' = "dead"
          /\ UNCHANGED <<tries, protocol, packet, toDebugger>>
       \/ /\ Feedback = "CHKSUM_ERR" /\ protocol
          /\ stub' = "dead"
          /\ toDebugger' = Append(toDebugger, Ack)
          /\ UNCHANGED <<tries, protocol, packet>>
    /\ UNCHANGED <<target, reply, debuggerVars, linkVars, performed>>

----------------------------------------------------------------------------
(* Debug_GDBStub: every command is acknowledged a second time.             *)

packingAndSend(text, acks) ==
    /\ reply' = text
    /\ stub' = "ack" /\ tries' = 0
    /\ toDebugger' = toDebugger \o acks \o <<Packet(text)>>

Perform ==
    /\ stub = "dispatch"
    /\ ~Resumes(packet) /\ ~Undispatched(packet)
    /\ \E outcome \in Effect(target, packet) :
          /\ outcome.reply # Aborted
          /\ target' = outcome.target
          /\ IF outcome.reply = Unanswered
             THEN /\ reply' = Unanswered
                  /\ stub' = "recv"
                  /\ toDebugger' = Append(toDebugger, Ack)
                  /\ UNCHANGED tries
             ELSE packingAndSend(outcome.reply, <<Ack>>)
    /\ performed' = TRUE
    /\ UNCHANGED <<packet, protocol, debuggerVars, linkVars, toStub>>

\* The command ends the emulator; it is acknowledged before.
Abort ==
    /\ stub = "dispatch" /\ stub' = "aborted"
    /\ ~Resumes(packet) /\ ~Undispatched(packet)
    /\ \E outcome \in Effect(target, packet) : outcome.reply = Aborted
    /\ toDebugger' = Append(toDebugger, Ack)
    /\ UNCHANGED <<tries, protocol, packet, reply, target, debuggerVars, linkVars, performed, toStub>>

cmd_Continue ==
    /\ stub = "dispatch" /\ stub' = "running"
    /\ Resumes(packet)
    /\ toDebugger' = Append(toDebugger, Ack)
    /\ UNCHANGED <<tries, protocol, packet, reply, target, debuggerVars, linkVars, performed, toStub>>

Step ==
    /\ stub = "running"
    /\ ~IsCurrentPCAtWatchPoint(target)
    /\ target' \in Stepped(target)
    /\ UNCHANGED <<stub, tries, protocol, packet, reply, performed,
                   debuggerVars, linkVars, toStub, toDebugger>>

\* An instruction may end the emulator.
StepAborts ==
    /\ stub = "running" /\ stub' = "aborted"
    /\ ~IsCurrentPCAtWatchPoint(target)
    /\ UNCHANGED <<tries, protocol, packet, reply, target, performed,
                   debuggerVars, linkVars, toStub, toDebugger>>

HitWatchPoint ==
    /\ stub = "running"
    /\ IsCurrentPCAtWatchPoint(target)
    /\ packingAndSend(Halted, <<>>)
    /\ performed' = TRUE
    /\ UNCHANGED <<packet, protocol, target, debuggerVars, linkVars, toStub>>

\* The default of the switch: assert(0).
NoSuchCase ==
    /\ stub = "dispatch" /\ stub' = "aborted"
    /\ Undispatched(packet)
    /\ UNCHANGED <<tries, protocol, packet, reply, target, debuggerVars, linkVars, performed,
                   toStub, toDebugger>>

\* The loop of packingAndSend reads one character at a time: of a packet it
\* would take the "$".
WithoutFirstChar ==
    IF Sound(Head(toStub)) THEN [toStub EXCEPT ![1].form = "beheaded"] ELSE Tail(toStub)

\* Mutant: a reply that is not acknowledged is made again, by the command.
AwaitAck_again ==
    /\ stub = "ack" /\ toStub # <<>>
    /\ toStub' = WithoutFirstChar
    /\ \/ /\ Head(toStub) = Ack \/ tries >= MaxRetry
          /\ stub' = "recv" /\ tries' = 0
       \/ /\ Head(toStub) # Ack /\ tries < MaxRetry
          /\ stub' = "dispatch" /\ tries' = tries + 1
    /\ UNCHANGED <<toDebugger, protocol, packet, reply, target, debuggerVars, linkVars, performed>>

\* Mutant: the loop gives up after the first answer that is no "+".
AwaitAck_once ==
    /\ stub = "ack" /\ toStub # <<>>
    /\ toStub' = WithoutFirstChar
    /\ stub' = "recv" /\ tries' = 0
    /\ UNCHANGED <<toDebugger, protocol, packet, reply, target, debuggerVars, linkVars, performed>>

\* Mutant: after a reply was sent again one "+" is not enough.
AwaitAck_twice ==
    /\ stub = "ack" /\ toStub # <<>>
    /\ toStub' = WithoutFirstChar
    /\ \/ /\ Head(toStub) = Ack
          /\ stub' = (IF tries = 0 THEN "recv" ELSE "ack") /\ tries' = 0
          /\ UNCHANGED toDebugger
       \/ /\ Head(toStub) # Ack
          /\ tries' = tries + 1
          /\ toDebugger' = Append(toDebugger, Packet(reply))
          /\ UNCHANGED stub
    /\ UNCHANGED <<protocol, packet, reply, target, debuggerVars, linkVars, performed>>

AwaitAck ==
    /\ stub = "ack" /\ toStub # <<>>
    /\ toStub' = WithoutFirstChar
    /\ \/ /\ Head(toStub) = Ack \/ tries >= MaxRetry
          /\ stub' = "recv" /\ tries' = 0
          /\ UNCHANGED toDebugger
       \/ /\ Head(toStub) # Ack /\ tries < MaxRetry
          /\ tries' = tries + 1
          /\ toDebugger' = Append(toDebugger, Packet(reply))
          /\ UNCHANGED stub
    /\ UNCHANGED <<protocol, packet, reply, target, debuggerVars, linkVars, performed>>

StubNext ==
    \/ recvPacket \/ Perform \/ Abort \/ NoSuchCase \/ AwaitAck
    \/ cmd_Continue \/ Step \/ StepAborts \/ HitWatchPoint

----------------------------------------------------------------------------
(* The debugger.                                                           *)

Ask ==
    /\ debugger = "idle" /\ debugger' = "ack"
    /\ stub \notin {"dead", "aborted"}
    /\ cmd' \in Command
    /\ toStub' = Append(toStub, Packet(cmd'))
    /\ performed' = FALSE
    /\ UNCHANGED <<got, stubVars, linkVars, toDebugger>>

Get(m) == toDebugger # <<>> /\ m = Head(toDebugger) /\ toDebugger' = Tail(toDebugger)
Put(m) == toStub' = Append(toStub, m)

ExpectAck ==
    /\ debugger = "ack"
    /\ \/ Get(Ack) /\ debugger' = "reply" /\ UNCHANGED toStub
       \/ Get(Nak) /\ Put(Packet(cmd)) /\ UNCHANGED debugger
       \/ /\ toDebugger # <<>> /\ IsPacket(Head(toDebugger))
          /\ Get(Head(toDebugger)) /\ Put(Ack) /\ UNCHANGED debugger
    /\ UNCHANGED <<cmd, got, stubVars, linkVars, performed>>

ExpectReply ==
    /\ debugger = "reply" /\ toDebugger # <<>>
    /\ Get(Head(toDebugger))
    /\ LET m == Head(toDebugger) IN
       \/ ~IsPacket(m) /\ UNCHANGED <<debugger, got, toStub>>
       \/ Sound(m) /\ got' = m.body /\ debugger' = "idle" /\ Put(Ack)
       \/ IsPacket(m) /\ ~Sound(m) /\ Put(Nak) /\ UNCHANGED <<debugger, got>>
    /\ UNCHANGED <<cmd, stubVars, linkVars, performed>>

GiveUp ==
    /\ debugger = "reply" /\ debugger' = "idle"
    /\ stub = "recv" /\ toDebugger = <<>>
    /\ \A i \in DOMAIN toStub : ~IsPacket(toStub[i])
    /\ got' = Unanswered
    /\ Put(Nak)
    /\ UNCHANGED <<cmd, stubVars, linkVars, performed, toDebugger>>

SendInterrupt ==
    /\ debugger = "reply" /\ cmd.op = "c"
    /\ interrupts < link.interrupts /\ interrupts' = interrupts + 1
    /\ Put(Interrupt)
    /\ UNCHANGED <<link, damage, debuggerVars, stubVars, performed, toDebugger>>

DebuggerNext == ExpectAck \/ ExpectReply \/ GiveUp

----------------------------------------------------------------------------
Init ==
    /\ link \in Link
    /\ damage = [k \in Kind |-> 0] /\ interrupts = 0
    /\ target \in Target /\ target.x0 = 0 /\ target.watch = {}
    /\ stub = "recv" /\ tries = 0 /\ protocol = FALSE
    /\ cmd = NoCommand /\ packet = NoCommand
    /\ reply = Unanswered /\ got = Pending
    /\ debugger = "idle"
    /\ toStub = <<>> /\ toDebugger = <<>>
    /\ performed = FALSE

\* The emulator has ended.
Ended == stub \in {"dead", "aborted"} /\ UNCHANGED vars

Next == StubNext \/ Ask \/ SendInterrupt \/ DebuggerNext \/ Fault \/ Ended

Fairness == WF_vars(StubNext) /\ WF_vars(DebuggerNext)

Spec == Init /\ [][Next]_vars
FairSpec == Spec /\ Fairness

----------------------------------------------------------------------------
(* Properties.                                                             *)

\* Every command is performed once, with an effect and the answer GDBTarget
\* gives it, and the debugger gets that answer or, on a bad link, none; only a
\* command that may end the emulator does, or the program.  The packets,
\* acknowledgements and retries implement the session.  Where damage goes
\* unnoticed the command performed may be another, still once, and the answer is
\* that one's.
SessionSpec == Session!Spec

\* packingAndSend reads its acknowledgement past the stream that receives
\* packets: it never finds a packet there, which would cost it its "$".
AckReadMeetsNoPacket == stub = "ack" /\ toStub # <<>> => ~IsPacket(Head(toStub))

\* Up to MaxRetry faults cost neither an answer nor the stub.  recvPacket gives
\* up only after more damaged packets, or at a wrong checksum in its second
\* loop; a reply is lost only after more damaged replies.  An interrupt leaves
\* acknowledgements too many behind, and packingAndSend takes one of those for
\* the reply's: after it one damaged reply is enough.
NoiseIsSurvived ==
    LET lost == debugger = "idle" /\ performed /\ got # reply
    IN  /\ stub = "dead" => \/ damage["garbled"] + damage["beheaded"] > MaxRetry
                            \/ protocol /\ damage["garbled"] > 0 /\ damage["beheaded"] > 0
        /\ lost => damage["reply"] > MaxRetry \/ (damage["reply"] > 0 /\ interrupts > 0)

\* A command the debugger has sent ends: it gets the answer, gives it up or
\* the stub is gone; a program that never comes to a watch point runs on.
CommandEnds ==
    (debugger # "idle") ~> (debugger = "idle" \/ stub \in {"running", "dead", "aborted"})
============================================================================
