--------------------------- MODULE GDBStubProofs ---------------------------
(***************************************************************************)
(* Theorems about GDBStub, for any commands, devices and translations, any *)
(* links, checksums compared or not, and any number of retries.            *)
(*                                                                         *)
(* SessionInv relates the two directions of the connection: a packet is on *)
(* its way to the stub only while the command is in transit, an            *)
(* acknowledgement lies before it wherever the stub waits for one, and     *)
(* behind the acknowledgement of a command comes nothing but its reply.    *)
(* It carries the refinement of GDBSession.  The rest of NoiseInv pays for *)
(* every retry with a fault.                                               *)
(***************************************************************************)
EXTENDS GDBStub, SequenceTheorems, TLAPS

\* Sequences, of whatever elements.
IsSeq(s) == \E S : s \in Seq(S)

LEMMA LenOfSeq ==
    ASSUME NEW s, IsSeq(s)
    PROVE  Len(s) \in Nat /\ DOMAIN s = 1 .. Len(s) /\ (s = <<>> <=> Len(s) = 0)
<1>1. PICK S : s \in Seq(S)
    BY DEF IsSeq
<1> QED
    BY <1>1

LEMMA AppendSeq ==
    ASSUME NEW s, NEW m, IsSeq(s)
    PROVE  /\ IsSeq(Append(s, m)) /\ Len(Append(s, m)) = Len(s) + 1
           /\ \A i \in 1 .. Len(s) : Append(s, m)[i] = s[i]
           /\ Append(s, m)[Len(s) + 1] = m
<1>1. PICK S : s \in Seq(S)
    BY DEF IsSeq
<1>2. s \in Seq(S \cup {m}) /\ m \in S \cup {m}
    BY <1>1, SeqMonotonic
<1>3. Append(s, m) \in Seq(S \cup {m})
    BY <1>2
<1> QED
    BY <1>2, <1>3, AppendProperties DEF IsSeq

LEMMA TailSeq ==
    ASSUME NEW s, IsSeq(s), s # <<>>
    PROVE  /\ IsSeq(Tail(s)) /\ Len(s) >= 1 /\ Len(Tail(s)) = Len(s) - 1 /\ Head(s) = s[1]
           /\ \A i \in 1 .. Len(Tail(s)) : Tail(s)[i] = s[i + 1]
<1>1. PICK S : s \in Seq(S)
    BY DEF IsSeq
<1>2. Tail(s) \in Seq(S) /\ Len(Tail(s)) = Len(s) - 1 /\ Len(s) >= 1
      /\ \A i \in 1 .. Len(Tail(s)) : Tail(s)[i] = s[i + 1]
    BY <1>1
<1> QED
    BY <1>1, <1>2 DEF IsSeq

\* The messages are told apart by their first character.
LEMMA Messages ==
    /\ ~IsPacket(Ack) /\ ~IsPacket(Nak) /\ ~IsPacket(Interrupt)
    /\ Ack # Nak /\ Ack # Interrupt /\ Nak # Interrupt
    /\ \A body : /\ IsPacket(Packet(body)) /\ Packet(body).form = "sound"
         /\ Packet(body).body = body
                 /\ Packet(body) # Ack /\ Packet(body) # Nak
BY DEF IsPacket, Ack, Nak, Interrupt, Packet

\* What the loop of recvAndCheck finds.
LEMMA FirstPacket ==
    ASSUME NEW s, SelectInSeq(s, IsPacket) # 0
    PROVE \E k \in 1..Len(s) : IsPacket(s[k])
BY DEF SelectInSeq

LEMMA OnlyPacket ==
    ASSUME NEW s, NEW k \in 1 .. Len(s), IsPacket(s[k]), \A i \in 1 .. Len(s) : IsPacket(s[i])
           => i = k,
           Len(s) \in Nat
    PROVE SelectInSeq(s, IsPacket) = k
<1>1. {i \in 1 .. Len(s) : IsPacket(s[i])} = {k}
  OBVIOUS
<1> QED BY <1>1 DEF SelectInSeq, Min
\* packingAndSend puts one packet behind what is sent with it.
LEMMA PackOne == ASSUME NEW text, packingAndSend(text, <<>>), IsSeq(toDebugger)
   PROVE toDebugger' = Append(toDebugger, Packet(text))
<1>1. PICK S : toDebugger \in Seq(S)
    BY DEF IsSeq
<1>2. toDebugger \in Seq(S \cup {Packet(text)})
    BY <1>1, SeqMonotonic
<1> QED BY <1>2 DEF packingAndSend
LEMMA PackTwo == ASSUME NEW text, packingAndSend(text, <<Ack>>), IsSeq(toDebugger)
   PROVE toDebugger' = Append(Append(toDebugger, Ack), Packet(text))
<1>1. PICK S : toDebugger \in Seq(S)
    BY DEF IsSeq
<1>2. toDebugger \in Seq(S \cup {Ack, Packet(text)})
    BY <1>1, SeqMonotonic
<1> QED BY <1>2 DEF packingAndSend

----------------------------------------------------------------------------
(* The invariant of the session.                                           *)

\* What travels on the wire, and a wire that carries it.
Message(m) ==
    m \in {Ack, Nak, Interrupt} \/ \E f, b : m = [char |-> "$", form |-> f, body |-> b]

Wire(s) == IsSeq(s) /\ \A i \in 1 .. Len(s) : Message(s[i])

\* The types, as far as the proofs need them.
StubTypeOK ==
    /\ link \in Link /\ damage \in [Kind -> Nat] /\ interrupts \in Nat
    /\ stub \in {"recv", "dispatch", "running", "ack", "dead", "aborted"}
    /\ debugger \in {"idle", "ack", "reply"}
    /\ tries \in Nat /\ protocol \in BOOLEAN /\ performed \in BOOLEAN
    /\ Wire(toStub) /\ Wire(toDebugger)

\* The stub has not received the command the debugger has sent.
InTransit == debugger = "ack" /\ ~performed /\ stub \in {"recv", "ack"}

\* What the stub may take a command for that is given over the link l.
Hearable(given, l) ==
    {given} \cup IF "garbled" \in l.kinds /\ ~l.checked THEN Command \cup {NoCommand} ELSE {}

\* What the two sides know of each other.
Control ==
    /\ debugger = "idle" => stub \in {"recv", "ack"}
    /\ stub \in {"dispatch", "running"} => ~performed /\ packet \in Hearable(cmd, link) /\ tries = 0
    /\ stub \in {"dead", "aborted"} => ~performed
    /\ debugger = "reply" /\ ~performed => stub \notin {"recv", "ack"}

\* A packet is the last command or what may be heard of it, or recvAndCheck will
\* not take it for one.
OfCommand(m) ==
    \/ m.form = "sound" /\ m.body = cmd
    \/ m.form = "garbled" /\ (link.checked \/ m.body \in Hearable(cmd, link))
    \/ m.form = "beheaded"

\* A packet is on its way only while the command is in transit: none is left
\* behind for a later recvPacket or the loop of packingAndSend.
PacketIsCommand ==
    \A i \in 1 .. Len(toStub) : IsPacket(toStub[i]) =>
        InTransit /\ OfCommand(toStub[i])

\* recvAndCheck never has two packets before it, of which it would drop one.
OnePacket ==
    \A i, j \in 1 .. Len(toStub) : IsPacket(toStub[i]) /\ IsPacket(toStub[j]) => i = j

\* A "-" of recvPacket asks for the packet that is no longer on its way, once.
OneRequest ==
    /\ \A i \in 1 .. Len(toDebugger) : toDebugger[i] = Nak =>
          InTransit /\ \A j \in 1 .. Len(toStub) : ~IsPacket(toStub[j])
    /\ \A i, j \in 1 .. Len(toDebugger) : toDebugger[i] = Nak /\ toDebugger[j] = Nak => i = j

\* Where packingAndSend still waits although the debugger has its reply, or has
\* given the next command, an acknowledgement comes before any packet.
AckComesFirst ==
    stub = "ack" /\ (debugger = "idle" \/ ~performed) =>
        \E i \in 1 .. Len(toStub) : toStub[i] = Ack /\ \A j \in 1 .. i : ~IsPacket(toStub[j])

\* A "+" says that the command was received.
AcksReceived ==
    \A i \in 1 .. Len(toDebugger) : toDebugger[i] = Ack => debugger # "idle" /\ ~InTransit

\* After the acknowledgement of a command, only its reply follows.
RepliesInOrder ==
    \A j \in 1 .. Len(toDebugger) :
        /\ IsPacket(toDebugger[j])
        /\ debugger = "reply" \/ \E i \in 1 .. j : toDebugger[i] = Ack
        => /\ performed /\ toDebugger[j].body = reply
           /\ \A k \in j .. Len(toDebugger) : IsPacket(toDebugger[k])

SessionInv ==
    StubTypeOK /\ Control /\ PacketIsCommand /\ OnePacket /\ OneRequest /\ AckComesFirst
    /\ AcksReceived /\ RepliesInOrder

\* How the wire changes.
LEMMA AppendWire ==
    ASSUME NEW s, NEW m, Wire(s), Message(m)
    PROVE  /\ Wire(Append(s, m)) /\ Len(s) \in Nat /\ Len(Append(s, m)) = Len(s) + 1
           /\ \A i \in 1 .. Len(s) : Append(s, m)[i] = s[i]
           /\ Append(s, m)[Len(s) + 1] = m
<1>1. Len(s) \in Nat
    BY LenOfSeq DEF Wire
<1> QED
    BY <1>1, AppendSeq DEF Wire

LEMMA TailWire ==
    ASSUME NEW s, Wire(s), s # <<>>
    PROVE  /\ Wire(Tail(s)) /\ Len(s) \in Nat \ {0} /\ Len(Tail(s)) = Len(s) - 1 /\ Head(s) = s[1]
           /\ \A i \in 1 .. Len(Tail(s)) : i + 1 \in 1 .. Len(s) /\ Tail(s)[i] = s[i + 1]
<1>1. Len(s) \in Nat \ {0}
    BY LenOfSeq DEF Wire
<1> QED
    BY <1>1, TailSeq DEF Wire

Replace(s, k, m) == [s EXCEPT ![k] = m]

ReplacedWire(s, k, m, t) ==
    /\ Wire(t) /\ Len(s) \in Nat /\ Len(t) = Len(s)
    /\ \A i \in 1 .. Len(s) : t[i] = IF i = k THEN m ELSE s[i]

LEMMA ReplaceWire ==
    ASSUME NEW s, Wire(s), NEW k \in 1 .. Len(s), NEW m, Message(m)
    PROVE  ReplacedWire(s, k, m, Replace(s, k, m))
<1> DEFINE t == Replace(s, k, m)
<1>1. PICK S : s \in Seq(S)
    BY DEF Wire, IsSeq
<1>2. s \in Seq(S \cup {m}) /\ m \in S \cup {m}
    BY <1>1, SeqMonotonic
<1>3. t \in Seq(S \cup {m}) /\ Len(t) = Len(s)
    BY <1>2, ExceptSeq DEF Replace
<1>4. \A i \in 1 .. Len(s) : t[i] = IF i = k THEN m ELSE s[i]
    BY <1>2 DEF Replace
<1> HIDE DEF t
<1>5. \A i \in 1 .. Len(t) : Message(t[i])
    BY <1>3, <1>4, Zenon DEF Wire
<1>6. Len(s) \in Nat
    BY <1>2
<1>7. Wire(t)
    BY <1>3, <1>5, Zenon DEF Wire, IsSeq
<1> QED
    BY <1>3, <1>4, <1>6, <1>7, Zenon DEF t, ReplacedWire

LEMMA MessageIs ==
    /\ Message(Ack) /\ Message(Nak) /\ Message(Interrupt)
    /\ \A body : Message(Packet(body))
    /\ \A f, b : Message([char |-> "$", form |-> f, body |-> b])
BY DEF Message, Packet

Garbled(m) == [m EXCEPT !.form = "garbled"]

LEMMA GarbledMessage ==
    ASSUME NEW m, Message(m), IsPacket(m)
    PROVE  /\ Message(Garbled(m)) /\ IsPacket(Garbled(m)) /\ Garbled(m).form = "garbled"
           /\ Garbled(m).body = m.body /\ Garbled(m) # Nak /\ Garbled(m) # Ack
<1>1. PICK e, b : m = [char |-> "$", form |-> e, body |-> b]
    BY Messages DEF Message
<1> DEFINE g == [char |-> "$", form |-> "garbled", body |-> b]
<1>2. Garbled(m) = g /\ m.body = b
    BY <1>1 DEF Garbled
<1>3. Message(g) /\ IsPacket(g) /\ g # Nak /\ g # Ack
    BY Messages, MessageIs DEF IsPacket
<1> QED
    BY <1>2, <1>3

\* recvAndCheck takes the one packet, and leaves none.
LEMMA ReceiveOne ==
    ASSUME SessionInv, recvAndCheck
    PROVE  /\ InTransit /\ Wire(toStub')
           /\ \A i \in 1 .. Len(toStub') : ~IsPacket(toStub'[i])
           /\ \E k \in 1 .. Len(toStub) : Received = toStub[k] /\ IsPacket(toStub[k])
           /\ \A i \in 1 .. Len(toDebugger) : toDebugger[i] # Nak /\ toDebugger[i] # Ack
<1> USE DEF SessionInv, StubTypeOK
<1>1. PICK k \in 1 .. Len(toStub) : IsPacket(toStub[k])
    BY FirstPacket DEF recvAndCheck
<1>2. Len(toStub) \in Nat
    BY LenOfSeq DEF Wire
<1>3. SelectInSeq(toStub, IsPacket) = k /\ Received = toStub[k]
    BY <1>1, <1>2, OnlyPacket DEF OnePacket, Received
<1>4. PICK last \in k .. Len(toStub) : toStub' = SubSeq(toStub, last + 1, Len(toStub))
    BY <1>3 DEF recvAndCheck
<1>5. /\ Wire(toStub') /\ Len(toStub') = Len(toStub) - last
      /\ \A i \in 1 .. Len(toStub') : toStub'[i] = toStub[last + i]
  <2>1. PICK S : toStub \in Seq(S)
    BY DEF Wire, IsSeq
  <2>2. /\ toStub' \in Seq(S) /\ Len(toStub') = Len(toStub) - last
        /\ \A i \in 1 .. Len(toStub') : last + i \in 1 .. Len(toStub)
             /\ toStub'[i] = toStub[last + i]
    <3>1. last + 1 \in 1 .. Len(toStub) + 1 /\ last \in Nat /\ last <= Len(toStub)
      BY <1>2, <1>4
    <3>2. toStub' \in Seq(S) /\ Len(toStub') = Len(toStub) - last
      BY <1>2, <1>4, <2>1, <3>1
    <3>3. \A i \in 1 .. Len(toStub') : last + i \in 1 .. Len(toStub)
      BY <1>2, <3>1, <3>2
    <3>4. \A i \in 1 .. Len(toStub') : toStub'[i] = toStub[last + i]
      BY <1>2, <1>4, <2>1, <3>1, <3>2
    <3> QED
      BY <3>2, <3>3, <3>4
  <2>3. \A i \in 1 .. Len(toStub') : Message(toStub'[i])
    BY <2>2, Zenon DEF Wire
  <2> QED
    BY <2>2, <2>3, Zenon DEF Wire, IsSeq
<1>6. \A i \in 1 .. Len(toStub') : ~IsPacket(toStub'[i])
    BY <1>1, <1>2, <1>5 DEF OnePacket
<1>7. InTransit
    BY <1>1 DEF PacketIsCommand
<1> QED
    BY <1>1, <1>3, <1>5, <1>6, <1>7 DEF OneRequest, AcksReceived

----------------------------------------------------------------------------
(* Every step keeps it: the stub.                                          *)

LEMMA InitSession == Init => SessionInv
<1>1. ASSUME Init PROVE SessionInv
  <2>1. IsSeq(<<>>) /\ Len(<<>>) = 0
    BY DEF IsSeq
  <2>2. Wire(toStub) /\ Wire(toDebugger) /\ Len(toStub) = 0 /\ Len(toDebugger) = 0
    BY <1>1, <2>1 DEF Init, Wire
  <2>3. damage \in [Kind -> Nat] /\ link \in Link
    BY <1>1 DEF Init, Kind
  <2> HIDE DEF Kind
  <2>4. StubTypeOK
    BY <1>1, <2>2, <2>3 DEF Init, StubTypeOK
  <2> QED
    BY <1>1, <2>2, <2>4 DEF Init, SessionInv, StubTypeOK, Control, PacketIsCommand, OfCommand,
       OnePacket, OneRequest,
        AckComesFirst, AcksReceived, RepliesInOrder
<1> QED
    BY <1>1

\* A packet is dispatched only as something that may be heard of the command.
LEMMA recvPacketSafe ==
    ASSUME SessionInv, recvPacket
    PROVE  SessionInv'
<1> USE Messages, MessageIs DEF SessionInv, StubTypeOK
<1>1. /\ InTransit /\ Wire(toStub')
      /\ \A i \in 1 .. Len(toStub') : ~IsPacket(toStub'[i])
      /\ \A i \in 1 .. Len(toDebugger) : toDebugger[i] # Nak /\ toDebugger[i] # Ack
    BY ReceiveOne DEF recvPacket
<1>2. Feedback = "OK" => Received.body \in Hearable(cmd, link)
  <2>1. PICK k \in 1 .. Len(toStub) : Received = toStub[k] /\ IsPacket(toStub[k])
    BY ReceiveOne DEF recvPacket
  <2>2. Feedback = "OK" => Received.form # "beheaded"
            /\ ~(Received.form = "garbled" /\ link.checked)
    BY DEF Feedback
  <2>3. cmd \in Hearable(cmd, link)
    BY DEF Hearable
  <2> QED
    BY <2>1, <2>2, <2>3 DEF PacketIsCommand, OfCommand
<1>3. /\ debugger = "ack" /\ ~performed /\ UNCHANGED <<debugger, cmd, performed, link, damage,
           interrupts, reply>>
      /\ Len(toDebugger) \in Nat
    BY <1>1, LenOfSeq DEF recvPacket, InTransit, debuggerVars, linkVars, Wire
<1>4. CASE stub' = "dispatch" /\ packet' = Received.body /\ Feedback = "OK" /\ tries' = 0
             /\ protocol' = FALSE
              /\ toDebugger' = Append(toDebugger, Ack)
  <2>1. Wire(toDebugger') /\ Len(toDebugger') = Len(toDebugger) + 1
        /\ (\A i \in 1 .. Len(toDebugger) : toDebugger'[i] = toDebugger[i])
        /\ toDebugger'[Len(toDebugger) + 1] = Ack
    BY <1>4, AppendWire
  <2>2. ~InTransit' /\ StubTypeOK' /\ Control' /\ PacketIsCommand' /\ OnePacket' /\ AckComesFirst'
    BY <1>1, <1>2, <1>3, <1>4, <2>1 DEF Control, PacketIsCommand, OfCommand, OnePacket,
       AckComesFirst, InTransit
  <2>3. OneRequest' /\ AcksReceived' /\ RepliesInOrder'
    BY <1>1, <1>3, <1>4, <2>1, <2>2 DEF OneRequest, AcksReceived, RepliesInOrder
  <2> QED
    BY <2>2, <2>3
<1>5. CASE stub' = stub /\ tries' = tries + 1 /\ protocol' = (Feedback = "PROTOCOL_ERR")
              /\ toDebugger' = Append(toDebugger, Nak) /\ packet' = packet /\ stub = "recv"
  <2>1. Wire(toDebugger') /\ Len(toDebugger') = Len(toDebugger) + 1
        /\ (\A i \in 1 .. Len(toDebugger) : toDebugger'[i] = toDebugger[i])
        /\ toDebugger'[Len(toDebugger) + 1] = Nak
    BY <1>5, AppendWire
  <2> QED
    BY <1>1, <1>3, <1>5, <2>1 DEF Control, PacketIsCommand, OfCommand, OnePacket, OneRequest,
        AckComesFirst, AcksReceived, RepliesInOrder, InTransit
<1>6. CASE stub' = "dead" /\ toDebugger' = toDebugger /\ UNCHANGED <<tries, protocol, packet>>
    BY <1>1, <1>3, <1>6 DEF Control, PacketIsCommand, OfCommand, OnePacket, OneRequest,
        AckComesFirst, AcksReceived, RepliesInOrder, InTransit
<1>7. CASE stub' = "dead" /\ toDebugger' = Append(toDebugger, Ack)
             /\ UNCHANGED <<tries, protocol, packet>>
  <2>1. Wire(toDebugger') /\ Len(toDebugger') = Len(toDebugger) + 1
        /\ (\A i \in 1 .. Len(toDebugger) : toDebugger'[i] = toDebugger[i])
        /\ toDebugger'[Len(toDebugger) + 1] = Ack
    BY <1>7, AppendWire
  <2> QED
    BY <1>1, <1>3, <1>7, <2>1 DEF Control, PacketIsCommand, OfCommand, OnePacket, OneRequest,
        AckComesFirst, AcksReceived, RepliesInOrder, InTransit
<1> QED
    BY <1>4, <1>5, <1>6, <1>7 DEF recvPacket, recvAndCheck

LEMMA PerformSafe ==
    ASSUME SessionInv, Perform
    PROVE  SessionInv'
<1> USE Messages, MessageIs DEF SessionInv, StubTypeOK
<1>0. PICK outcome \in Effect(target, packet) :
          IF outcome.reply = Unanswered
          THEN /\ reply' = Unanswered /\ stub' = "recv" /\ tries' = tries
               /\ toDebugger' = Append(toDebugger, Ack)
          ELSE packingAndSend(outcome.reply, <<Ack>>)
    BY DEF Perform
<1>1. /\ stub = "dispatch" /\ ~performed /\ performed' = TRUE /\ tries = 0 /\ ~InTransit
      /\ ~InTransit'
      /\ debugger # "idle" /\ UNCHANGED <<packet, cmd, debugger, link, damage, interrupts,
           toStub, protocol>>
    BY DEF Perform, Control, InTransit, debuggerVars, linkVars
<1>2. /\ \A i \in 1 .. Len(toStub) : ~IsPacket(toStub[i])
      /\ \A i \in 1 .. Len(toDebugger) : toDebugger[i] # Nak
      /\ debugger = "ack" \/ \A i \in 1 .. Len(toDebugger) : ~IsPacket(toDebugger[i])
      /\ \A i \in 1 .. Len(toDebugger) : \A j \in 1 .. i : toDebugger[j] = Ack
           => ~IsPacket(toDebugger[i])
    BY <1>1 DEF PacketIsCommand, OfCommand, OneRequest, RepliesInOrder
<1>3. CASE outcome.reply = Unanswered
  <2>1. reply' = Unanswered /\ stub' = "recv" /\ toDebugger' = Append(toDebugger, Ack)
          /\ tries' = tries
    BY <1>0, <1>3
  <2>2. Wire(toDebugger') /\ Len(toDebugger') = Len(toDebugger) + 1 /\ Len(toDebugger) \in Nat
        /\ (\A i \in 1 .. Len(toDebugger) : toDebugger'[i] = toDebugger[i])
        /\ toDebugger'[Len(toDebugger) + 1] = Ack
    BY <2>1, AppendWire
  <2> QED
    BY <1>1, <1>2, <2>1, <2>2 DEF Control, PacketIsCommand, OfCommand, OnePacket, OneRequest,
        AckComesFirst, AcksReceived, RepliesInOrder
<1>4. CASE outcome.reply # Unanswered
  <2> DEFINE acked == Append(toDebugger, Ack)
  <2>0. packingAndSend(outcome.reply, <<Ack>>)
    BY <1>0, <1>4
  <2>1. reply' = outcome.reply /\ stub' = "ack" /\ tries' = 0
    BY <2>0 DEF packingAndSend
  <2>2. toDebugger' = Append(acked, Packet(reply'))
    BY <2>0, <2>1, PackTwo DEF Wire
  <2>3. Wire(acked) /\ Len(acked) = Len(toDebugger) + 1 /\ Len(toDebugger) \in Nat
        /\ (\A i \in 1 .. Len(toDebugger) : acked[i] = toDebugger[i])
        /\ acked[Len(toDebugger) + 1] = Ack
    BY AppendWire
  <2> HIDE DEF acked
  <2>4. Wire(toDebugger') /\ Len(toDebugger') = Len(acked) + 1
        /\ (\A i \in 1 .. Len(acked) : toDebugger'[i] = acked[i])
        /\ toDebugger'[Len(acked) + 1] = Packet(reply')
    BY <2>2, <2>3, AppendWire
  <2>5. Wire(toDebugger') /\ Len(toDebugger') = Len(toDebugger) + 2
        /\ (\A i \in 1 .. Len(toDebugger) : toDebugger'[i] = toDebugger[i])
        /\ toDebugger'[Len(toDebugger) + 1] = Ack
        /\ toDebugger'[Len(toDebugger) + 2] = Packet(reply')
    BY <2>3, <2>4
  <2>6. StubTypeOK' /\ Control' /\ AckComesFirst'
    BY <1>1, <2>1, <2>5 DEF Control, AckComesFirst
  <2>9. PacketIsCommand' /\ OnePacket'
    BY <1>1, <1>2 DEF PacketIsCommand, OnePacket
  <2>7. AcksReceived'
    BY <1>1 DEF AcksReceived
  <2>10. OneRequest'
    BY <1>1, <1>2, <2>5 DEF OneRequest
  <2>8. RepliesInOrder'
    BY <1>1, <1>2, <2>1, <2>5 DEF RepliesInOrder
  <2> QED
    BY <2>6, <2>7, <2>8, <2>9, <2>10
<1> QED
    BY <1>3, <1>4

LEMMA HitWatchPointSafe ==
    ASSUME SessionInv, HitWatchPoint
    PROVE  SessionInv'
<1> USE Messages, MessageIs DEF SessionInv, StubTypeOK
<1>1. /\ stub = "running" /\ stub' = "ack" /\ ~performed /\ performed' = TRUE /\ tries' = 0
      /\ ~InTransit /\ ~InTransit'
      /\ debugger # "idle" /\ UNCHANGED <<packet, cmd, debugger, link, damage, interrupts,
           toStub, protocol>>
      /\ reply' = Halted
    BY DEF HitWatchPoint, packingAndSend, Control, InTransit, debuggerVars, linkVars
<1>2. /\ \A i \in 1 .. Len(toStub) : ~IsPacket(toStub[i])
      /\ \A i \in 1 .. Len(toDebugger) : toDebugger[i] # Nak
      /\ debugger = "ack" \/ \A i \in 1 .. Len(toDebugger) : ~IsPacket(toDebugger[i])
      /\ \A i \in 1 .. Len(toDebugger) : \A j \in 1 .. i : toDebugger[j] = Ack
           => ~IsPacket(toDebugger[i])
    BY <1>1 DEF PacketIsCommand, OfCommand, OneRequest, RepliesInOrder
<1>3. toDebugger' = Append(toDebugger, Packet(reply'))
    BY <1>1, PackOne DEF Wire, HitWatchPoint
<1>4. Wire(toDebugger') /\ Len(toDebugger') = Len(toDebugger) + 1 /\ Len(toDebugger) \in Nat
      /\ (\A i \in 1 .. Len(toDebugger) : toDebugger'[i] = toDebugger[i])
      /\ toDebugger'[Len(toDebugger) + 1] = Packet(reply')
    BY <1>3, AppendWire
<1> QED
    BY <1>1, <1>2, <1>4 DEF Control, PacketIsCommand, OfCommand, OnePacket, OneRequest,
        AckComesFirst, AcksReceived, RepliesInOrder

LEMMA cmd_ContinueSafe ==
    ASSUME SessionInv, cmd_Continue
    PROVE  SessionInv'
<1> USE Messages, MessageIs DEF SessionInv, StubTypeOK
<1>1. /\ stub = "dispatch" /\ stub' = "running" /\ ~performed /\ ~InTransit /\ ~InTransit'
      /\ debugger # "idle"
      /\ UNCHANGED <<packet, cmd, debugger, link, damage, interrupts, toStub, protocol, tries,
           performed, reply>>
    BY DEF cmd_Continue, Control, InTransit, debuggerVars, linkVars
<1>2. Wire(toDebugger') /\ Len(toDebugger') = Len(toDebugger) + 1 /\ Len(toDebugger) \in Nat
      /\ (\A i \in 1 .. Len(toDebugger) : toDebugger'[i] = toDebugger[i])
      /\ toDebugger'[Len(toDebugger) + 1] = Ack
    BY AppendWire DEF cmd_Continue
<1> QED
    BY <1>1, <1>2 DEF Control, PacketIsCommand, OfCommand, OnePacket, OneRequest,
        AckComesFirst, AcksReceived, RepliesInOrder

LEMMA AbortSafe ==
    ASSUME SessionInv, Abort
    PROVE  SessionInv'
<1> USE Messages, MessageIs DEF SessionInv, StubTypeOK
<1>1. /\ stub = "dispatch" /\ stub' = "aborted" /\ ~performed /\ ~InTransit /\ ~InTransit'
      /\ debugger # "idle"
      /\ UNCHANGED <<packet, cmd, debugger, link, damage, interrupts, toStub, protocol, tries,
           performed, reply>>
    BY DEF Abort, Control, InTransit, debuggerVars, linkVars
<1>2. Wire(toDebugger') /\ Len(toDebugger') = Len(toDebugger) + 1 /\ Len(toDebugger) \in Nat
      /\ (\A i \in 1 .. Len(toDebugger) : toDebugger'[i] = toDebugger[i])
      /\ toDebugger'[Len(toDebugger) + 1] = Ack
    BY AppendWire DEF Abort
<1> QED
    BY <1>1, <1>2 DEF Control, PacketIsCommand, OfCommand, OnePacket, OneRequest,
        AckComesFirst, AcksReceived, RepliesInOrder

LEMMA SteppingSafe ==
    ASSUME SessionInv, Step \/ StepAborts \/ NoSuchCase \/ UNCHANGED vars
    PROVE  SessionInv'
<1> USE DEF SessionInv, StubTypeOK, vars, stubVars, debuggerVars, linkVars
<1>1. InTransit' = InTransit
    BY DEF Step, StepAborts, NoSuchCase, InTransit
<1>2. /\ UNCHANGED <<packet, cmd, debugger, link, damage, interrupts, toStub, toDebugger,
           protocol, tries, performed, reply>>
    BY DEF Step, StepAborts, NoSuchCase
<1>3. stub' = stub \/ (stub \in {"dispatch", "running"} /\ stub' = "aborted")
  <2>1. CASE Step
    BY <2>1 DEF Step
  <2>2. CASE NoSuchCase
    BY <2>2 DEF NoSuchCase
  <2>3. CASE UNCHANGED vars
    BY <2>3
  <2>4. CASE StepAborts
    BY <2>4 DEF StepAborts
  <2> QED
    BY <2>1, <2>2, <2>3, <2>4
<1>4. Control' /\ AckComesFirst' /\ StubTypeOK'
    BY <1>2, <1>3 DEF Control, AckComesFirst
<1> QED
    BY <1>1, <1>2, <1>4 DEF PacketIsCommand, OfCommand, OnePacket, OneRequest, AcksReceived,
       RepliesInOrder

\* The loop of packingAndSend reads no "$".
LEMMA NoPacketWhereAckIsRead ==
    ASSUME SessionInv, stub = "ack", toStub # <<>>
    PROVE  ~IsPacket(Head(toStub)) /\ ~IsPacket(toStub[1])
<1>1. Len(toStub) \in Nat \ {0} /\ Head(toStub) = toStub[1]
    BY TailWire DEF SessionInv, StubTypeOK
<1>2. ASSUME IsPacket(toStub[1]) PROVE FALSE
    BY <1>1, <1>2 DEF SessionInv, StubTypeOK, AckComesFirst, PacketIsCommand, OfCommand, InTransit
<1> QED
    BY <1>1, <1>2

LEMMA AwaitAckSafe ==
    ASSUME SessionInv, AwaitAck
    PROVE  SessionInv'
<1> USE Messages, MessageIs DEF SessionInv, StubTypeOK
<1>1. /\ stub = "ack" /\ toStub # <<>> /\ UNCHANGED <<protocol, packet, reply, debugger, cmd,
           performed, link, damage, interrupts>>
    BY DEF AwaitAck, debuggerVars, linkVars
<1>2. toStub' = Tail(toStub)
    BY <1>1, NoPacketWhereAckIsRead DEF AwaitAck, WithoutFirstChar, Sound
<1>3. /\ Wire(toStub') /\ Len(toStub) \in Nat \ {0} /\ Len(toStub') = Len(toStub) - 1
      /\ Head(toStub) = toStub[1] /\ \A i \in 1 .. Len(toStub') : i + 1 \in 1 .. Len(toStub)
           /\ toStub'[i] = toStub[i + 1]
    BY <1>1, <1>2, TailWire
<1>10. OnePacket'
  <2>1. SUFFICES ASSUME NEW i \in 1 .. Len(toStub'), NEW j \in 1 .. Len(toStub'),
                        IsPacket(toStub'[i]), IsPacket(toStub'[j])
                 PROVE  i = j
    BY DEF OnePacket
  <2>2. i + 1 \in 1 .. Len(toStub) /\ j + 1 \in 1 .. Len(toStub) /\ toStub'[i] = toStub[i + 1]
          /\ toStub'[j] = toStub[j + 1]
    BY <1>3
  <2>3. i + 1 = j + 1
    BY <2>1, <2>2 DEF OnePacket
  <2> QED
    BY <1>3, <2>3
<1>11. (InTransit' <=> InTransit) => PacketIsCommand'
  <2>1. SUFFICES ASSUME InTransit' <=> InTransit, NEW i \in 1 .. Len(toStub'),
                        IsPacket(toStub'[i])
                 PROVE  InTransit' /\ OfCommand(toStub[i])'
    BY DEF PacketIsCommand
  <2>2. PICK k \in 1 .. Len(toStub) : toStub'[i] = toStub[k]
    BY <1>3
  <2>3. IsPacket(toStub[k])
    BY <2>1, <2>2
  <2> QED
    BY <1>1, <2>1, <2>2, <2>3 DEF PacketIsCommand, OfCommand
<1>12. (\A j \in 1 .. Len(toStub) : ~IsPacket(toStub[j]))
           => \A j \in 1 .. Len(toStub') : ~IsPacket(toStub'[j])
    BY <1>3
<1>4. CASE stub' = "recv" /\ tries' = 0 /\ toDebugger' = toDebugger
  <2>1. InTransit' <=> InTransit
    BY <1>1, <1>4 DEF InTransit
  <2>2. StubTypeOK' /\ Control' /\ AckComesFirst'
    BY <1>1, <1>3, <1>4 DEF Control, AckComesFirst
  <2>3. PacketIsCommand' /\ OnePacket'
    BY <1>10, <1>11, <2>1
  <2>4. OneRequest' /\ AcksReceived' /\ RepliesInOrder'
    BY <1>1, <1>12, <1>4, <2>1 DEF OneRequest, AcksReceived, RepliesInOrder
  <2> QED
    BY <2>2, <2>3, <2>4
<1>5. CASE /\ Head(toStub) # Ack /\ stub' = stub /\ tries' = tries + 1
           /\ toDebugger' = Append(toDebugger, Packet(reply))
  <2>1. InTransit' <=> InTransit
    BY <1>1, <1>5 DEF InTransit
  <2>2. /\ Wire(toDebugger') /\ Len(toDebugger') = Len(toDebugger) + 1 /\ Len(toDebugger) \in Nat
        /\ (\A i \in 1 .. Len(toDebugger) : toDebugger'[i] = toDebugger[i])
        /\ toDebugger'[Len(toDebugger) + 1] = Packet(reply)
    BY <1>5, AppendWire
  <2>3. StubTypeOK' /\ Control'
    BY <1>1, <1>3, <1>5, <2>2 DEF Control
  <2>4. AckComesFirst'
    <3>1. SUFFICES ASSUME debugger = "idle" \/ ~performed
                   PROVE  \E i \in 1 .. Len(toStub') : toStub'[i] = Ack
                              /\ \A j \in 1 .. i : ~IsPacket(toStub'[j])
      BY <1>1 DEF AckComesFirst
    <3>2. PICK i \in 1 .. Len(toStub) : toStub[i] = Ack /\ \A j \in 1 .. i : ~IsPacket(toStub[j])
      BY <1>1, <3>1 DEF AckComesFirst
    <3>3. i # 1 /\ i - 1 \in 1 .. Len(toStub')
      BY <1>3, <1>5, <3>2
    <3>4. toStub'[i - 1] = Ack
      BY <1>3, <3>2, <3>3
    <3>5. \A j \in 1 .. i - 1 : j \in 1 .. Len(toStub') /\ j + 1 \in 1 .. i
      BY <1>3, <3>2, <3>3
    <3>6. \A j \in 1 .. i - 1 : ~IsPacket(toStub'[j])
      BY <1>3, <3>2, <3>5
    <3> QED
      BY <3>3, <3>4, <3>6, Zenon
  <2>5. PacketIsCommand' /\ OnePacket'
    BY <1>10, <1>11, <2>1
  <2>6. OneRequest' /\ AcksReceived'
    BY <1>1, <1>12, <1>5, <2>1, <2>2 DEF OneRequest, AcksReceived
  <2>7. RepliesInOrder'
    BY <1>1, <2>2 DEF RepliesInOrder, AcksReceived, Control, InTransit
  <2> QED
    BY <2>3, <2>4, <2>5, <2>6, <2>7
<1> QED
    BY <1>4, <1>5 DEF AwaitAck

----------------------------------------------------------------------------
(* The debugger.                                                           *)

LEMMA AskSafe ==
    ASSUME SessionInv, Ask
    PROVE  SessionInv'
<1> USE Messages, MessageIs DEF SessionInv, StubTypeOK
<1>1. /\ debugger = "idle" /\ debugger' = "ack" /\ stub \in {"recv", "ack"} /\ performed' = FALSE
      /\ UNCHANGED <<stub, tries, protocol, packet, reply, link, damage, interrupts, toDebugger>>
      /\ ~InTransit /\ InTransit'
    BY DEF Ask, stubVars, linkVars, Control, InTransit
<1>2. /\ Wire(toStub') /\ Len(toStub') = Len(toStub) + 1 /\ Len(toStub) \in Nat
      /\ (\A i \in 1 .. Len(toStub) : toStub'[i] = toStub[i])
      /\ toStub'[Len(toStub) + 1] = Packet(cmd')
    BY AppendWire DEF Ask
<1>3. /\ \A i \in 1 .. Len(toStub) : ~IsPacket(toStub[i])
      /\ \A i \in 1 .. Len(toDebugger) : toDebugger[i] # Nak /\ toDebugger[i] # Ack
    BY <1>1 DEF PacketIsCommand, OfCommand, OneRequest, AcksReceived
<1>4. StubTypeOK' /\ Control' /\ PacketIsCommand' /\ OnePacket'
  <2>1. \A i \in 1 .. Len(toStub') : i = Len(toStub) + 1 \/ ~IsPacket(toStub'[i])
    BY <1>2, <1>3
  <2>2. StubTypeOK' /\ Control'
    BY <1>1, <1>2 DEF Control
  <2>3. PacketIsCommand'
    BY <1>1, <1>2, <2>1 DEF PacketIsCommand, OfCommand
  <2>4. OnePacket'
    BY <2>1 DEF OnePacket
  <2> QED
    BY <2>2, <2>3, <2>4
<1>5. AckComesFirst'
    BY <1>1, <1>2 DEF AckComesFirst
<1>6. OneRequest' /\ AcksReceived' /\ RepliesInOrder'
    BY <1>1, <1>3 DEF OneRequest, AcksReceived, RepliesInOrder
<1> QED
    BY <1>4, <1>5, <1>6

LEMMA ExpectAckSafe ==
    ASSUME SessionInv, ExpectAck
    PROVE  SessionInv'
<1> USE Messages, MessageIs DEF SessionInv, StubTypeOK
<1>1. /\ debugger = "ack" /\ toDebugger # <<>> /\ toDebugger' = Tail(toDebugger)
      /\ UNCHANGED <<stub, tries, protocol, packet, reply, link, damage, interrupts, performed,
           cmd>>
    BY DEF ExpectAck, Get, stubVars, linkVars
<1>2. /\ Wire(toDebugger') /\ Len(toDebugger) \in Nat \ {0}
      /\ Len(toDebugger') = Len(toDebugger) - 1
      /\ Head(toDebugger) = toDebugger[1]
      /\ \A i \in 1 .. Len(toDebugger') : i + 1 \in 1 .. Len(toDebugger)
           /\ toDebugger'[i] = toDebugger[i + 1]
    BY <1>1, TailWire
<1>3. CASE toDebugger[1] = Ack /\ debugger' = "reply" /\ toStub' = toStub
  <2>1. ~InTransit /\ ~InTransit'
    BY <1>2, <1>3 DEF AcksReceived, InTransit
  <2>2. StubTypeOK' /\ Control' /\ PacketIsCommand' /\ OnePacket' /\ AckComesFirst'
    BY <1>1, <1>2, <1>3, <2>1 DEF Control, PacketIsCommand, OfCommand, OnePacket, AckComesFirst,
       InTransit
  <2>3. OneRequest' /\ AcksReceived'
    BY <1>1, <1>2, <1>3, <2>1 DEF OneRequest, AcksReceived
  <2>4. RepliesInOrder'
    BY <1>1, <1>2, <1>3 DEF RepliesInOrder
  <2> QED
    BY <2>2, <2>3, <2>4
<1>4. CASE toDebugger[1] = Nak /\ debugger' = debugger /\ toStub' = Append(toStub, Packet(cmd))
  <2>1. InTransit /\ InTransit' /\ \A i \in 1 .. Len(toStub) : ~IsPacket(toStub[i])
    BY <1>1, <1>2, <1>4 DEF OneRequest, InTransit
  <2>2. /\ Wire(toStub') /\ Len(toStub') = Len(toStub) + 1 /\ Len(toStub) \in Nat
        /\ (\A i \in 1 .. Len(toStub) : toStub'[i] = toStub[i])
        /\ toStub'[Len(toStub) + 1] = Packet(cmd)
    BY <1>4, AppendWire
  <2>3. StubTypeOK' /\ Control' /\ PacketIsCommand' /\ OnePacket'
    BY <1>1, <1>2, <1>4, <2>1, <2>2 DEF Control, PacketIsCommand, OfCommand, OnePacket
  <2>4. AckComesFirst'
    BY <1>1, <1>4, <2>2 DEF AckComesFirst
  <2>5. \A i \in 1 .. Len(toDebugger') : toDebugger'[i] # Nak
    BY <1>2, <1>4 DEF OneRequest
  <2>6. OneRequest' /\ AcksReceived'
    BY <1>1, <1>2, <1>4, <2>1, <2>5 DEF OneRequest, AcksReceived
  <2>7. RepliesInOrder'
    BY <1>1, <1>2, <1>4 DEF RepliesInOrder
  <2> QED
    BY <2>3, <2>4, <2>6, <2>7
<1>5. CASE IsPacket(toDebugger[1]) /\ debugger' = debugger /\ toStub' = Append(toStub, Ack)
  <2>1. InTransit' <=> InTransit
    BY <1>1, <1>5 DEF InTransit
  <2>2. /\ Wire(toStub') /\ Len(toStub') = Len(toStub) + 1 /\ Len(toStub) \in Nat
        /\ (\A i \in 1 .. Len(toStub) : toStub'[i] = toStub[i])
        /\ toStub'[Len(toStub) + 1] = Ack
    BY <1>5, AppendWire
  <2>3. StubTypeOK' /\ Control' /\ PacketIsCommand' /\ OnePacket'
    BY <1>1, <1>2, <1>5, <2>1, <2>2 DEF Control, PacketIsCommand, OfCommand, OnePacket
  <2>4. AckComesFirst'
    BY <1>1, <1>5, <2>2 DEF AckComesFirst
  <2>6. OneRequest' /\ AcksReceived'
    BY <1>1, <1>2, <1>5, <2>1, <2>2 DEF OneRequest, AcksReceived
  <2>7. RepliesInOrder'
    BY <1>1, <1>2, <1>5 DEF RepliesInOrder
  <2> QED
    BY <2>3, <2>4, <2>6, <2>7
<1> QED
    BY <1>2, <1>3, <1>4, <1>5 DEF ExpectAck, Get, Put

\* An acknowledgement or an interrupt on its way to the stub disturbs nothing.
LEMMA PutHarmless ==
    ASSUME SessionInv, NEW m, Message(m), ~IsPacket(m), toStub' = Append(toStub, m),
           UNCHANGED <<link, cmd>>,
           InTransit' <=> InTransit
    PROVE  /\ Wire(toStub') /\ PacketIsCommand' /\ OnePacket'
           /\ Len(toStub) \in Nat /\ Len(toStub') = Len(toStub) + 1
           /\ \A i \in 1 .. Len(toStub) : toStub'[i] = toStub[i]
           /\ toStub'[Len(toStub) + 1] = m
           /\ \A i \in 1 .. Len(toStub') : IsPacket(toStub'[i])
                => \E j \in 1 .. Len(toStub) : IsPacket(toStub[j])
<1> USE DEF SessionInv, StubTypeOK
<1>1. /\ Wire(toStub') /\ Len(toStub') = Len(toStub) + 1 /\ Len(toStub) \in Nat
      /\ (\A i \in 1 .. Len(toStub) : toStub'[i] = toStub[i])
      /\ toStub'[Len(toStub) + 1] = m
    BY AppendWire
<1>2. \A i \in 1 .. Len(toStub') : IsPacket(toStub'[i]) => i \in 1 .. Len(toStub)
          /\ toStub'[i] = toStub[i]
    BY <1>1
<1> QED
    BY <1>1, <1>2 DEF PacketIsCommand, OfCommand, OnePacket

LEMMA SendInterruptSafe ==
    ASSUME SessionInv, SendInterrupt
    PROVE  SessionInv'
<1> USE Messages, MessageIs DEF SessionInv, StubTypeOK
<1>1. /\ UNCHANGED <<debugger, stub, tries, protocol, packet, reply, link, damage, performed,
           cmd, toDebugger>>
      /\ toStub' = Append(toStub, Interrupt) /\ interrupts' = interrupts + 1
      /\ (InTransit' <=> InTransit)
    BY DEF SendInterrupt, Put, stubVars, debuggerVars, InTransit
<1>2. /\ Wire(toStub') /\ PacketIsCommand' /\ OnePacket'
      /\ Len(toStub) \in Nat /\ Len(toStub') = Len(toStub) + 1
      /\ \A i \in 1 .. Len(toStub) : toStub'[i] = toStub[i]
      /\ \A i \in 1 .. Len(toStub') : IsPacket(toStub'[i])
           => \E j \in 1 .. Len(toStub) : IsPacket(toStub[j])
    BY <1>1, PutHarmless
<1>3. StubTypeOK' /\ Control' /\ AckComesFirst'
    BY <1>1, <1>2 DEF Control, AckComesFirst
<1>4. OneRequest' /\ AcksReceived' /\ RepliesInOrder'
    BY <1>1, <1>2 DEF OneRequest, AcksReceived, RepliesInOrder
<1> QED
    BY <1>2, <1>3, <1>4

LEMMA GiveUpSafe ==
    ASSUME SessionInv, GiveUp
    PROVE  SessionInv'
<1> USE Messages, MessageIs DEF SessionInv, StubTypeOK
<1>1. /\ debugger = "reply" /\ debugger' = "idle" /\ stub = "recv" /\ toDebugger = <<>>
      /\ performed
      /\ UNCHANGED <<stub, tries, protocol, packet, reply, link, damage, interrupts, performed,
           cmd, toDebugger>>
      /\ toStub' = Append(toStub, Nak)
      /\ ~InTransit' /\ ~InTransit
    BY DEF GiveUp, Put, stubVars, linkVars, InTransit, Control
<1>2. Wire(toStub') /\ PacketIsCommand' /\ OnePacket' /\ Len(toDebugger') = 0
    BY <1>1, PutHarmless, LenOfSeq DEF Wire
<1>3. StubTypeOK' /\ Control' /\ AckComesFirst'
    BY <1>1, <1>2 DEF Control, AckComesFirst
<1>4. OneRequest' /\ AcksReceived' /\ RepliesInOrder'
    BY <1>2 DEF OneRequest, AcksReceived, RepliesInOrder
<1> QED
    BY <1>2, <1>3, <1>4

\* A sound reply is that of the last command.
LEMMA ExpectReplySafe ==
    ASSUME SessionInv, ExpectReply
    PROVE  /\ SessionInv'
           /\ Sound(Head(toDebugger)) => performed /\ Head(toDebugger).body = reply
<1> USE Messages, MessageIs DEF SessionInv, StubTypeOK
<1>1. /\ debugger = "reply" /\ toDebugger # <<>> /\ toDebugger' = Tail(toDebugger)
      /\ UNCHANGED <<stub, tries, protocol, packet, reply, link, damage, interrupts, performed,
           cmd>>
      /\ ~InTransit
    BY DEF ExpectReply, Get, stubVars, linkVars, InTransit
<1>2. /\ Wire(toDebugger') /\ Len(toDebugger) \in Nat \ {0}
      /\ Len(toDebugger') = Len(toDebugger) - 1
      /\ Head(toDebugger) = toDebugger[1]
      /\ \A i \in 1 .. Len(toDebugger') : i + 1 \in 1 .. Len(toDebugger)
           /\ toDebugger'[i] = toDebugger[i + 1]
    BY <1>1, TailWire
<1>3. \A i \in 1 .. Len(toDebugger') : toDebugger'[i] # Nak
    BY <1>1, <1>2 DEF OneRequest
<1>4. IsPacket(toDebugger[1]) => /\ performed /\ toDebugger[1].body = reply
                                 /\ \A i \in 1 .. Len(toDebugger') : IsPacket(toDebugger'[i])
    BY <1>1, <1>2 DEF RepliesInOrder
<1>5. CASE ~IsPacket(toDebugger[1]) /\ UNCHANGED <<debugger, toStub>>
  <2>1. ~InTransit'
    BY <1>1, <1>5 DEF InTransit
  <2>2. StubTypeOK' /\ Control' /\ PacketIsCommand' /\ OnePacket' /\ AckComesFirst'
    BY <1>1, <1>2, <1>5, <2>1 DEF Control, PacketIsCommand, OfCommand, OnePacket, AckComesFirst,
       InTransit
  <2>3. OneRequest' /\ AcksReceived'
    BY <1>1, <1>2, <1>3, <1>5, <2>1 DEF OneRequest, AcksReceived
  <2>4. RepliesInOrder'
    BY <1>1, <1>2, <1>5 DEF RepliesInOrder
  <2> QED
    BY <1>2, <1>5, <2>2, <2>3, <2>4 DEF Sound
<1>6. CASE Sound(toDebugger[1]) /\ debugger' = "idle" /\ toStub' = Append(toStub, Ack)
  <2>0. performed /\ toDebugger[1].body = reply
          /\ \A i \in 1 .. Len(toDebugger') : IsPacket(toDebugger'[i])
    BY <1>4, <1>6 DEF Sound
  <2>1. ~InTransit'
    BY <1>1, <1>6 DEF InTransit
  <2>2. /\ Wire(toStub') /\ PacketIsCommand' /\ OnePacket'
        /\ Len(toStub) \in Nat /\ Len(toStub') = Len(toStub) + 1
        /\ toStub'[Len(toStub) + 1] = Ack
    BY <1>1, <1>6, <2>1, PutHarmless
  <2>5. \A i \in 1 .. Len(toStub') : ~IsPacket(toStub'[i])
    BY <2>1, <2>2 DEF PacketIsCommand
  <2>3. StubTypeOK' /\ Control'
    BY <1>1, <1>2, <1>6, <2>0, <2>2 DEF Control
  <2>6. AckComesFirst'
    <3>1. Len(toStub) + 1 \in 1 .. Len(toStub')
            /\ \A j \in 1 .. Len(toStub) + 1 : ~IsPacket(toStub'[j])
      BY <2>2, <2>5
    <3> QED
      BY <2>2, <3>1 DEF AckComesFirst
  <2>4. OneRequest' /\ AcksReceived' /\ RepliesInOrder'
    BY <1>1, <1>3, <1>6, <2>0 DEF OneRequest, AcksReceived, RepliesInOrder
  <2> QED
    BY <1>2, <2>0, <2>2, <2>3, <2>4, <2>6
<1>7. CASE IsPacket(toDebugger[1]) /\ ~Sound(toDebugger[1]) /\ debugger' = debugger
             /\ toStub' = Append(toStub, Nak)
  <2>1. ~InTransit'
    BY <1>1, <1>7 DEF InTransit
  <2>2. /\ Wire(toStub') /\ PacketIsCommand' /\ OnePacket'
    BY <1>1, <1>7, <2>1, PutHarmless
  <2>3. StubTypeOK' /\ Control' /\ AckComesFirst'
    BY <1>1, <1>2, <1>4, <1>7, <2>2 DEF Control, AckComesFirst
  <2>4. OneRequest' /\ AcksReceived'
    BY <1>1, <1>3, <1>4, <1>7 DEF OneRequest, AcksReceived
  <2>5. RepliesInOrder'
    BY <1>1, <1>2, <1>7 DEF RepliesInOrder
  <2> QED
    BY <1>2, <1>7, <2>2, <2>3, <2>4, <2>5
<1> QED
    BY <1>2, <1>5, <1>6, <1>7 DEF ExpectReply, Get, Put

----------------------------------------------------------------------------
(* The wire.                                                               *)

LEMMA SpoilSafe ==
    ASSUME SessionInv, NEW kind, Spoil(kind),
           UNCHANGED <<stubVars, debuggerVars, performed, link, interrupts>>
    PROVE  SessionInv'
<1> USE Messages, MessageIs DEF SessionInv, StubTypeOK
<1>0. PICK body \in Misread(kind), k \in DOMAIN toStub :
          /\ Sound(toStub[k])
          /\ toStub' = Replace(toStub, k, [char |-> "$", form |-> kind, body |-> body])
    BY DEF Spoil, Replace
<1> DEFINE m == [char |-> "$", form |-> kind, body |-> body]
<1>1. Sound(toStub[k]) /\ toStub' = Replace(toStub, k, m)
    BY <1>0
<1>2. IsPacket(m) /\ Message(m) /\ m.form = kind /\ kind \in {"garbled", "beheaded"}
        /\ kind \in link.kinds
    BY DEF IsPacket, Spoil, Damage
<1>3. /\ damage' = [damage EXCEPT ![kind] = @ + 1] /\ toDebugger' = toDebugger
      /\ UNCHANGED <<debugger, stub, tries, protocol, packet, reply, link, interrupts,
           performed, cmd>>
    BY DEF Spoil, Damage, stubVars, debuggerVars
<1> HIDE DEF m
<1> k \in 1 .. Len(toStub)
    BY LenOfSeq DEF Wire
<1>4. Wire(toStub') /\ Len(toStub) \in Nat /\ Len(toStub') = Len(toStub)
      /\ \A i \in 1 .. Len(toStub) : toStub'[i] = IF i = k THEN m ELSE toStub[i]
  <2>1. Wire(toStub) /\ Message(m)
    BY <1>2
  <2>2. ReplacedWire(toStub, k, m, Replace(toStub, k, m))
    BY <2>1, ReplaceWire
  <2> QED
    BY <2>2, <1>1 DEF ReplacedWire
<1>5. IsPacket(toStub[k]) /\ InTransit /\ InTransit'
    BY <1>1, <1>3, <1>4 DEF Sound, PacketIsCommand, InTransit
<1>6. kind = "garbled" => link.checked \/ m.body \in Hearable(cmd, link)
    BY <1>2 DEF m, Misread, Hearable
<1>7. damage' \in [Kind -> Nat]
    BY <1>2, <1>3 DEF Kind
<1>8. \A i \in 1 .. Len(toStub) : IsPacket(toStub'[i]) <=> IsPacket(toStub[i])
    BY <1>2, <1>4, <1>5
<1>9. StubTypeOK' /\ Control' /\ OnePacket'
    BY <1>3, <1>4, <1>7, <1>8 DEF Control, OnePacket
<1>10. PacketIsCommand'
    BY <1>2, <1>3, <1>4, <1>5, <1>6 DEF PacketIsCommand, OfCommand
<1>11. AckComesFirst'
    BY <1>3, <1>4, <1>5, <1>8 DEF AckComesFirst
<1>12. OneRequest' /\ AcksReceived' /\ RepliesInOrder'
    BY <1>3, <1>4, <1>5, <1>8 DEF OneRequest, AcksReceived, RepliesInOrder
<1> QED
    BY <1>9, <1>10, <1>11, <1>12

LEMMA SpoilReplySafe ==
    ASSUME SessionInv, SpoilReply,
           UNCHANGED <<stubVars, debuggerVars, performed, link, interrupts>>
    PROVE  SessionInv'
<1> USE Messages, MessageIs DEF SessionInv, StubTypeOK
<1>1. PICK k \in DOMAIN toDebugger : Sound(toDebugger[k])
          /\ toDebugger' = Replace(toDebugger, k, Garbled(toDebugger[k]))
    BY DEF SpoilReply, Replace, Garbled
<1> DEFINE m == Garbled(toDebugger[k])
<1>2. /\ damage' = [damage EXCEPT !["reply"] = @ + 1] /\ toStub' = toStub
      /\ UNCHANGED <<debugger, stub, tries, protocol, packet, reply, link, interrupts,
           performed, cmd>>
    BY DEF SpoilReply, Damage, stubVars, debuggerVars
<1> k \in 1 .. Len(toDebugger)
    BY LenOfSeq DEF Wire
<1>3. IsPacket(toDebugger[k]) /\ Message(toDebugger[k])
    BY <1>1 DEF Wire, Sound
<1>4. Message(m) /\ IsPacket(m) /\ m.body = toDebugger[k].body /\ m # Nak /\ m # Ack
    BY <1>3, GarbledMessage
<1>5. toDebugger' = Replace(toDebugger, k, m)
    BY <1>1
<1> HIDE DEF m
<1>6. Wire(toDebugger') /\ Len(toDebugger) \in Nat /\ Len(toDebugger') = Len(toDebugger)
      /\ \A i \in 1 .. Len(toDebugger) : toDebugger'[i] = IF i = k THEN m ELSE toDebugger[i]
  <2>1. Wire(toDebugger) /\ Message(m)
    BY <1>4
  <2>2. ReplacedWire(toDebugger, k, m, Replace(toDebugger, k, m))
    BY <2>1, ReplaceWire
  <2> QED
    BY <2>2, <1>5 DEF ReplacedWire
<1>7. \A i \in 1 .. Len(toDebugger) : /\ IsPacket(toDebugger'[i]) <=> IsPacket(toDebugger[i])
                                      /\ IsPacket(toDebugger[i])
                                           => toDebugger'[i].body = toDebugger[i].body
                                      /\ toDebugger'[i] = Ack <=> toDebugger[i] = Ack
                                      /\ toDebugger'[i] = Nak <=> toDebugger[i] = Nak
    BY <1>3, <1>4, <1>6
<1>8. damage' \in [Kind -> Nat]
    BY <1>2 DEF Kind
<1>9. InTransit' <=> InTransit
    BY <1>2 DEF InTransit
<1>10. StubTypeOK' /\ Control' /\ OnePacket' /\ PacketIsCommand' /\ AckComesFirst'
  <2>1. StubTypeOK' /\ Control'
    BY <1>2, <1>6, <1>8 DEF Control
  <2>2. OnePacket' /\ PacketIsCommand' /\ AckComesFirst'
    BY <1>2, <1>9 DEF OnePacket, PacketIsCommand, OfCommand, AckComesFirst
  <2> QED
    BY <2>1, <2>2
<1>11. OneRequest' /\ AcksReceived'
    BY <1>2, <1>6, <1>7, <1>9 DEF OneRequest, AcksReceived
<1>12. RepliesInOrder'
    BY <1>2, <1>6, <1>7 DEF RepliesInOrder
<1> QED
    BY <1>10, <1>11, <1>12

LEMMA LoseAckSafe ==
    ASSUME SessionInv, LoseAck,
           UNCHANGED <<stubVars, debuggerVars, performed, link, interrupts>>
    PROVE  SessionInv'
<1> USE Messages, MessageIs DEF SessionInv, StubTypeOK
<1>1. /\ toDebugger # <<>> /\ Head(toDebugger) = Ack /\ toDebugger' = Tail(toDebugger)
      /\ damage' = [damage EXCEPT !["ack"] = @ + 1]
      /\ UNCHANGED <<toStub, debugger, stub, tries, protocol, packet, reply, link, interrupts,
           performed, cmd>>
    BY DEF LoseAck, Damage, stubVars, debuggerVars
<1>2. /\ Wire(toDebugger') /\ Len(toDebugger) \in Nat \ {0}
      /\ Len(toDebugger') = Len(toDebugger) - 1
      /\ Head(toDebugger) = toDebugger[1]
      /\ \A i \in 1 .. Len(toDebugger') : i + 1 \in 1 .. Len(toDebugger)
           /\ toDebugger'[i] = toDebugger[i + 1]
    BY <1>1, TailWire
<1>3. damage' \in [Kind -> Nat]
    BY <1>1 DEF Kind
<1>4. InTransit' <=> InTransit
    BY <1>1 DEF InTransit
<1>5. StubTypeOK' /\ Control'
    BY <1>1, <1>2, <1>3 DEF Control
<1>8. OnePacket' /\ PacketIsCommand' /\ AckComesFirst'
    BY <1>1, <1>4 DEF OnePacket, PacketIsCommand, OfCommand, AckComesFirst
<1>6. OneRequest' /\ AcksReceived'
    BY <1>1, <1>2, <1>4 DEF OneRequest, AcksReceived
<1>7. RepliesInOrder'
    BY <1>1, <1>2 DEF RepliesInOrder
<1> QED
    BY <1>5, <1>6, <1>7, <1>8

LEMMA FaultSafe ==
    ASSUME SessionInv, Fault
    PROVE  SessionInv'
BY SpoilSafe, SpoilReplySafe, LoseAckSafe DEF Fault

\* SessionInv is inductive.
LEMMA SessionInvStep ==
    ASSUME SessionInv, [Next]_vars
    PROVE  SessionInv'
BY recvPacketSafe, PerformSafe, AbortSafe, cmd_ContinueSafe, SteppingSafe,
   HitWatchPointSafe, AwaitAckSafe,
   AskSafe, SendInterruptSafe, ExpectAckSafe, ExpectReplySafe, GiveUpSafe, FaultSafe
   DEF Next, StubNext, DebuggerNext, Ended

LEMMA SessionInvariant == Spec => []SessionInv
BY InitSession, SessionInvStep, PTL DEF Spec

\* The loop of packingAndSend, which reads one character at a time, never takes
\* the "$" of a packet for an answer, however packets and replies are damaged.
THEOREM AcksAreAcks == Spec => []AckReadMeetsNoPacket
<1>1. SessionInv => AckReadMeetsNoPacket
    BY NoPacketWhereAckIsRead DEF AckReadMeetsNoPacket
<1> QED
    BY <1>1, SessionInvariant, PTL

----------------------------------------------------------------------------
(* The refinement.  What GDBSession takes from GDBTarget is what GDBStub   *)
(* takes from it.                                                          *)

LEMMA SameReplies ==
    /\ \A kind, data : Session!Reply(kind, data) = Reply(kind, data)
    /\ Session!Empty = Empty /\ Session!Error = Error /\ Session!Ok = Ok
    /\ Session!Halted = Halted /\ Session!Aborted = Aborted
    /\ Session!Unanswered = Unanswered /\ Session!Pending = Pending
    /\ \A t, r : Session!Outcome(t, r) = Outcome(t, r)
    /\ Session!NoCommand = NoCommand
BY DEF Session!Reply, Reply, Session!Empty, Empty, Session!Error, Error, Session!Ok, Ok,
   Session!Halted, Halted, Session!Aborted, Aborted, Session!Unanswered, Unanswered,
   Session!Pending, Pending, Session!Outcome, Outcome, Session!NoCommand, NoCommand

LEMMA SameRegisters ==
    /\ \A t : Session!cmd_ReadAllRegister(t) = cmd_ReadAllRegister(t)
    /\ \A t, regs, whole : Session!cmd_WriteAllRegister(t, regs, whole)
         = cmd_WriteAllRegister(t, regs, whole)
<1>1. \A t : Session!DumpRegister_CoreAPI(t) = DumpRegister_CoreAPI(t)
    BY DEF Session!DumpRegister_CoreAPI, DumpRegister_CoreAPI
<1>2. \A t, regs : Session!WriteAllRegister_CoreAPI(t, regs) = WriteAllRegister_CoreAPI(t, regs)
    BY DEF Session!WriteAllRegister_CoreAPI, WriteAllRegister_CoreAPI
<1> QED
    BY <1>1, <1>2, SameReplies DEF Session!cmd_ReadAllRegister, cmd_ReadAllRegister,
       Session!cmd_WriteAllRegister, cmd_WriteAllRegister

LEMMA SameBus ==
    /\ \A n : Session!strtoll(n) = strtoll(n)
    /\ Session!Ram = Ram
    /\ \A t, op, a, len : Session!Reached(t, op, a, len) = Reached(t, op, a, len)
    /\ \A t, op, a : Session!Place(t, op, a) = Place(t, op, a)
<1>1. \A op, a, len : Session!PAddr_MMIOBus_API(op, a, len) = PAddr_MMIOBus_API(op, a, len)
    BY Zenon DEF Session!PAddr_MMIOBus_API, PAddr_MMIOBus_API, Session!Asserts, Asserts,
       Session!Strays, Strays, Session!isAddrInRange, isAddrInRange
<1>2. \A w, op, a : Session!VAddr_MMU_API(w, op, a) = VAddr_MMU_API(w, op, a)
    BY <1>1, Zenon DEF Session!VAddr_MMU_API, VAddr_MMU_API
<1>3. ASSUME NEW t, NEW op, NEW a, NEW len
      PROVE  Session!Reached(t, op, a, len) = Reached(t, op, a, len)
    <2>1. CASE ~t.paged
        <3>1. Session!PAddr_MMIOBus_API(op, a, len) = PAddr_MMIOBus_API(op, a, len)
            BY <1>1, Zenon
        <3> QED
            BY <2>1, <3>1, SMT DEF Session!Reached, Reached
    <2>2. CASE t.paged
        <3>1. \A b : Session!VAddr_MMU_API(t.walk, op, b) = VAddr_MMU_API(t.walk, op, b)
            BY <1>2, Zenon
        <3>2. \A e : e \in Session!Reached(t, op, a, len) <=> e \in Reached(t, op, a, len)
            BY <2>2, <3>1, SMT DEF Session!Reached, Reached
        <3>3. /\ Session!Reached(t, op, a, len) \subseteq [bytes : 0 .. len, end : {"done", "refused", "aborted"}]
              /\ Reached(t, op, a, len) \subseteq [bytes : 0 .. len, end : {"done", "refused", "aborted"}]
            BY <2>2, SMT DEF Session!Reached, Reached
        <3> QED
            BY <3>2, <3>3, Zenon
    <2> QED
        BY <2>1, <2>2
<1> QED
    BY <1>3, Zenon DEF Session!strtoll, strtoll, Session!Ram, Ram, Session!Place, Place

LEMMA SameMemory ==
    /\ \A t, a, len : Session!cmd_MemRead(t, a, len) = cmd_MemRead(t, a, len)
    /\ \A t, a, len, data : Session!cmd_MemWrite(t, a, len, data) = cmd_MemWrite(t, a, len, data)
<1>1. \A t, a, len : Session!MemRead_CoreDebugAPI(t, a, len) = MemRead_CoreDebugAPI(t, a, len)
    BY Zenon DEF Session!MemRead_CoreDebugAPI, MemRead_CoreDebugAPI, Session!Place, Place,
       Session!Ram, Ram
<1>2. \A t, a, data, n : Session!MemWrite_CoreDebugAPI(t, a, data, n)
          = MemWrite_CoreDebugAPI(t, a, data, n)
    BY Zenon DEF Session!MemWrite_CoreDebugAPI, MemWrite_CoreDebugAPI, Session!Place, Place,
       Session!Ram, Ram
<1>3. ASSUME NEW t, NEW addr, NEW length
      PROVE  Session!cmd_MemRead(t, addr, length) = cmd_MemRead(t, addr, length)
    <2> DEFINE a == strtoll(addr)
               len == strtoll(length)
               ends == {e.end : e \in Reached(t, "read", a, len)}
               found == IF "done" \in ends THEN MemRead_CoreDebugAPI(t, a, len) ELSE {}
               F(data) == Outcome(t, IF data = <<>> THEN Empty ELSE Reply("memory", data))
               G(data) == Session!Outcome(t, IF data = <<>> THEN Session!Empty
                                             ELSE Session!Reply("memory", data))
    <2>1. /\ Session!strtoll(addr) = a /\ Session!strtoll(length) = len
          /\ Session!Reached(t, "read", a, len) = Reached(t, "read", a, len)
          /\ Session!MemRead_CoreDebugAPI(t, a, len) = MemRead_CoreDebugAPI(t, a, len)
        BY <1>1, SameBus, Zenon
    <2>2. /\ Session!Outcome(t, Session!Error) = Outcome(t, Error)
          /\ Session!Outcome(t, Session!Aborted) = Outcome(t, Aborted)
        BY SameReplies, Zenon
    <2>3. \A data : G(data) = F(data)
        BY SameReplies, Zenon
    <2> HIDE DEF a, len, F, G
    <2>4. Session!cmd_MemRead(t, addr, length)
            = IF len > StackSize THEN {Outcome(t, Aborted)}
              ELSE {G(data) : data \in found}
                   \cup {Outcome(t, Error) : e \in ends \cap {"refused"}}
                   \cup {Outcome(t, Aborted) : e \in ends \cap {"aborted"}}
        BY <2>1, <2>2 DEF Session!cmd_MemRead, G
    <2>5. cmd_MemRead(t, addr, length)
            = IF len > StackSize THEN {Outcome(t, Aborted)}
              ELSE {F(data) : data \in found}
                   \cup {Outcome(t, Error) : e \in ends \cap {"refused"}}
                   \cup {Outcome(t, Aborted) : e \in ends \cap {"aborted"}}
        BY DEF cmd_MemRead, F, a, len
    <2>6. {G(data) : data \in found} = {F(data) : data \in found}
        BY <2>3
    <2> QED
        BY <2>4, <2>5, <2>6
<1>4. ASSUME NEW t, NEW addr, NEW length, NEW data
      PROVE  Session!cmd_MemWrite(t, addr, length, data) = cmd_MemWrite(t, addr, length, data)
    <2> DEFINE a == strtoll(addr)
               len == strtoll(length)
               F(e) == CASE e.end = "done"    -> Outcome(MemWrite_CoreDebugAPI(t, a, data, len), Unanswered)
                         [] e.end = "refused" -> Outcome(MemWrite_CoreDebugAPI(t, a, data, e.bytes), Error)
                         [] OTHER             -> Outcome(t, Aborted)
               G(e) == CASE e.end = "done"    -> Session!Outcome(Session!MemWrite_CoreDebugAPI(t, a, data, len), Session!Unanswered)
                         [] e.end = "refused" -> Session!Outcome(Session!MemWrite_CoreDebugAPI(t, a, data, e.bytes), Session!Error)
                         [] OTHER             -> Session!Outcome(t, Session!Aborted)
    <2>1. /\ Session!strtoll(addr) = a /\ Session!strtoll(length) = len
          /\ Session!Reached(t, "write", a, len) = Reached(t, "write", a, len)
        BY SameBus, Zenon
    <2> HIDE DEF a, len
    <2>2. \A e : G(e) = F(e)
        BY <1>2, SameReplies
    <2> HIDE DEF F, G
    <2>3. Session!cmd_MemWrite(t, addr, length, data)
            = IF Len(data) # len THEN {Outcome(t, Empty)} ELSE {G(e) : e \in Reached(t, "write", a, len)}
        BY <2>1, SameReplies DEF Session!cmd_MemWrite, G
    <2>4. cmd_MemWrite(t, addr, length, data)
            = IF Len(data) # len THEN {Outcome(t, Empty)} ELSE {F(e) : e \in Reached(t, "write", a, len)}
        BY DEF cmd_MemWrite, F, a, len
    <2> QED
        BY <2>2, <2>3, <2>4
<1> QED
    BY <1>3, <1>4

LEMMA SameRest ==
    /\ \A t, type, pc : Session!cmd_InsertBreakpoint(t, type, pc)
         = cmd_InsertBreakpoint(t, type, pc)
    /\ \A t, type, pc : Session!cmd_RemoveBreakpoint(t, type, pc)
         = cmd_RemoveBreakpoint(t, type, pc)
    /\ \A t, hwbreak : Session!cmd_QSupported(t, hwbreak) = cmd_QSupported(t, hwbreak)
    /\ \A t : Session!IsCurrentPCAtWatchPoint(t) <=> IsCurrentPCAtWatchPoint(t)
    /\ \A c : Session!Resumes(c) <=> Resumes(c)
    /\ \A c : Session!Undispatched(c) <=> Undispatched(c)
    /\ \A t : Session!Stepped(t) = Stepped(t)
    /\ Session!Target = Target
BY SameReplies, SameBus DEF Session!cmd_InsertBreakpoint, cmd_InsertBreakpoint,
   Session!cmd_RemoveBreakpoint, cmd_RemoveBreakpoint,
    Session!cmd_QSupported, cmd_QSupported, Session!IsCurrentPCAtWatchPoint,
    IsCurrentPCAtWatchPoint, Session!Breakpoint, Breakpoint,
    Session!Resumes, Resumes, Session!Undispatched, Undispatched, Session!Stepped, Stepped,
    Session!Target, Target

LEMMA SameEffect ==
    /\ \A t, c : Session!Effect(t, c) = Effect(t, c)
    /\ \A t, c : Session!MayAbort(t, c) <=> MayAbort(t, c)
<1>1. \A t, c : Session!Effect(t, c) = Effect(t, c)
    BY SameReplies, SameRegisters, SameMemory, SameRest, Zenon DEF Session!Effect, Effect
<1> QED
    BY <1>1, SameReplies, SameRest DEF Session!MayAbort, MayAbort

\* What the session may perform is what the stub may hear.
LEMMA SameHeard == Session!Heard = Hearable(cmd, link)
BY SameReplies DEF Session!Heard, Hearable, Trusted

\* The stage and the answer of the session, as GDBStub has them.
Stage ==
    IF stub \in {"dead", "aborted"} THEN stub
    ELSE IF debugger = "idle" THEN "idle"
    ELSE IF stub = "running" THEN "running"
    ELSE IF ~performed THEN "asked"
    ELSE "done"

Answer == IF performed THEN reply ELSE Pending

LEMMA SessionStutters ==
    ASSUME UNCHANGED <<link, target, cmd, got>>, Stage' = Stage, Answer' = Answer
    PROVE  UNCHANGED Session!sessionVars
BY DEF Session!sessionVars, Stage, Answer, Trusted

LEMMA InitRefines == Init => Session!Init
BY SameRest, SameReplies DEF Init, Session!Init, Trusted

LEMMA StepRefines ==
    ASSUME SessionInv, [Next]_vars
    PROVE  [Session!Next]_(Session!sessionVars)
<1> USE DEF SessionInv, StubTypeOK
<1>0. link' = link /\ UNCHANGED Trusted
    BY DEF Next, StubNext, DebuggerNext, recvPacket, Perform, Abort, cmd_Continue, Step,
       StepAborts, HitWatchPoint, NoSuchCase, AwaitAck, Ask, ExpectAck, ExpectReply, GiveUp,
       SendInterrupt, Fault, Ended, vars, linkVars, Trusted
<1>1. CASE recvPacket
  <2>1. /\ stub = "recv" /\ debugger = "ack" /\ ~performed /\ ~performed' /\ debugger' = debugger
        /\ UNCHANGED <<target, cmd, got, reply>> /\ stub' \in {"recv", "dispatch", "dead"}
    BY <1>1, ReceiveOne DEF recvPacket, recvAndCheck, InTransit, debuggerVars
  <2>2. CASE stub' = "dead"
    BY <1>0, <2>1, <2>2 DEF Session!Next, Session!Die
  <2>3. CASE stub' # "dead"
    BY <1>0, <2>1, <2>3, SessionStutters DEF Stage, Answer
  <2> QED
    BY <2>2, <2>3
<1>2. CASE Perform
  <2>1. /\ stub = "dispatch" /\ debugger # "idle" /\ ~performed /\ performed'
        /\ debugger' = debugger
        /\ UNCHANGED <<cmd, got>> /\ packet \in Session!Heard
        /\ ~Session!Resumes(packet) /\ ~Session!Undispatched(packet)
    BY <1>2, SameHeard, SameRest DEF Perform, Control, debuggerVars
  <2>2. PICK outcome \in Effect(target, packet) :
            /\ outcome.reply # Aborted /\ target' = outcome.target /\ reply' = outcome.reply
            /\ stub' \in {"recv", "ack"}
    BY <1>2 DEF Perform, packingAndSend
  <2>3. outcome \in Session!Effect(target, packet) /\ outcome.reply # Session!Aborted
    BY <2>2, SameEffect, SameReplies
  <2>4. Session!Perform
    BY <2>1, <2>2, <2>3 DEF Session!Perform
  <2> QED
    BY <1>0, <2>4 DEF Session!Next
<1>3. CASE cmd_Continue
  <2>1. packet \in Session!Heard /\ Session!Resumes(packet)
    BY <1>3, SameHeard, SameRest DEF cmd_Continue, Control
  <2>2. Session!Resume
    BY <1>3, <2>1 DEF cmd_Continue, Control, debuggerVars, Session!Resume
  <2> QED
    BY <1>0, <2>2 DEF Session!Next
<1>4. CASE Step
  <2>1. Session!Run
    BY <1>4, SameRest DEF Step, Control, debuggerVars, Session!Run
  <2> QED
    BY <1>0, <2>1 DEF Session!Next
<1>5. CASE HitWatchPoint
  <2>1. Session!Stop
    BY <1>5, SameRest, SameReplies DEF HitWatchPoint, packingAndSend, Control, debuggerVars,
       Session!Stop
  <2> QED
    BY <1>0, <2>1 DEF Session!Next
<1>6. CASE NoSuchCase \/ Abort
  <2>1. /\ stub = "dispatch" /\ stub' = "aborted" /\ debugger # "idle" /\ ~performed
        /\ UNCHANGED <<target, cmd, got, reply, debugger, performed>>
        /\ packet \in Session!Heard
    BY <1>6, SameHeard DEF NoSuchCase, Abort, Control, debuggerVars
  <2>2. Session!MayAbort(target, packet)
    BY <1>6, SameEffect DEF NoSuchCase, Abort, MayAbort
  <2>3. Session!Abort
    BY <2>1, <2>2 DEF Session!Abort
  <2> QED
    BY <1>0, <2>3 DEF Session!Next
<1>13. CASE StepAborts
  <2>1. Session!Abort
    BY <1>13, SameRest DEF StepAborts, Control, debuggerVars, Session!Abort
  <2> QED
    BY <1>0, <2>1 DEF Session!Next
<1>7. CASE AwaitAck
  <2>1. /\ stub = "ack" /\ stub' \in {"recv", "ack"}
        /\ UNCHANGED <<target, cmd, got, reply, debugger, performed>>
    BY <1>7 DEF AwaitAck, debuggerVars
  <2> QED
    BY <1>0, <2>1, SessionStutters DEF Stage, Answer
<1>8. CASE Ask
  <2>1. Session!Ask
    BY <1>8, SameReplies DEF Ask, Control, stubVars, Session!Ask
  <2> QED
    BY <1>0, <2>1 DEF Session!Next
<1>9. CASE SendInterrupt \/ Fault \/ Ended \/ UNCHANGED vars
  <2>1. UNCHANGED <<target, cmd, got, reply, debugger, performed, stub>>
    BY <1>9 DEF SendInterrupt, Fault, Ended, vars, stubVars, debuggerVars
  <2> QED
    BY <1>0, <2>1, SessionStutters DEF Stage, Answer
<1>10. CASE ExpectAck
  <2>1. /\ debugger = "ack" /\ debugger' # "idle"
        /\ UNCHANGED <<target, cmd, got, reply, performed, stub>>
    BY <1>10 DEF ExpectAck, stubVars
  <2> QED
    BY <1>0, <2>1, SessionStutters DEF Stage, Answer
<1>11. CASE ExpectReply
  <2>1. debugger = "reply" /\ UNCHANGED <<target, cmd, reply, performed, stub>>
    BY <1>11 DEF ExpectReply, stubVars
  <2>2. CASE UNCHANGED <<debugger, got>>
    BY <1>0, <2>1, <2>2, SessionStutters DEF Stage, Answer
  <2>3. CASE Sound(Head(toDebugger)) /\ got' = Head(toDebugger).body /\ debugger' = "idle"
    <3>1. performed /\ got' = reply
      BY <1>11, <2>3, ExpectReplySafe
    <3>2. Session!Take
      BY <2>1, <2>3, <3>1 DEF Control, Session!Take
    <3> QED
      BY <1>0, <3>2 DEF Session!Next
  <2> QED
    BY <1>11, <2>2, <2>3 DEF ExpectReply
<1>12. CASE GiveUp
  <2>1. Session!Lose
    BY <1>12, SameReplies DEF GiveUp, Control, stubVars, Session!Lose
  <2> QED
    BY <1>0, <2>1 DEF Session!Next
<1> QED
    BY <1>1, <1>2, <1>3, <1>4, <1>5, <1>6, <1>7, <1>8, <1>9, <1>10, <1>11, <1>12, <1>13
       DEF Next, StubNext, DebuggerNext

\* Over any link the stub and the debugger implement GDBSession: a command is
\* performed once for each that is given, the same one where damage is noticed,
\* its answer is the one the debugger gets, and the emulator ends only at a
\* command that may end it, in the program or when the link is given up.
THEOREM StubImplementsSession == Spec => SessionSpec
BY InitRefines, SessionInvariant, StepRefines, PTL DEF Spec, SessionSpec, Session!Spec

----------------------------------------------------------------------------
(* Noise: what recvPacket asks for again.                                  *)

\* Damage to packets, a damaged packet, and the retries of recvPacket.
Spoils == damage["garbled"] + damage["beheaded"]
Spoiled(m) == IsPacket(m) /\ m.form # "sound"
Retried == IF stub = "recv" THEN tries ELSE 0

\* Every retry of recvPacket is paid for with a damaged packet, and the stub
\* gives up only when they are more than MaxRetry or of both kinds.
RetriesCounted ==
    /\ Retried <= Spoils
    /\ \A i \in 1 .. Len(toStub) : Spoiled(toStub[i]) => Retried + 1 <= Spoils
         /\ damage[toStub[i].form] > 0
    /\ protocol => damage["beheaded"] > 0
    /\ stub = "dead" => \/ Spoils > MaxRetry
                        \/ protocol /\ damage["garbled"] > 0 /\ damage["beheaded"] > 0

LEMMA DamageNat ==
    ASSUME StubTypeOK
    PROVE  /\ damage["garbled"] \in Nat /\ damage["beheaded"] \in Nat /\ damage["reply"] \in Nat
           /\ damage["ack"] \in Nat
           /\ Spoils \in Nat /\ Retried \in Nat
BY DEF StubTypeOK, Kind, Spoils, Retried

\* What is not damaged costs no retry.
LEMMA RetriesOfSound ==
    ASSUME SessionInv, RetriesCounted, NEW m, Message(m), ~Spoiled(m),
           toStub' = Append(toStub, m),
           UNCHANGED <<stub, tries, protocol, packet>>, damage' = damage
    PROVE  RetriesCounted'
<1>1. /\ Len(toStub') = Len(toStub) + 1 /\ Len(toStub) \in Nat
      /\ (\A i \in 1 .. Len(toStub) : toStub'[i] = toStub[i])
      /\ toStub'[Len(toStub) + 1] = m
    BY AppendWire DEF SessionInv, StubTypeOK
<1>2. \A i \in 1 .. Len(toStub') : Spoiled(toStub'[i]) => i \in 1 .. Len(toStub)
          /\ toStub'[i] = toStub[i]
    BY <1>1
<1>3. Retried' = Retried /\ Spoils' = Spoils
    BY DEF Retried, Spoils
<1> QED
    BY <1>2, <1>3 DEF RetriesCounted

LEMMA RetriesRest ==
    ASSUME SessionInv, RetriesCounted, UNCHANGED <<toStub, stub, tries, protocol, packet, damage>>
    PROVE  RetriesCounted'
BY DEF RetriesCounted, Retried, Spoils

LEMMA recvPacketCounts ==
    ASSUME SessionInv, RetriesCounted, recvPacket
    PROVE  RetriesCounted'
<1>1. damage["garbled"] \in Nat /\ damage["beheaded"] \in Nat /\ Spoils \in Nat /\ tries \in Nat
        /\ Retried \in Nat /\ MaxRetry \in Nat
    BY DamageNat, StubAssumption DEF SessionInv, StubTypeOK
<1>2. stub = "recv" /\ Retried = tries /\ damage' = damage /\ Spoils' = Spoils
    BY DEF recvPacket, recvAndCheck, Retried, Spoils, linkVars
<1>3. \A i \in 1 .. Len(toStub') : ~IsPacket(toStub'[i])
    BY ReceiveOne DEF recvPacket
<1>4. PICK k \in 1 .. Len(toStub) : Received = toStub[k] /\ IsPacket(toStub[k])
    BY ReceiveOne DEF recvPacket
<1>5. /\ Feedback = "PROTOCOL_ERR" => Received.form = "beheaded"
      /\ Feedback = "CHKSUM_ERR" => Received.form = "garbled"
    BY DEF Feedback
<1>6. Feedback \in {"PROTOCOL_ERR", "CHKSUM_ERR"} => Spoiled(toStub[k]) /\ tries + 1 <= Spoils
          /\ damage[Received.form] > 0
    BY <1>2, <1>4, <1>5 DEF RetriesCounted, Spoiled
<1>7. CASE stub' = "dispatch" /\ protocol' = FALSE
    BY <1>1, <1>2, <1>3, <1>7 DEF RetriesCounted, Retried, Spoiled
<1>8. CASE AskAgain /\ stub' = stub /\ tries' = tries + 1
             /\ protocol' = (Feedback = "PROTOCOL_ERR")
    BY <1>1, <1>2, <1>3, <1>5, <1>6, <1>8 DEF RetriesCounted, Retried, Spoiled, AskAgain
<1>9. CASE AskAgain /\ tries >= MaxRetry /\ stub' = "dead" /\ UNCHANGED <<protocol, packet>>
    BY <1>1, <1>2, <1>3, <1>5, <1>6, <1>9 DEF RetriesCounted, Retried, Spoiled, AskAgain
<1>10. CASE Feedback = "CHKSUM_ERR" /\ protocol /\ stub' = "dead"
              /\ UNCHANGED <<protocol, packet>>
    BY <1>1, <1>2, <1>3, <1>5, <1>6, <1>10 DEF RetriesCounted, Retried, Spoiled
<1> QED
    BY <1>7, <1>8, <1>9, <1>10 DEF recvPacket

LEMMA AwaitAckCounts ==
    ASSUME SessionInv, RetriesCounted, AwaitAck
    PROVE  RetriesCounted'
<1>1. /\ stub = "ack" /\ toStub # <<>> /\ UNCHANGED <<protocol, packet>> /\ damage' = damage
      /\ ((stub' = "recv" /\ tries' = 0) \/ stub' = "ack")
    BY DEF AwaitAck, debuggerVars, linkVars
<1>2. toStub' = Tail(toStub)
    BY <1>1, NoPacketWhereAckIsRead DEF AwaitAck, WithoutFirstChar, Sound
<1>3. \A i \in 1 .. Len(toStub') : i + 1 \in 1 .. Len(toStub) /\ toStub'[i] = toStub[i + 1]
    BY <1>1, <1>2, TailWire DEF SessionInv, StubTypeOK
<1>4. Retried = 0 /\ Retried' = 0 /\ Spoils' = Spoils
    BY <1>1 DEF Retried, Spoils
<1>5. \A i \in 1 .. Len(toStub') : Spoiled(toStub'[i]) => 1 <= Spoils
          /\ damage[toStub'[i].form] > 0
    BY <1>3, <1>4 DEF RetriesCounted
<1> QED
    BY <1>1, <1>4, <1>5 DEF RetriesCounted

LEMMA DispatchCounts ==
    ASSUME SessionInv, RetriesCounted,
           Perform \/ Abort \/ cmd_Continue \/ HitWatchPoint \/ NoSuchCase
    PROVE  RetriesCounted'
<1>1. /\ stub \in {"dispatch", "running"} /\ UNCHANGED <<protocol, packet, toStub>>
      /\ damage' = damage
      /\ stub' = "recv" => tries' = tries
      /\ stub' # "dead"
    BY DEF Perform, Abort, cmd_Continue, HitWatchPoint, NoSuchCase, packingAndSend, linkVars
<1>2. \A i \in 1 .. Len(toStub) : ~IsPacket(toStub[i])
    BY <1>1 DEF SessionInv, PacketIsCommand, InTransit
<1>3. tries = 0 /\ Retried = 0 /\ Retried' = 0 /\ Spoils' = Spoils
    BY <1>1 DEF SessionInv, Control, Retried, Spoils
<1> QED
    BY <1>1, <1>2, <1>3 DEF RetriesCounted, Spoiled

LEMMA FaultCounts ==
    ASSUME SessionInv, RetriesCounted, Fault
    PROVE  RetriesCounted'
<1>1. UNCHANGED <<stub, tries, protocol, packet>>
    BY DEF Fault, stubVars
<1>2. CASE SpoilReply \/ LoseAck
  <2>1. toStub' = toStub /\ damage'["garbled"] = damage["garbled"]
          /\ damage'["beheaded"] = damage["beheaded"]
    BY <1>2 DEF SpoilReply, LoseAck, Damage, SessionInv, StubTypeOK, Kind
  <2>2. \A i \in 1 .. Len(toStub) : Spoiled(toStub[i])
            => toStub[i].form \in {"garbled", "beheaded"}
    BY DEF SessionInv, PacketIsCommand, OfCommand, Spoiled
  <2> QED
    BY <1>1, <2>1, <2>2 DEF RetriesCounted, Retried, Spoils
<1>3. ASSUME NEW kind, Spoil(kind) PROVE RetriesCounted'
  <2>0. PICK body \in Misread(kind), k \in DOMAIN toStub :
            /\ Sound(toStub[k])
            /\ toStub' = Replace(toStub, k, [char |-> "$", form |-> kind, body |-> body])
    BY <1>3 DEF Spoil, Replace
  <2> DEFINE m == [char |-> "$", form |-> kind, body |-> body]
  <2>1. Sound(toStub[k]) /\ toStub' = Replace(toStub, k, m)
    BY <2>0
  <2>2. Message(m) /\ m.form = kind /\ kind \in {"garbled", "beheaded"}
    BY <1>3, MessageIs DEF Spoil
  <2> HIDE DEF m
  <2>3. k \in 1 .. Len(toStub) /\ Wire(toStub)
    BY LenOfSeq DEF Wire, SessionInv, StubTypeOK
  <2>4. ReplacedWire(toStub, k, m, Replace(toStub, k, m))
    BY <2>2, <2>3, ReplaceWire
  <2>5. Len(toStub') = Len(toStub) /\ \A i \in 1 .. Len(toStub) :
            toStub'[i] = IF i = k THEN m ELSE toStub[i]
    BY <2>1, <2>4 DEF ReplacedWire
  <2>6. \A i \in 1 .. Len(toStub) : i # k => ~IsPacket(toStub[i])
    BY <2>1, <2>3 DEF SessionInv, OnePacket, Sound
  <2>7. \A i \in 1 .. Len(toStub') : Spoiled(toStub'[i]) => toStub'[i].form = kind
    BY <2>2, <2>5, <2>6 DEF Spoiled
  <2>8. damage' = [damage EXCEPT ![kind] = @ + 1] /\ damage \in [Kind -> Nat] /\ kind \in Kind
    BY <1>3, <2>2 DEF Spoil, Damage, SessionInv, StubTypeOK, Kind
  <2>9. damage'[kind] = damage[kind] + 1
          /\ \A other \in Kind \ {kind} : damage'[other] = damage[other]
    BY <2>8
  <2>10. damage["garbled"] \in Nat /\ damage["beheaded"] \in Nat /\ "garbled" \in Kind
           /\ "beheaded" \in Kind
    BY <2>8 DEF Kind
  <2>11. Spoils' = Spoils + 1 /\ Spoils \in Nat /\ Retried' = Retried /\ Retried \in Nat
    BY <1>1, <2>2, <2>9, <2>10, DamageNat DEF Spoils, Retried, SessionInv
  <2>12. stub # "dead"
    BY <2>1, <2>3 DEF SessionInv, PacketIsCommand, Sound, InTransit
  <2>13. damage'["beheaded"] >= damage["beheaded"] /\ damage'[kind] > 0
    BY <2>2, <2>9, <2>10
  <2>14. Retried <= Spoils /\ (protocol => damage["beheaded"] > 0)
    BY DEF RetriesCounted
  <2>15. Retried' <= Spoils' /\ Retried' + 1 <= Spoils'
    BY <2>11, <2>14
  <2>16. protocol' => damage'["beheaded"] > 0
    BY <1>1, <2>10, <2>13, <2>14, <2>8, <2>9
  <2> QED
    BY <1>1, <2>7, <2>12, <2>13, <2>15, <2>16 DEF RetriesCounted
<1> QED
    BY <1>2, <1>3 DEF Fault

LEMMA RetriesCountedStep ==
    ASSUME SessionInv, RetriesCounted, [Next]_vars
    PROVE  RetriesCounted'
<1>1. CASE Ask
  <2>1. Message(Packet(cmd')) /\ ~Spoiled(Packet(cmd'))
    BY Messages, MessageIs DEF Spoiled
  <2> QED
    BY <1>1, <2>1, RetriesOfSound DEF Ask, stubVars, linkVars
<1>2. CASE ExpectAck \/ ExpectReply \/ GiveUp \/ SendInterrupt
  <2>1. UNCHANGED <<stub, tries, protocol, packet>> /\ damage' = damage
    BY <1>2 DEF ExpectAck, ExpectReply, GiveUp, SendInterrupt, stubVars, linkVars
  <2>2. toStub' = toStub \/ \E m \in {Ack, Nak, Interrupt, Packet(cmd)} :
            toStub' = Append(toStub, m)
    BY <1>2 DEF ExpectAck, ExpectReply, GiveUp, SendInterrupt, Put
  <2>3. \A m \in {Ack, Nak, Interrupt, Packet(cmd)} : Message(m) /\ ~Spoiled(m)
    BY Messages, MessageIs DEF Spoiled
  <2> QED
    BY <2>1, <2>2, <2>3, RetriesOfSound, RetriesRest
<1>3. CASE Step \/ Ended \/ UNCHANGED vars
    BY <1>3, RetriesRest DEF Step, Ended, vars, stubVars, linkVars
<1>4. CASE StepAborts
    BY <1>4 DEF StepAborts, RetriesCounted, Retried, Spoils, linkVars
<1> QED
    BY <1>1, <1>2, <1>3, <1>4, recvPacketCounts, AwaitAckCounts, DispatchCounts, FaultCounts
       DEF Next, StubNext, DebuggerNext

----------------------------------------------------------------------------
(* Noise: a reply nothing has damaged reaches the debugger.                *)

\* The debugger will take the next packet for its reply; there is one.
Expecting == debugger = "reply" \/ (debugger = "ack"
    /\ \E i \in 1 .. Len(toDebugger) : toDebugger[i] = Ack)
Answered == performed /\ reply # Unanswered

LastIsPacket(s) == Len(s) > 0 /\ IsPacket(s[Len(s)])
Unharmed(s) == \A i \in 1 .. Len(s) : IsPacket(s[i]) => Sound(s[i])

\* While no reply was damaged, all are sound and the one expected is there.
RepliesUnharmed ==
    damage["reply"] = 0 => Unharmed(toDebugger)
        /\ (Expecting /\ Answered => LastIsPacket(toDebugger))

LEMMA LastOfTail ==
    ASSUME NEW s, Wire(s), s # <<>>, LastIsPacket(s), ~IsPacket(Head(s)) \/ Tail(s) # <<>>
    PROVE  LastIsPacket(Tail(s)) /\ Tail(s)[Len(Tail(s))] = s[Len(s)]
<1>1. /\ Wire(Tail(s)) /\ Len(s) \in Nat \ {0} /\ Len(Tail(s)) = Len(s) - 1 /\ Head(s) = s[1]
      /\ \A i \in 1 .. Len(Tail(s)) : Tail(s)[i] = s[i + 1]
    BY TailWire
<1>2. Len(s) # 1
    BY <1>1, LenOfSeq DEF LastIsPacket, Wire
<1>3. Len(Tail(s)) \in 1 .. Len(Tail(s)) /\ Len(Tail(s)) + 1 = Len(s)
    BY <1>1, <1>2
<1>4. Tail(s)[Len(Tail(s))] = s[Len(s)]
    BY <1>1, <1>3
<1> QED
    BY <1>3, <1>4 DEF LastIsPacket

LEMMA AppendUnharmed ==
    ASSUME NEW s, NEW m, Wire(s), Message(m)
    PROVE  /\ Unharmed(s) /\ (IsPacket(m) => Sound(m)) => Unharmed(Append(s, m))
           /\ IsPacket(m) => LastIsPacket(Append(s, m))
<1>1. /\ Len(Append(s, m)) = Len(s) + 1 /\ Len(s) \in Nat
      /\ (\A i \in 1 .. Len(s) : Append(s, m)[i] = s[i])
      /\ Append(s, m)[Len(s) + 1] = m
    BY AppendWire
<1>2. \A i \in 1 .. Len(Append(s, m)) : i \in 1 .. Len(s) \/ i = Len(s) + 1
    BY <1>1
<1> QED
    BY <1>1, <1>2 DEF Unharmed, LastIsPacket

LEMMA TailUnharmed ==
    ASSUME NEW s, Wire(s), s # <<>>, Unharmed(s)
    PROVE  Unharmed(Tail(s))
BY TailWire DEF Unharmed

LEMMA StubUnharmed ==
    ASSUME SessionInv, RepliesUnharmed, StubNext
    PROVE  RepliesUnharmed'
<1> USE MessageIs DEF SessionInv, StubTypeOK
<1>0. \A body : IsPacket(Packet(body)) /\ Sound(Packet(body))
    BY Messages DEF Sound
<1>1. damage' = damage /\ debugger' = debugger
    BY DEF StubNext, recvPacket, Perform, Abort, cmd_Continue, Step, StepAborts, HitWatchPoint,
       NoSuchCase, AwaitAck, linkVars, debuggerVars
<1>2. CASE recvPacket \/ Abort \/ cmd_Continue \/ (Perform /\ toDebugger' = Append(toDebugger, Ack)
               /\ reply' = Unanswered)
  <2>1. ~Answered'
    BY <1>2, ReceiveOne DEF Answered, recvPacket, InTransit, Abort, cmd_Continue, Control
  <2>2. toDebugger' = toDebugger \/ \E m \in {Ack, Nak} : toDebugger' = Append(toDebugger, m)
    BY <1>2 DEF recvPacket, Abort, cmd_Continue
  <2>3. Unharmed(toDebugger) => Unharmed(toDebugger')
    BY <2>2, AppendUnharmed, Messages
  <2> QED
    BY <1>1, <2>1, <2>3 DEF RepliesUnharmed
<1>3. CASE Perform /\ packingAndSend(reply', <<Ack>>)
  <2>1. toDebugger' = Append(Append(toDebugger, Ack), Packet(reply'))
    BY <1>3, PackTwo DEF Wire
  <2>2. Wire(Append(toDebugger, Ack))
    BY AppendWire
  <2>3. (Unharmed(toDebugger) => Unharmed(toDebugger')) /\ LastIsPacket(toDebugger')
    BY <1>0, <2>1, <2>2, AppendUnharmed, Messages
  <2> QED
    BY <1>1, <2>3 DEF RepliesUnharmed
<1>4. CASE HitWatchPoint \/ (AwaitAck /\ toDebugger' = Append(toDebugger, Packet(reply)))
  <2>1. \E body : toDebugger' = Append(toDebugger, Packet(body))
    BY <1>4, PackOne DEF HitWatchPoint, Wire
  <2>2. (Unharmed(toDebugger) => Unharmed(toDebugger')) /\ LastIsPacket(toDebugger')
    BY <1>0, <2>1, AppendUnharmed
  <2> QED
    BY <1>1, <2>2 DEF RepliesUnharmed
<1>5. CASE Step \/ StepAborts \/ NoSuchCase \/ (AwaitAck /\ toDebugger' = toDebugger)
    BY <1>1, <1>5 DEF RepliesUnharmed, Step, StepAborts, NoSuchCase, AwaitAck, Expecting, Answered
<1>6. Perform => \/ toDebugger' = Append(toDebugger, Ack) /\ reply' = Unanswered
                 \/ packingAndSend(reply', <<Ack>>)
    BY DEF Perform, packingAndSend
<1>7. AwaitAck => toDebugger' = toDebugger \/ toDebugger' = Append(toDebugger, Packet(reply))
    BY DEF AwaitAck
<1> QED
    BY <1>2, <1>3, <1>4, <1>5, <1>6, <1>7 DEF StubNext

LEMMA DebuggerUnharmed ==
    ASSUME SessionInv, RepliesUnharmed, ExpectAck \/ ExpectReply
    PROVE  RepliesUnharmed'
<1> USE Messages DEF SessionInv, StubTypeOK
<1>1. /\ toDebugger # <<>> /\ toDebugger' = Tail(toDebugger) /\ damage' = damage
      /\ UNCHANGED <<performed, reply>>
      /\ debugger \in {"ack", "reply"}
    BY DEF ExpectAck, ExpectReply, Get, linkVars, stubVars
<1>2. /\ Wire(toDebugger') /\ Len(toDebugger) \in Nat \ {0}
      /\ Len(toDebugger') = Len(toDebugger) - 1
      /\ Head(toDebugger) = toDebugger[1]
      /\ \A i \in 1 .. Len(toDebugger') : i + 1 \in 1 .. Len(toDebugger)
           /\ toDebugger'[i] = toDebugger[i + 1]
    BY <1>1, TailWire
<1>3. SUFFICES ASSUME damage["reply"] = 0, Expecting', Answered' PROVE LastIsPacket(toDebugger')
    BY <1>1, TailUnharmed DEF RepliesUnharmed
<1>4. Expecting
  <2>1. CASE debugger' = "ack"
    <3>1. debugger = "ack"
      BY <2>1 DEF ExpectAck, ExpectReply
    <3>2. \E i \in 1 .. Len(toDebugger') : toDebugger'[i] = Ack
      BY <1>3, <2>1 DEF Expecting
    <3> QED
      BY <1>2, <3>1, <3>2 DEF Expecting
  <2>2. CASE debugger' = "reply"
    <3>1. debugger = "reply" \/ (debugger = "ack" /\ Head(toDebugger) = Ack)
      BY <1>1, <2>2 DEF ExpectAck, ExpectReply, Get
    <3>2. 1 \in 1 .. Len(toDebugger)
      BY <1>2
    <3> QED
      BY <1>2, <3>1, <3>2 DEF Expecting
  <2> QED
    BY <1>3, <2>1, <2>2 DEF Expecting
<1>5. LastIsPacket(toDebugger) /\ Unharmed(toDebugger)
    BY <1>1, <1>3, <1>4 DEF RepliesUnharmed, Answered
<1>6. ~IsPacket(Head(toDebugger)) \/ Tail(toDebugger) # <<>>
  <2>1. SUFFICES ASSUME IsPacket(Head(toDebugger)), Tail(toDebugger) = <<>> PROVE FALSE
    OBVIOUS
  <2>2. Len(toDebugger') = 0
    BY <1>1, <1>2, <2>1, LenOfSeq DEF Wire
  <2>3. debugger' = "reply"
    BY <1>3, <2>2 DEF Expecting
  <2>4. Sound(Head(toDebugger))
    BY <1>2, <1>5, <2>1 DEF Unharmed
  <2> QED
    BY <2>1, <2>3, <2>4 DEF ExpectAck, ExpectReply, Get, Sound
<1> QED
    BY <1>1, <1>5, <1>6, LastOfTail

LEMMA FaultUnharmed ==
    ASSUME SessionInv, RepliesUnharmed, Fault
    PROVE  RepliesUnharmed'
<1> USE Messages DEF SessionInv, StubTypeOK
<1>1. UNCHANGED <<performed, reply, debugger>>
    BY DEF Fault, stubVars, debuggerVars
<1>2. CASE SpoilReply
  <2>1. damage'["reply"] = damage["reply"] + 1 /\ damage["reply"] \in Nat
    BY <1>2 DEF SpoilReply, Damage, Kind
  <2> QED
    BY <2>1 DEF RepliesUnharmed
<1>3. ASSUME NEW kind, Spoil(kind) PROVE RepliesUnharmed'
  <2>1. damage'["reply"] = damage["reply"] /\ toDebugger' = toDebugger
    BY <1>3 DEF Spoil, Damage, Kind
  <2> QED
    BY <1>1, <2>1 DEF RepliesUnharmed, Expecting, Answered
<1>4. CASE LoseAck
  <2>1. damage'["reply"] = damage["reply"] /\ toDebugger # <<>>
          /\ toDebugger' = Tail(toDebugger) /\ Head(toDebugger) = Ack
    BY <1>4 DEF LoseAck, Damage, Kind
  <2>2. \A i \in 1 .. Len(toDebugger') : i + 1 \in 1 .. Len(toDebugger)
            /\ toDebugger'[i] = toDebugger[i + 1]
    BY <2>1, TailWire
  <2>3. Expecting' => Expecting
    BY <1>1, <2>2 DEF Expecting
  <2>4. Unharmed(toDebugger) => Unharmed(toDebugger')
    BY <2>1, TailUnharmed
  <2>5. LastIsPacket(toDebugger) => LastIsPacket(toDebugger')
    BY <2>1, LastOfTail
  <2> QED
    BY <1>1, <2>1, <2>3, <2>4, <2>5 DEF RepliesUnharmed, Answered
<1> QED
    BY <1>2, <1>3, <1>4 DEF Fault

LEMMA RepliesUnharmedStep ==
    ASSUME SessionInv, RepliesUnharmed, [Next]_vars
    PROVE  RepliesUnharmed'
<1>1. CASE Ask \/ GiveUp
  <2>1. damage' = damage /\ toDebugger' = toDebugger /\ (~Answered' \/ ~Expecting')
    BY <1>1 DEF Ask, GiveUp, linkVars, Answered, Expecting
  <2> QED
    BY <2>1 DEF RepliesUnharmed
<1>2. CASE SendInterrupt \/ Ended \/ UNCHANGED vars
    BY <1>2 DEF SendInterrupt, Ended, vars, stubVars, debuggerVars, linkVars, RepliesUnharmed,
       Expecting, Answered
<1> QED
    BY <1>1, <1>2, StubUnharmed, DebuggerUnharmed, FaultUnharmed DEF Next, DebuggerNext

----------------------------------------------------------------------------
(* Noise: without interrupts the stub waits for the acknowledgement of the *)
(* reply and of nothing else.                                              *)

\* A queue without packets, and one whose last packet is sound.
NoPacket(s) == \A i \in 1 .. Len(s) : ~IsPacket(s[i])
LastSound(s) == Sound(s[Len(s)])

\* The reply is the last the stub has sent, and the packet the last the debugger
\* has: only interrupts leave messages too many.
ReplyIsLast ==
    \A j \in 1 .. Len(toDebugger) :
        IsPacket(toDebugger[j]) => j = Len(toDebugger) /\ performed /\ debugger # "idle"

CommandIsLast == \A j \in 1 .. Len(toStub) : IsPacket(toStub[j]) => j = Len(toStub)

\* Nothing waits while a command is performed.
NothingBehind == stub \in {"dispatch", "running"} => Len(toStub) = 0

\* The debugger has the reply, and the loop of packingAndSend its "+".
AckIsFirst ==
    stub = "ack" /\ (debugger = "idle" \/ ~performed) => Len(toStub) > 0 /\ toStub[1] = Ack

\* Otherwise the reply is on its way, or the answer to it, and every time it was
\* sent again one was damaged.
AckIsDue ==
    stub = "ack" /\ debugger # "idle" /\ performed =>
        \/ /\ Len(toStub) = 0 /\ LastIsPacket(toDebugger)
           /\ tries <= damage["reply"] /\ (LastSound(toDebugger) \/ tries + 1 <= damage["reply"])
        \/ /\ Len(toStub) = 1 /\ toStub[1] = Nak /\ NoPacket(toDebugger)
           /\ tries + 1 <= damage["reply"]
        \/ Len(toStub) = 1 /\ toStub[1] = Ack /\ NoPacket(toDebugger) /\ ~Expecting

\* packingAndSend leaves a reply behind only after MaxRetry of them.
LostByRetries == stub = "recv" /\ Expecting /\ Answered => damage["reply"] > MaxRetry

Undisturbed ==
    interrupts = 0 =>
        ReplyIsLast /\ CommandIsLast /\ NothingBehind /\ AckIsFirst /\ AckIsDue /\ LostByRetries

\* The counters.
LEMMA CountsAreNat ==
    ASSUME StubTypeOK
    PROVE  damage["reply"] \in Nat /\ tries \in Nat /\ MaxRetry \in Nat /\ Len(toStub) \in Nat
               /\ Len(toDebugger) \in Nat
BY DamageNat, StubAssumption, LenOfSeq DEF StubTypeOK, Wire

LEMMA recvPacketUndisturbed ==
    ASSUME SessionInv, Undisturbed, interrupts = 0, recvPacket
    PROVE  Undisturbed'
<1> USE Messages DEF SessionInv, StubTypeOK
<1>1. /\ InTransit /\ Wire(toStub') /\ NoPacket(toStub') /\ ~performed /\ ~performed'
      /\ stub' \in {"recv", "dispatch", "dead"}
    BY ReceiveOne DEF NoPacket, recvPacket, recvAndCheck, InTransit
<1>2. PICK k \in 1 .. Len(toStub) : SelectInSeq(toStub, IsPacket) = k /\ k = Len(toStub)
  <2>1. PICK k \in 1 .. Len(toStub) : IsPacket(toStub[k])
    BY FirstPacket DEF recvPacket, recvAndCheck
  <2>2. SelectInSeq(toStub, IsPacket) = k
    BY <2>1, CountsAreNat, OnlyPacket DEF OnePacket
  <2> QED
    BY <2>1, <2>2 DEF Undisturbed, CommandIsLast
<1>3. Len(toStub') = 0
  <2>1. toStub' = SubSeq(toStub, Len(toStub) + 1, Len(toStub))
    BY <1>2, CountsAreNat DEF recvPacket, recvAndCheck
  <2>2. PICK S : toStub \in Seq(S)
    BY DEF Wire, IsSeq
  <2> QED
    BY <2>1, <2>2
<1>4. NoPacket(toDebugger)
    BY <1>1 DEF Undisturbed, ReplyIsLast, NoPacket
<1>5. NoPacket(toDebugger') /\ debugger' = debugger
  <2>1. toDebugger' = toDebugger \/ \E m \in {Ack, Nak} : toDebugger' = Append(toDebugger, m)
    BY DEF recvPacket
  <2>2. \A m \in {Ack, Nak} : NoPacket(Append(toDebugger, m))
    <3>1. SUFFICES ASSUME NEW m \in {Ack, Nak} PROVE NoPacket(Append(toDebugger, m))
      OBVIOUS
    <3>2. /\ Len(Append(toDebugger, m)) = Len(toDebugger) + 1 /\ Len(toDebugger) \in Nat
          /\ (\A i \in 1 .. Len(toDebugger) : Append(toDebugger, m)[i] = toDebugger[i])
          /\ Append(toDebugger, m)[Len(toDebugger) + 1] = m
      BY MessageIs, AppendWire
    <3> QED
      BY <1>4, <3>2 DEF NoPacket
  <2> QED
    BY <1>4, <2>1, <2>2 DEF recvPacket, debuggerVars
<1> QED
    BY <1>1, <1>3, <1>5 DEF NoPacket, Undisturbed, ReplyIsLast, CommandIsLast, NothingBehind,
       AckIsFirst, AckIsDue, LostByRetries, Answered

LEMMA DispatchUndisturbed ==
    ASSUME SessionInv, Undisturbed, interrupts = 0, Perform \/ Abort \/ cmd_Continue
           \/ HitWatchPoint \/ NoSuchCase \/ Step \/ StepAborts
    PROVE  Undisturbed'
<1> USE Messages, MessageIs DEF SessionInv, StubTypeOK
<1>1. /\ stub \in {"dispatch", "running"} /\ ~performed /\ debugger # "idle"
      /\ debugger' = debugger
      /\ toStub' = toStub /\ tries = 0 /\ damage' = damage
    BY DEF Perform, Abort, cmd_Continue, HitWatchPoint, NoSuchCase, Step, StepAborts, Control,
       linkVars, debuggerVars
<1>2. Len(toStub') = 0 /\ NoPacket(toDebugger)
    BY <1>1 DEF Undisturbed, ReplyIsLast, NothingBehind, NoPacket
<1>3. ASSUME NEW m, Message(m), ~IsPacket(m)
      PROVE  NoPacket(Append(toDebugger, m)) /\ Wire(Append(toDebugger, m))
  <2>1. /\ Len(Append(toDebugger, m)) = Len(toDebugger) + 1 /\ Len(toDebugger) \in Nat
        /\ Wire(Append(toDebugger, m))
        /\ (\A i \in 1 .. Len(toDebugger) : Append(toDebugger, m)[i] = toDebugger[i])
        /\ Append(toDebugger, m)[Len(toDebugger) + 1] = m
    BY <1>3, AppendWire
  <2> QED
    BY <1>2, <1>3, <2>1 DEF NoPacket
<1>4. CASE ~performed' \/ (~Answered' /\ stub' # "ack")
  <2>1. NoPacket(toDebugger') /\ stub' # "ack" /\ ~Answered'
    BY <1>2, <1>3, <1>4 DEF Perform, Abort, cmd_Continue, HitWatchPoint, NoSuchCase, Step,
       StepAborts, Answered, packingAndSend
  <2> QED
    BY <1>1, <1>2, <2>1 DEF NoPacket, Undisturbed, ReplyIsLast, CommandIsLast, NothingBehind,
       AckIsFirst, AckIsDue, LostByRetries
<1>5. ASSUME NEW s, Wire(s), NoPacket(s), toDebugger' = Append(s, Packet(reply')), performed',
             stub' = "ack", tries' = 0
      PROVE  Undisturbed'
  <2>1. /\ Len(toDebugger') = Len(s) + 1 /\ Len(s) \in Nat
        /\ (\A i \in 1 .. Len(s) : toDebugger'[i] = s[i])
        /\ toDebugger'[Len(s) + 1] = Packet(reply')
    BY <1>5, AppendWire
  <2>2. LastIsPacket(toDebugger') /\ LastSound(toDebugger')
    BY <2>1 DEF LastIsPacket, LastSound, Sound
  <2>3. ReplyIsLast'
    BY <1>1, <1>5, <2>1 DEF ReplyIsLast, NoPacket
  <2>4. AckIsDue'
    BY <1>1, <1>2, <1>5, <2>2, DamageNat DEF AckIsDue
  <2> QED
    BY <1>1, <1>2, <1>5, <2>3, <2>4 DEF Undisturbed, CommandIsLast, NothingBehind, AckIsFirst,
       LostByRetries
<1>6. CASE Perform /\ packingAndSend(reply', <<Ack>>)
  <2>1. toDebugger' = Append(Append(toDebugger, Ack), Packet(reply'))
    BY <1>6, PackTwo DEF Wire
  <2>2. performed' /\ stub' = "ack" /\ tries' = 0
    BY <1>6 DEF Perform, packingAndSend
  <2> QED
    BY <1>3, <1>5, <2>1, <2>2
<1>7. CASE HitWatchPoint
  <2>1. toDebugger' = Append(toDebugger, Packet(reply')) /\ performed' /\ stub' = "ack"
          /\ tries' = 0
    BY <1>7, PackOne DEF HitWatchPoint, packingAndSend, Wire
  <2> QED
    BY <1>2, <1>5, <2>1
<1>8. Perform => (~Answered' /\ stub' # "ack") \/ packingAndSend(reply', <<Ack>>)
    BY DEF Perform, packingAndSend, Answered
<1> QED
    BY <1>1, <1>4, <1>6, <1>7, <1>8 DEF Abort, cmd_Continue, NoSuchCase, Step, StepAborts

LEMMA AwaitAckUndisturbed ==
    ASSUME SessionInv, Undisturbed, interrupts = 0, AwaitAck
    PROVE  Undisturbed'
<1> USE Messages, MessageIs DEF SessionInv, StubTypeOK
<1>1. /\ stub = "ack" /\ toStub # <<>> /\ UNCHANGED <<reply, debugger, performed>>
      /\ damage' = damage
    BY DEF AwaitAck, debuggerVars, linkVars
<1>2. toStub' = Tail(toStub)
    BY <1>1, NoPacketWhereAckIsRead DEF AwaitAck, WithoutFirstChar, Sound
<1>3. /\ Len(toStub) \in Nat \ {0} /\ Len(toStub') = Len(toStub) - 1
      /\ Head(toStub) = toStub[1]
      /\ \A i \in 1 .. Len(toStub') : i + 1 \in 1 .. Len(toStub) /\ toStub'[i] = toStub[i + 1]
    BY <1>1, <1>2, TailWire
<1>4. CommandIsLast'
    BY <1>3 DEF Undisturbed, CommandIsLast
<1>5. tries \in Nat /\ MaxRetry \in Nat /\ damage["reply"] \in Nat
    BY CountsAreNat
<1>6. CASE stub' = "recv" /\ toDebugger' = toDebugger /\ (Head(toStub) = Ack \/ tries >= MaxRetry)
  <2>1. ReplyIsLast'
    BY <1>1, <1>6 DEF Undisturbed, ReplyIsLast
  <2>2. LostByRetries'
    <3>1. SUFFICES ASSUME Expecting, Answered PROVE damage["reply"] > MaxRetry
      BY <1>1, <1>6 DEF LostByRetries, Expecting, Answered
    <3>2. Len(toStub) = 1 /\ toStub[1] = Nak /\ tries + 1 <= damage["reply"]
      BY <1>1, <1>3, <3>1 DEF Undisturbed, AckIsDue, Answered, Expecting
    <3> QED
      BY <1>3, <1>5, <1>6, <3>2
  <2> QED
    BY <1>4, <1>6, <2>1, <2>2 DEF Undisturbed, NothingBehind, AckIsFirst, AckIsDue
<1>7. CASE stub' = "ack" /\ tries' = tries + 1
             /\ toDebugger' = Append(toDebugger, Packet(reply)) /\ Head(toStub) # Ack
  <2>1. performed /\ debugger # "idle"
    BY <1>1, <1>3, <1>7 DEF Undisturbed, AckIsFirst
  <2>2. Len(toStub) = 1 /\ NoPacket(toDebugger) /\ tries + 1 <= damage["reply"]
    BY <1>1, <1>3, <1>7, <2>1 DEF Undisturbed, AckIsDue
  <2>3. /\ Len(toDebugger') = Len(toDebugger) + 1 /\ Len(toDebugger) \in Nat
        /\ (\A i \in 1 .. Len(toDebugger) : toDebugger'[i] = toDebugger[i])
        /\ toDebugger'[Len(toDebugger) + 1] = Packet(reply)
    BY <1>7, AppendWire
  <2>4. LastIsPacket(toDebugger') /\ LastSound(toDebugger')
    BY <2>3 DEF LastIsPacket, LastSound, Sound
  <2>5. ReplyIsLast'
    BY <1>1, <2>1, <2>2, <2>3 DEF ReplyIsLast, NoPacket
  <2>6. AckIsDue'
    BY <1>1, <1>3, <1>5, <1>7, <2>2, <2>4 DEF AckIsDue
  <2> QED
    BY <1>1, <1>4, <1>7, <2>1, <2>5, <2>6
       DEF Undisturbed, NothingBehind, AckIsFirst, LostByRetries
<1> QED
    BY <1>1, <1>6, <1>7 DEF AwaitAck

LEMMA AskUndisturbed ==
    ASSUME SessionInv, Undisturbed, interrupts = 0, Ask
    PROVE  Undisturbed'
<1> USE Messages, MessageIs DEF SessionInv, StubTypeOK
<1>1. /\ debugger = "idle" /\ debugger' = "ack" /\ stub \in {"recv", "ack"} /\ ~performed'
      /\ UNCHANGED <<stub, toDebugger>>
      /\ ~InTransit
    BY DEF Ask, stubVars, linkVars, Control, InTransit
<1>2. /\ Len(toStub') = Len(toStub) + 1 /\ Len(toStub) \in Nat
      /\ (\A i \in 1 .. Len(toStub) : toStub'[i] = toStub[i])
      /\ toStub'[Len(toStub) + 1] = Packet(cmd')
    BY AppendWire DEF Ask
<1>3. NoPacket(toStub) /\ NoPacket(toDebugger)
    BY <1>1 DEF NoPacket, PacketIsCommand, Undisturbed, ReplyIsLast
<1>4. CommandIsLast' /\ ReplyIsLast'
    BY <1>1, <1>2, <1>3 DEF CommandIsLast, ReplyIsLast, NoPacket
<1>5. AckIsFirst'
  <2>1. stub = "ack" => Len(toStub) > 0 /\ toStub[1] = Ack
    BY <1>1 DEF Undisturbed, AckIsFirst
  <2>2. Len(toStub) > 0 => Len(toStub') > 0 /\ toStub'[1] = toStub[1]
    BY <1>2
  <2> QED
    BY <1>1, <2>1, <2>2 DEF AckIsFirst
<1> QED
    BY <1>1, <1>4, <1>5 DEF Undisturbed, NothingBehind, AckIsDue, LostByRetries, Answered

\* Taking a message leaves the reply last.
LEMMA ReplyStaysLast ==
    ASSUME SessionInv, ReplyIsLast, toDebugger # <<>>, toDebugger' = Tail(toDebugger),
           performed' = performed,
           debugger' # "idle"
    PROVE  ReplyIsLast'
<1>1. /\ Len(toDebugger') = Len(toDebugger) - 1 /\ Len(toDebugger) \in Nat \ {0}
      /\ \A i \in 1 .. Len(toDebugger') : i + 1 \in 1 .. Len(toDebugger)
           /\ toDebugger'[i] = toDebugger[i + 1]
    BY TailWire DEF SessionInv, StubTypeOK
<1>2. SUFFICES ASSUME NEW j \in 1 .. Len(toDebugger'), IsPacket(toDebugger'[j])
               PROVE  j = Len(toDebugger') /\ performed
    BY DEF ReplyIsLast
<1>3. j + 1 \in 1 .. Len(toDebugger) /\ IsPacket(toDebugger[j + 1])
    BY <1>1, <1>2
<1>4. j + 1 = Len(toDebugger) /\ performed
    BY <1>3 DEF ReplyIsLast
<1>5. Len(toDebugger') = Len(toDebugger) - 1 /\ Len(toDebugger) \in Nat
    BY <1>1
<1>6. j \in Int
    OBVIOUS
<1>7. j = Len(toDebugger')
    BY <1>4, <1>5, <1>6
<1> QED
    BY <1>4, <1>7

LEMMA ExpectAckUndisturbed ==
    ASSUME SessionInv, Undisturbed, interrupts = 0, ExpectAck
    PROVE  Undisturbed'
<1> USE Messages, MessageIs DEF SessionInv, StubTypeOK
<1>1. /\ debugger = "ack" /\ debugger' \in {"ack", "reply"} /\ toDebugger # <<>>
      /\ toDebugger' = Tail(toDebugger)
      /\ UNCHANGED <<stub, tries, reply, performed>> /\ damage' = damage
    BY DEF ExpectAck, Get, stubVars, linkVars
<1>2. /\ Wire(toDebugger') /\ Len(toDebugger) \in Nat \ {0}
      /\ Len(toDebugger') = Len(toDebugger) - 1
      /\ Head(toDebugger) = toDebugger[1] /\ 1 \in 1 .. Len(toDebugger)
      /\ \A i \in 1 .. Len(toDebugger') : i + 1 \in 1 .. Len(toDebugger)
           /\ toDebugger'[i] = toDebugger[i + 1]
    BY <1>1, TailWire
<1>3. ReplyIsLast'
    BY <1>1, ReplyStaysLast DEF Undisturbed
<1>4. NoPacket(toDebugger) => NoPacket(toDebugger')
    BY <1>2 DEF NoPacket
<1>5. CASE toDebugger[1] = Ack /\ debugger' = "reply" /\ toStub' = toStub
  <2>1. Expecting
    BY <1>1, <1>2, <1>5 DEF Expecting
  <2>2. LastIsPacket(toDebugger) => LastIsPacket(toDebugger')
            /\ toDebugger'[Len(toDebugger')] = toDebugger[Len(toDebugger)]
    BY <1>1, <1>2, <1>5, LastOfTail
  <2>3. AckIsDue'
    BY <1>1, <1>4, <1>5, <2>1, <2>2 DEF Undisturbed, AckIsDue, LastSound
  <2>4. LostByRetries'
    BY <1>1, <2>1 DEF Undisturbed, LostByRetries, Answered
  <2> QED
    BY <1>1, <1>3, <1>5, <2>3, <2>4 DEF Undisturbed, CommandIsLast, NothingBehind, AckIsFirst
<1>6. CASE toDebugger[1] = Nak /\ debugger' = debugger /\ toStub' = Append(toStub, Packet(cmd))
  <2>1. InTransit /\ NoPacket(toStub)
    BY <1>2, <1>6 DEF OneRequest, NoPacket
  <2>2. /\ Len(toStub') = Len(toStub) + 1 /\ Len(toStub) \in Nat
        /\ (\A i \in 1 .. Len(toStub) : toStub'[i] = toStub[i])
        /\ toStub'[Len(toStub) + 1] = Packet(cmd)
    BY <1>6, AppendWire
  <2>3. CommandIsLast'
    BY <2>1, <2>2 DEF CommandIsLast, NoPacket
  <2>4. AckIsFirst'
    BY <1>1, <2>1, <2>2 DEF Undisturbed, AckIsFirst, InTransit
  <2> QED
    BY <1>1, <1>3, <2>1, <2>3, <2>4 DEF Undisturbed, NothingBehind, AckIsDue, LostByRetries,
       InTransit, Answered
<1>7. CASE IsPacket(toDebugger[1]) /\ debugger' = debugger /\ toStub' = Append(toStub, Ack)
  <2>1. Len(toDebugger) = 1 /\ performed /\ Len(toDebugger') = 0
    BY <1>2, <1>7 DEF Undisturbed, ReplyIsLast
  <2>2. NoPacket(toStub) /\ stub \notin {"dispatch", "running"}
    BY <1>1, <2>1 DEF NoPacket, PacketIsCommand, InTransit, Control
  <2>3. /\ Len(toStub') = Len(toStub) + 1 /\ Len(toStub) \in Nat
        /\ (\A i \in 1 .. Len(toStub) : toStub'[i] = toStub[i])
        /\ toStub'[Len(toStub) + 1] = Ack
    BY <1>7, AppendWire
  <2>4. CommandIsLast'
    BY <2>2, <2>3 DEF CommandIsLast, NoPacket
  <2>5. ~Expecting' /\ NoPacket(toDebugger') /\ ~NoPacket(toDebugger)
    BY <1>1, <1>2, <1>7, <2>1 DEF Expecting, NoPacket
  <2>6. AckIsDue'
    BY <1>1, <2>1, <2>3, <2>5 DEF Undisturbed, AckIsDue
  <2> QED
    BY <1>1, <1>3, <1>7, <2>1, <2>2, <2>4, <2>5, <2>6
       DEF Undisturbed, NothingBehind, AckIsFirst, LostByRetries
<1> QED
    BY <1>2, <1>5, <1>6, <1>7 DEF ExpectAck, Get, Put

LEMMA ExpectReplyUndisturbed ==
    ASSUME SessionInv, Undisturbed, interrupts = 0, ExpectReply
    PROVE  Undisturbed'
<1> USE Messages, MessageIs DEF SessionInv, StubTypeOK
<1>1. /\ debugger = "reply" /\ toDebugger # <<>> /\ toDebugger' = Tail(toDebugger)
      /\ UNCHANGED <<stub, tries, reply, performed>> /\ damage' = damage
      /\ ~InTransit /\ Expecting
    BY DEF ExpectReply, Get, stubVars, linkVars, InTransit, Expecting
<1>2. /\ Wire(toDebugger') /\ Len(toDebugger) \in Nat \ {0}
      /\ Len(toDebugger') = Len(toDebugger) - 1
      /\ Head(toDebugger) = toDebugger[1] /\ 1 \in 1 .. Len(toDebugger)
      /\ \A i \in 1 .. Len(toDebugger') : i + 1 \in 1 .. Len(toDebugger)
           /\ toDebugger'[i] = toDebugger[i + 1]
    BY <1>1, TailWire
<1>3. tries \in Nat /\ damage["reply"] \in Nat
    BY CountsAreNat
<1>4. CASE ~IsPacket(toDebugger[1]) /\ UNCHANGED <<debugger, toStub>>
  <2>1. ReplyIsLast'
    BY <1>1, <1>4, ReplyStaysLast DEF Undisturbed
  <2>2. NoPacket(toDebugger) => NoPacket(toDebugger')
    BY <1>2 DEF NoPacket
  <2>3. LastIsPacket(toDebugger) => LastIsPacket(toDebugger')
            /\ toDebugger'[Len(toDebugger')] = toDebugger[Len(toDebugger)]
    BY <1>1, <1>2, <1>4, LastOfTail
  <2>4. AckIsDue'
    BY <1>1, <1>4, <2>2, <2>3 DEF Undisturbed, AckIsDue, LastSound
  <2> QED
    BY <1>1, <1>4, <2>1, <2>4 DEF Undisturbed, CommandIsLast, NothingBehind, AckIsFirst,
       LostByRetries, Answered
<1>5. ASSUME IsPacket(toDebugger[1])
      PROVE  /\ Len(toDebugger) = 1 /\ Len(toDebugger') = 0 /\ performed /\ NoPacket(toStub)
             /\ stub \notin {"dispatch", "running"} /\ ~NoPacket(toDebugger)
             /\ NoPacket(toDebugger')
  <2>1. Len(toDebugger) = 1 /\ performed /\ Len(toDebugger') = 0
    BY <1>2, <1>5 DEF Undisturbed, ReplyIsLast
  <2> QED
    BY <1>1, <1>2, <1>5, <2>1 DEF NoPacket, PacketIsCommand, Control
<1>6. ASSUME IsPacket(toDebugger[1]), NEW m \in {Ack, Nak}, toStub' = Append(toStub, m)
      PROVE  /\ CommandIsLast' /\ ReplyIsLast' /\ NothingBehind'
             /\ Len(toStub') = Len(toStub) + 1 /\ Len(toStub) \in Nat
             /\ toStub'[Len(toStub) + 1] = m
  <2>1. /\ Len(toStub') = Len(toStub) + 1 /\ Len(toStub) \in Nat
        /\ (\A i \in 1 .. Len(toStub) : toStub'[i] = toStub[i])
        /\ toStub'[Len(toStub) + 1] = m
    BY <1>6, AppendWire
  <2> QED
    BY <1>1, <1>5, <1>6, <2>1 DEF CommandIsLast, ReplyIsLast, NothingBehind, NoPacket
<1>7. CASE Sound(toDebugger[1]) /\ debugger' = "idle" /\ toStub' = Append(toStub, Ack)
  <2>1. IsPacket(toDebugger[1])
    BY <1>7 DEF Sound
  <2>2. AckIsFirst'
    BY <1>1, <1>5, <1>6, <1>7, <2>1 DEF Undisturbed, AckIsDue, AckIsFirst
  <2> QED
    BY <1>6, <1>7, <2>1, <2>2 DEF Undisturbed, AckIsDue, LostByRetries, Expecting
<1>8. CASE IsPacket(toDebugger[1]) /\ ~Sound(toDebugger[1]) /\ debugger' = debugger
             /\ toStub' = Append(toStub, Nak)
  <2>1. ~LastSound(toDebugger) /\ ~NoPacket(toDebugger)
    BY <1>5, <1>8 DEF LastSound
  <2>2. stub = "ack" => Len(toStub) = 0 /\ tries + 1 <= damage["reply"]
    BY <1>1, <1>5, <1>8, <2>1 DEF Undisturbed, AckIsDue
  <2>3. Len(toStub') = Len(toStub) + 1 /\ toStub'[Len(toStub) + 1] = Nak /\ NoPacket(toDebugger')
    BY <1>5, <1>6, <1>8
  <2>4. AckIsDue'
    BY <1>1, <2>2, <2>3 DEF AckIsDue
  <2> QED
    BY <1>1, <1>5, <1>6, <1>8, <2>4 DEF Undisturbed, AckIsFirst, LostByRetries, Answered
<1> QED
    BY <1>2, <1>4, <1>7, <1>8 DEF ExpectReply, Get, Put

LEMMA GiveUpUndisturbed ==
    ASSUME SessionInv, Undisturbed, interrupts = 0, GiveUp
    PROVE  Undisturbed'
<1> USE Messages, MessageIs DEF SessionInv, StubTypeOK
<1>1. /\ stub' = "recv" /\ debugger' = "idle" /\ toDebugger' = toDebugger /\ Len(toDebugger) = 0
      /\ NoPacket(toStub)
    BY LenOfSeq DEF GiveUp, NoPacket, Wire, stubVars
<1>2. /\ Len(toStub') = Len(toStub) + 1 /\ Len(toStub) \in Nat
      /\ (\A i \in 1 .. Len(toStub) : toStub'[i] = toStub[i])
      /\ toStub'[Len(toStub) + 1] = Nak
    BY AppendWire DEF GiveUp, Put
<1>3. ReplyIsLast' /\ CommandIsLast'
    BY <1>1, <1>2 DEF ReplyIsLast, CommandIsLast, NoPacket
<1> QED
    BY <1>1, <1>3 DEF Undisturbed, NothingBehind, AckIsFirst, AckIsDue, LostByRetries, Expecting

LEMMA FaultUndisturbed ==
    ASSUME SessionInv, Undisturbed, interrupts = 0, Fault
    PROVE  Undisturbed'
<1> USE Messages, MessageIs DEF SessionInv, StubTypeOK
<1>1. UNCHANGED <<stub, tries, reply, debugger, performed, interrupts>>
    BY DEF Fault, stubVars, debuggerVars
<1>2. damage["reply"] \in Nat /\ tries \in Nat /\ MaxRetry \in Nat
    BY CountsAreNat
<1>3. ASSUME NEW kind, Spoil(kind) PROVE Undisturbed'
  <2>0. PICK body \in Misread(kind), k \in DOMAIN toStub :
            /\ Sound(toStub[k])
            /\ toStub' = Replace(toStub, k, [char |-> "$", form |-> kind, body |-> body])
    BY <1>3 DEF Spoil, Replace
  <2> DEFINE m == [char |-> "$", form |-> kind, body |-> body]
  <2>1. Sound(toStub[k]) /\ toStub' = Replace(toStub, k, m)
    BY <2>0
  <2>2. Message(m) /\ damage'["reply"] = damage["reply"] /\ toDebugger' = toDebugger
    BY <1>3 DEF Spoil, Damage, Kind
  <2> HIDE DEF m
  <2>3. k \in 1 .. Len(toStub) /\ IsPacket(toStub[k])
    BY <2>1, LenOfSeq DEF Wire, Sound
  <2>4. ReplacedWire(toStub, k, m, Replace(toStub, k, m))
    BY <2>2, <2>3, ReplaceWire
  <2>5. Len(toStub') = Len(toStub) /\ \A i \in 1 .. Len(toStub) :
            toStub'[i] = IF i = k THEN m ELSE toStub[i]
    BY <2>1, <2>4 DEF ReplacedWire
  <2>6. InTransit /\ \A i \in 1 .. Len(toStub) : IsPacket(toStub[i]) => i = k
    BY <2>3 DEF PacketIsCommand, OnePacket
  <2>7. k = Len(toStub) /\ Len(toStub) \in Nat
    BY <2>3, CountsAreNat DEF Undisturbed, CommandIsLast
  <2>8. CommandIsLast'
    BY <2>5, <2>6, <2>7 DEF CommandIsLast
  <2>9. AckIsFirst'
    <3>1. stub = "ack" => Len(toStub) > 0 /\ toStub[1] = Ack
      BY <2>6 DEF Undisturbed, AckIsFirst, InTransit
    <3>2. stub = "ack" => toStub'[1] = toStub[1]
      BY <2>3, <2>5, <2>7, <3>1
    <3> QED
      BY <1>1, <2>5, <3>1, <3>2 DEF AckIsFirst
  <2> QED
    BY <1>1, <2>2, <2>6, <2>8, <2>9 DEF Undisturbed, ReplyIsLast, NothingBehind, AckIsDue,
       LostByRetries, Answered, InTransit
<1>4. CASE SpoilReply
  <2>1. PICK k \in DOMAIN toDebugger : Sound(toDebugger[k])
            /\ toDebugger' = Replace(toDebugger, k, Garbled(toDebugger[k]))
    BY <1>4 DEF SpoilReply, Replace, Garbled
  <2> DEFINE m == Garbled(toDebugger[k])
  <2>2. damage'["reply"] = damage["reply"] + 1 /\ toStub' = toStub
    BY <1>4 DEF SpoilReply, Damage, Kind
  <2>3. k \in 1 .. Len(toDebugger) /\ IsPacket(toDebugger[k]) /\ Message(toDebugger[k])
    BY <2>1, LenOfSeq DEF Wire, Sound
  <2>4. Message(m) /\ IsPacket(m) /\ m # Ack
    BY <2>3, GarbledMessage
  <2> HIDE DEF m
  <2>5. ReplacedWire(toDebugger, k, m, Replace(toDebugger, k, m))
    BY <2>3, <2>4, ReplaceWire
  <2>6. Len(toDebugger') = Len(toDebugger)
          /\ \A i \in 1 .. Len(toDebugger) : toDebugger'[i] = IF i = k THEN m ELSE toDebugger[i]
    BY <2>1, <2>5 DEF ReplacedWire, m
  <2>7. k = Len(toDebugger) /\ Len(toDebugger) \in Nat /\ performed /\ debugger # "idle"
          /\ ~NoPacket(toDebugger)
    BY <2>3, CountsAreNat DEF Undisturbed, ReplyIsLast, NoPacket
  <2>8. ReplyIsLast'
    BY <1>1, <2>6, <2>7 DEF Undisturbed, ReplyIsLast
  <2>9. LastIsPacket(toDebugger')
    BY <2>3, <2>4, <2>6, <2>7 DEF LastIsPacket
  <2>10. Expecting' => Expecting
    BY <1>1, <2>4, <2>6 DEF Expecting
  <2>11. stub = "ack" => Len(toStub) = 0 /\ tries <= damage["reply"]
    BY <2>7 DEF Undisturbed, AckIsDue
  <2>12. AckIsDue'
    BY <1>1, <1>2, <2>2, <2>9, <2>11 DEF AckIsDue
  <2>13. LostByRetries'
    BY <1>1, <1>2, <2>2, <2>10 DEF Undisturbed, LostByRetries, Answered
  <2> QED
    BY <1>1, <2>2, <2>7, <2>8, <2>12, <2>13
       DEF Undisturbed, CommandIsLast, NothingBehind, AckIsFirst
<1>5. CASE LoseAck
  <2>1. damage'["reply"] = damage["reply"] /\ toStub' = toStub /\ toDebugger # <<>>
          /\ toDebugger' = Tail(toDebugger) /\ Head(toDebugger) = Ack
    BY <1>5 DEF LoseAck, Damage, Kind
  <2>2. /\ Head(toDebugger) = toDebugger[1] /\ 1 \in 1 .. Len(toDebugger)
        /\ \A i \in 1 .. Len(toDebugger') : i + 1 \in 1 .. Len(toDebugger)
             /\ toDebugger'[i] = toDebugger[i + 1]
    BY <2>1, TailWire
  <2>3. (Expecting' => Expecting) /\ (NoPacket(toDebugger) => NoPacket(toDebugger'))
    BY <1>1, <2>2 DEF Expecting, NoPacket
  <2>4. LastIsPacket(toDebugger) => LastIsPacket(toDebugger')
            /\ toDebugger'[Len(toDebugger')] = toDebugger[Len(toDebugger)]
    BY <2>1, LastOfTail
  <2>5. ReplyIsLast'
    <3>1. CASE debugger = "idle"
      <4>1. FALSE
        BY <2>1, <2>2, <3>1 DEF AcksReceived
      <4> QED
        BY <4>1
    <3>2. CASE debugger # "idle"
      BY <1>1, <2>1, <3>2, ReplyStaysLast DEF Undisturbed
    <3> QED
      BY <3>1, <3>2
  <2>6. AckIsDue'
    BY <1>1, <2>1, <2>3, <2>4 DEF Undisturbed, AckIsDue, LastSound
  <2> QED
    BY <1>1, <2>1, <2>3, <2>5, <2>6 DEF Undisturbed, CommandIsLast, NothingBehind, AckIsFirst,
       LostByRetries, Answered
<1> QED
    BY <1>3, <1>4, <1>5 DEF Fault

LEMMA UndisturbedStep ==
    ASSUME SessionInv, Undisturbed, [Next]_vars
    PROVE  Undisturbed'
<1>1. CASE SendInterrupt
  <2>1. interrupts' # 0
    BY <1>1 DEF SendInterrupt, SessionInv, StubTypeOK
  <2> QED
    BY <2>1 DEF Undisturbed
<1>2. CASE Ended \/ UNCHANGED vars
    BY <1>2 DEF Ended, vars, stubVars, debuggerVars, linkVars, Undisturbed, ReplyIsLast,
       CommandIsLast, NothingBehind,
        AckIsFirst, AckIsDue, LostByRetries, Answered, Expecting
<1>3. CASE ~SendInterrupt /\ ~(Ended \/ UNCHANGED vars)
  <2>1. interrupts' = interrupts
    BY <1>3 DEF Next, StubNext, DebuggerNext, recvPacket, Perform, Abort, cmd_Continue, Step,
       StepAborts, HitWatchPoint, NoSuchCase, AwaitAck,
        Ask, ExpectAck, ExpectReply, GiveUp, Fault, linkVars
  <2>2. CASE interrupts = 0
    BY <1>3, <2>2, recvPacketUndisturbed, DispatchUndisturbed, AwaitAckUndisturbed,
       AskUndisturbed, ExpectAckUndisturbed,
       ExpectReplyUndisturbed, GiveUpUndisturbed, FaultUndisturbed
       DEF Next, StubNext, DebuggerNext
  <2> QED
    BY <2>1, <2>2 DEF Undisturbed
<1> QED
    BY <1>1, <1>2, <1>3

\* An answer is lost only to more than MaxRetry damaged replies, or to one when an
\* interrupt has left an acknowledgement too many.
LossExplained ==
    debugger = "idle" /\ performed /\ got # reply =>
        damage["reply"] > MaxRetry \/ (interrupts > 0 /\ damage["reply"] > 0)

NoiseInv == SessionInv /\ RetriesCounted /\ RepliesUnharmed /\ Undisturbed /\ LossExplained

LEMMA LossExplainedStep ==
    ASSUME NoiseInv, [Next]_vars
    PROVE  LossExplained'
<1> USE DEF NoiseInv
<1>0. damage["reply"] \in Nat /\ damage'["reply"] \in Nat /\ damage'["reply"] >= damage["reply"]
      /\ interrupts \in Nat /\ interrupts' >= interrupts /\ interrupts' \in Nat
  <2>1. SessionInv'
    BY SessionInvStep
  <2>2. damage["reply"] \in Nat /\ damage'["reply"] \in Nat /\ interrupts \in Nat
          /\ interrupts' \in Nat
    BY <2>1 DEF SessionInv, StubTypeOK, Kind
  <2>3. damage' = damage \/ \E kind \in Kind : damage' = [damage EXCEPT ![kind] = @ + 1]
    BY DEF Next, StubNext, DebuggerNext, recvPacket, Perform, Abort, cmd_Continue, Step, StepAborts,
       HitWatchPoint, NoSuchCase, AwaitAck,
        Ask, ExpectAck, ExpectReply, GiveUp, SendInterrupt, Fault, SpoilReply, LoseAck, Spoil,
        Damage, Ended, vars, linkVars, Kind
  <2>4. interrupts' = interrupts \/ interrupts' = interrupts + 1
    BY DEF Next, StubNext, DebuggerNext, recvPacket, Perform, Abort, cmd_Continue, Step, StepAborts,
       HitWatchPoint, NoSuchCase, AwaitAck,
        Ask, ExpectAck, ExpectReply, GiveUp, SendInterrupt, Fault, Ended, vars, linkVars
  <2>5. damage'["reply"] >= damage["reply"]
    BY <2>2, <2>3 DEF SessionInv, StubTypeOK, Kind
  <2> QED
    BY <2>2, <2>4, <2>5
<1>1. CASE UNCHANGED <<debugger, performed, got, reply>>
    BY <1>0, <1>1, StubAssumption DEF LossExplained
<1>2. CASE StubNext \/ Ask \/ ExpectAck
  <2>1. \/ UNCHANGED <<debugger, performed, got, reply>>
        \/ debugger' # "idle"
    BY <1>2 DEF StubNext, recvPacket, Perform, Abort, cmd_Continue, Step, StepAborts,
       HitWatchPoint, NoSuchCase,
       AwaitAck, Ask, ExpectAck,
        debuggerVars, SessionInv, Control, stubVars
  <2> QED
    BY <1>1, <2>1 DEF LossExplained
<1>3. CASE ExpectReply
  <2>1. reply' = reply /\ (UNCHANGED <<debugger, got>>
            \/ (Sound(Head(toDebugger)) /\ got' = Head(toDebugger).body))
        /\ performed' = performed
    BY <1>3 DEF ExpectReply, stubVars
  <2> QED
    BY <1>1, <1>3, <2>1, ExpectReplySafe DEF LossExplained
<1>4. CASE GiveUp
  <2>1. /\ debugger = "reply" /\ stub = "recv" /\ Len(toDebugger) = 0 /\ got' = Unanswered
        /\ UNCHANGED <<reply, performed, damage, interrupts>>
    BY <1>4, LenOfSeq DEF GiveUp, SessionInv, StubTypeOK, Wire, stubVars, linkVars
  <2>2. SUFFICES ASSUME performed, got' # reply
                 PROVE  damage["reply"] > MaxRetry \/ (interrupts > 0 /\ damage["reply"] > 0)
    BY <2>1 DEF LossExplained
  <2>3. Expecting /\ Answered
    BY <2>1, <2>2 DEF Expecting, Answered
  <2>4. damage["reply"] # 0
    BY <2>1, <2>3 DEF RepliesUnharmed, LastIsPacket
  <2>5. interrupts = 0 => damage["reply"] > MaxRetry
    BY <2>1, <2>3 DEF Undisturbed, LostByRetries
  <2> QED
    BY <1>0, <2>4, <2>5
<1>5. CASE SendInterrupt \/ Fault \/ Ended \/ UNCHANGED vars
    BY <1>1, <1>5 DEF SendInterrupt, Fault, Ended, vars, stubVars, debuggerVars
<1> QED
    BY <1>2, <1>3, <1>4, <1>5 DEF Next, DebuggerNext

LEMMA InitNoise == Init => NoiseInv
<1> SUFFICES ASSUME Init PROVE NoiseInv
    OBVIOUS
<1>1. SessionInv /\ Len(toStub) = 0 /\ Len(toDebugger) = 0
    BY InitSession DEF Init
<1>2. damage["garbled"] = 0 /\ damage["beheaded"] = 0 /\ damage["reply"] = 0
    BY DEF Init, Kind
<1> QED
    BY <1>1, <1>2 DEF Init, NoiseInv, RetriesCounted, Retried, Spoils, RepliesUnharmed, Unharmed,
       Undisturbed, ReplyIsLast,
        CommandIsLast, NothingBehind, AckIsFirst, AckIsDue, LostByRetries, Answered, LossExplained

LEMMA NoiseInvStep ==
    ASSUME NoiseInv, [Next]_vars
    PROVE  NoiseInv'
BY SessionInvStep, RetriesCountedStep, RepliesUnharmedStep, UndisturbedStep,
   LossExplainedStep DEF NoiseInv

\* Up to MaxRetry faults, recvPacket gives up only at a wrong checksum after a
\* protocol error, and packingAndSend an answer only after an interrupt.
THEOREM NoiseSurvived == Spec => []NoiseIsSurvived
<1>1. NoiseInv => NoiseIsSurvived
  <2> SUFFICES ASSUME NoiseInv PROVE NoiseIsSurvived
    OBVIOUS
  <2>1. /\ damage["garbled"] \in Nat /\ damage["beheaded"] \in Nat /\ damage["reply"] \in Nat
        /\ damage["ack"] \in Nat
        /\ interrupts \in Nat /\ MaxRetry \in Nat
    BY DamageNat, CountsAreNat DEF NoiseInv, SessionInv, StubTypeOK
  <2>2. CASE stub = "dead"
    BY <2>1, <2>2 DEF NoiseInv, RetriesCounted, Spoils, LossExplained, NoiseIsSurvived
  <2>3. CASE stub # "dead"
    BY <2>1, <2>3 DEF NoiseInv, LossExplained, NoiseIsSurvived
  <2> QED
    BY <2>2, <2>3
<1> QED
    BY <1>1, InitNoise, NoiseInvStep, PTL DEF Spec
============================================================================
