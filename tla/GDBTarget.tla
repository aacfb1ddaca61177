----------------------------- MODULE GDBTarget -----------------------------
(***************************************************************************)
(* What a command of the debugger does to the debugged core, and what it   *)
(* is answered: the cmd_ functions of GDBStub_cmds.cpp over the debug      *)
(* interface of the core (rv64_debug.cpp, Core.h).                         *)
(*                                                                         *)
(* A target is [pc, x0, watch, paged, walk, mem]: the program counter, the *)
(* register that should be zero (the others behave like memory), the watch *)
(* points, whether debug accesses are translated and how, and the RAM.     *)
(* The text of a reply is a kind and its numbers; a hexadecimal rendering  *)
(* is the sequence it renders.                                             *)
(*                                                                         *)
(* A translation is what getTLBEntry and the permissions make of an        *)
(* address: it is mapped for reading or writing, meets an assertion, or    *)
(* faults.  The page tables lie outside the RAM that is modelled, and what *)
(* a debug access leaves in the TLB is Sv39Tlb's: only the program changes *)
(* it.  What an access does to another device than the RAM is not part of  *)
(* the target.                                                             *)
(***************************************************************************)
EXTENDS Integers, Sequences

CONSTANTS
    Pc,         \* program counters
    Value,      \* the values of a byte and of x0
    Region,     \* the devices on the bus: [kind, base, size]
    Walk,       \* translations: [read, write, asserts]
    LLONG_MAX,  \* the largest number strtoll returns
    StackSize   \* the longest buffer alloca finds room for

\* The regions of the platform do not touch, and one of them is the RAM's.  The
\* maps of a translation are partial, from virtual to physical addresses;
\* asserts are the addresses at which it meets an assertion.
ASSUME TargetAssumption ==
    /\ LLONG_MAX \in Nat /\ StackSize \in Nat
    /\ Pc \subseteq Nat /\ 0 \in Value /\ Value \subseteq Int
    /\ \A r \in Region : /\ r.kind \in {"ram", "plic", "other"} /\ r.base \in Nat /\ r.size \in Nat
    /\ \A r, s \in Region : \/ r = s
                           \/ r.base + r.size < s.base
                           \/ s.base + s.size < r.base
    /\ \A r, s \in Region : r.kind = "ram" /\ s.kind = "ram" => r = s
    /\ \A w \in Walk : \A op \in {"read", "write"} :
          \A a \in DOMAIN w[op] : a \in Nat /\ w[op][a] \in Nat

\* The addresses of the RAM's bytes.
Ram == UNION {r.base .. r.base + r.size - 1 : r \in {s \in Region : s.kind = "ram"}}

Target == [pc : Pc, x0 : Value, watch : SUBSET (Pc \cup {LLONG_MAX}),
           paged : BOOLEAN, walk : Walk, mem : [Ram -> Value]]

NoCommand == [op |-> "none"]     \* no command, or none the parser knows

Reply(kind, data) == [kind |-> kind, data |-> data]
Empty == Reply("", <<>>)               \* the empty reply: not supported
Error == Reply("E01", <<>>)
Ok == Reply("OK", <<>>)
Halted == Reply("S05", <<>>)
Unanswered == Reply("none", <<>>)      \* the stub sends nothing
Aborted == Reply("aborted", <<>>)      \* the emulator has ended

Outcome(t, reply) == [target |-> t, reply |-> reply]

----------------------------------------------------------------------------
(* Registers.                                                              *)

DumpRegister_CoreAPI(t) == <<t.x0, t.pc>>

cmd_ReadAllRegister(t) == Outcome(t, Reply("registers", DumpRegister_CoreAPI(t)))

\* All registers or none; x0 is written like the others.
WriteAllRegister_CoreAPI(t, regs) == [t EXCEPT !.x0 = regs[1], !.pc = regs[2]]

\* Only a failure is answered.
cmd_WriteAllRegister(t, regs, whole) ==
    IF ~whole THEN Outcome(t, Empty)
    ELSE IF Len(regs) # Len(DumpRegister_CoreAPI(t)) THEN Outcome(t, Error)
    ELSE Outcome(WriteAllRegister_CoreAPI(t, regs), Unanswered)

----------------------------------------------------------------------------
(* Memory.                                                                 *)

\* How the numbers of a command are read: one above the largest signed number,
\* such as an address in the upper half, becomes that number.
strtoll(n) == IF n <= LLONG_MAX THEN n ELSE LLONG_MAX

\* The end of a region counts as inside.
isAddrInRange(r, a) == r.base <= a /\ a <= r.base + r.size

\* All devices but the RAM assert that an access ends in their region; the PLIC
\* is read in words.
Asserts(r, op, a, len) ==
    \/ r.kind # "ram" /\ a - r.base + len > r.size
    \/ r.kind = "plic" /\ op = "read" /\ len # 4

\* The RAM checks no end, and the PLIC stores a word of the buffer, whatever the
\* size, and indexes its arrays with it: both may end the emulator, or reach
\* other memory of it, which is not part of the target.
Strays(r, a, len) == (r.kind = "ram" /\ a - r.base + len > r.size) \/ r.kind = "plic"

\* How a bus access may end.  Only its first address is looked up, and the
\* answer of the device is not.
PAddr_MMIOBus_API(op, a, len) ==
    LET devices == {r \in Region : isAddrInRange(r, a)}
    IN  IF devices = {} THEN {"refused"}
        ELSE {"done" : r \in {d \in devices : ~Asserts(d, op, a, len)}}
             \cup {"aborted" : r \in {d \in devices : Asserts(d, op, a, len) \/ Strays(d, a, len)}}

\* The translated access of one byte.
VAddr_MMU_API(w, op, a) ==
    IF a \in w.asserts THEN {"aborted"}
    ELSE IF a \notin DOMAIN w[op] THEN {"refused"}
    ELSE PAddr_MMIOBus_API(op, w[op][a], 1)

\* How many bytes a debug access may reach, and how it may end: untranslated it
\* is one bus access; translated it goes byte by byte up to the first failure.
Reached(t, op, a, len) ==
    IF ~t.paged
    THEN {[bytes |-> IF end = "done" THEN len ELSE 0, end |-> end] :
             end \in PAddr_MMIOBus_API(op, a, len)}
    ELSE {e \in [bytes : 0 .. len, end : {"done", "refused", "aborted"}] :
             /\ \A i \in 0 .. e.bytes - 1 : "done" \in VAddr_MMU_API(t.walk, op, a + i)
             /\ \/ e.end = "done" /\ e.bytes = len
                \/ e.end # "done" /\ e.bytes < len
                   /\ e.end \in VAddr_MMU_API(t.walk, op, a + e.bytes)}

\* The place of an address that is reached.
Place(t, op, a) == IF t.paged THEN t.walk[op][a] ELSE a

\* What a read may find: outside the RAM, the registers of a device or what
\* happens to lie there.
MemRead_CoreDebugAPI(t, a, len) ==
    {data \in [1 .. len -> Value] :
        \A i \in 1 .. len : LET place == Place(t, "read", a + i - 1)
                           IN  place \in Ram => data[i] = t.mem[place]}

\* The buffer is on the stack, whatever its length; that of a write is as long as
\* the packet at most.
cmd_MemRead(t, addr, length) ==
    LET a == strtoll(addr)
        len == strtoll(length)
        ends == {e.end : e \in Reached(t, "read", a, len)}
    IN  IF len > StackSize THEN {Outcome(t, Aborted)}
        ELSE {Outcome(t, IF data = <<>> THEN Empty ELSE Reply("memory", data)) :
                 data \in IF "done" \in ends THEN MemRead_CoreDebugAPI(t, a, len) ELSE {}}
             \cup {Outcome(t, Error) : e \in ends \cap {"refused"}}
             \cup {Outcome(t, Aborted) : e \in ends \cap {"aborted"}}

\* The first n bytes of data are written: a write that fails half way leaves
\* them.
MemWrite_CoreDebugAPI(t, a, data, n) ==
    [t EXCEPT !.mem = [b \in Ram |->
        IF \E i \in 1 .. n : Place(t, "write", a + i - 1) = b
        THEN data[CHOOSE i \in 1 .. n : Place(t, "write", a + i - 1) = b]
        ELSE t.mem[b]]]

\* Only a failure is answered.
cmd_MemWrite(t, addr, length, data) ==
    LET a == strtoll(addr)
        len == strtoll(length)
    IN  IF Len(data) # len THEN {Outcome(t, Empty)}
        ELSE {CASE e.end = "done"    -> Outcome(MemWrite_CoreDebugAPI(t, a, data, len), Unanswered)
                [] e.end = "refused" -> Outcome(MemWrite_CoreDebugAPI(t, a, data, e.bytes), Error)
                [] OTHER             -> Outcome(t, Aborted) :
              e \in Reached(t, "write", a, len)}

----------------------------------------------------------------------------
(* Watch points and the rest.                                              *)

IsCurrentPCAtWatchPoint(t) == t.pc \in t.watch

\* Software and hardware breakpoints, types 0 and 1, are the same set.
Breakpoint == {0, 1}

cmd_InsertBreakpoint(t, type, pc) ==
    IF type \in Breakpoint THEN Outcome([t EXCEPT !.watch = @ \cup {strtoll(pc)}], Ok)
                           ELSE Outcome(t, Empty)

cmd_RemoveBreakpoint(t, type, pc) ==
    IF type \in Breakpoint THEN Outcome([t EXCEPT !.watch = @ \ {strtoll(pc)}], Ok)
                           ELSE Outcome(t, Empty)

cmd_QSupported(t, hwbreak) == Outcome(t, IF hwbreak THEN Reply("hwbreak+", <<>>) ELSE Empty)

\* cmd_Continue runs the core unless an address was given.
Resumes(c) == c.op = "c" /\ ~c.addressed

\* ParsePacket and the switch of Debug_GDBStub, for what does not resume the
\* core: the outcomes a command may have.  The empty packet falls through the
\* parser to CMD_UNKNOWN.
Effect(t, c) ==
    CASE c.op = "?" -> {Outcome(t, Halted)}
      [] c.op = "g" -> {cmd_ReadAllRegister(t)}
      [] c.op = "G" -> {cmd_WriteAllRegister(t, c.regs, c.whole)}
      [] c.op = "q" -> {cmd_QSupported(t, c.hwbreak)}
      [] c.op = "m" -> cmd_MemRead(t, c.addr, c.len)
      [] c.op = "M" -> cmd_MemWrite(t, c.addr, c.len, c.data)
      [] c.op = "Z" -> {cmd_InsertBreakpoint(t, c.type, c.pc)}
      [] c.op = "z" -> {cmd_RemoveBreakpoint(t, c.type, c.pc)}
      [] OTHER      -> {Outcome(t, Empty)}

\* The type CMD_REG_READ_INDEX is parsed and has no case in the switch.
Undispatched(c) == c.op = "p"

\* The commands that may end the emulator.
MayAbort(t, c) ==
    \/ Undispatched(c)
    \/ ~Resumes(c) /\ \E outcome \in Effect(t, c) : outcome.reply = Aborted

\* What an instruction of the program may leave (external: Step_CoreAPI).
Stepped(t) == {u \in Target : u.x0 = t.x0 /\ u.watch = t.watch}
============================================================================
