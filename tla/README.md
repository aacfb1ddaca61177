# M-EMU: a verification project

M-EMU emulates a machine with two RV64 cores, an SV39 MMU per core, a platform
interrupt controller (PLIC), a core-local interruptor (CLINT), a serial port
and RAM on one bus; it boots Linux. This directory holds TLA+ modules translated from its
source, the TLC configurations that check them on small instances, and proofs
for every value of their constants. Paths below are relative to `src/M-EMU/`.

## 1. The system

One thread runs everything. `Run_Platform_API` repeats: update the CLINT, update
the PLIC, step core 0, step core 1, and every hundredth round step the serial
port. There are no races of threads; what interleaves is the instructions of the
two cores, the guest code of each with traps, and the rounds of the loop. State
that one part computes and another uses later is therefore the main source of
trouble: translations in the TLB, keys in its hash map, LR reservations, claim
registers of the PLIC, interrupt bits. Assertions are not compiled out, so one that fails
ends the emulator, and the models have such an end (`aborted`).

| component | state | operations | interacts with |
|---|---|---|---|
| MMU translation (`core/rv64/inline_impl/rv64_sv39.hpp`) | `tlb[32]`, `tlbGetCache`, `lastSwappedIndex` | `getTLBEntry`, `writeTLB`, `SV39_FlushTLB_sfence_vma` | reads page tables over the bus; satp; called by every access |
| MMU accesses (`rv64_sv39.hpp`, `rv64_amo.hpp`) | `lr_pa`, `lr_size`, `lr_valid` | load, store, fetch, LR, SC, AMO | translation, mstatus, bus |
| Privilege and CSRs (`rv64_privilege.hpp`, `rv64_exec.cpp`) | CSRs, `currentPrivMode`, `nextPrivMode`, `needTrap`, PCs | `preExec`, `raiseTrap`, `ecall`, `mret`, `sret`, `csr_read`, `csr_write` | interrupt lines of the controllers |
| Decode and execution (`rv64_exec.cpp`, `rv64_common.hpp`, `rv64_inst.h`, `rv64_amo.hpp`) | registers, pc | one operation per instruction, 32-bit or compressed | all of the above |
| PLIC (`intc/rv_plic`) | priority, threshold, enable, pending, claim, claimed | `update_ext`, `get_int`, `do_read`, `do_write` | devices' lines in, cores' `meip`/`seip` out |
| CLINT (`intc/rv_clint`) | mtime, mtimecmp, msip | `tick`, `do_read`, `do_write` | cores' `msip`/`mtip` |
| Serial port (`dev/uartlite`) | four registers, two queues, `wait_ack` | `do_read`, `do_write`, `putc`, `getc`, `irq`, `Step` | terminal, PLIC |
| Run loop (`platform/default`) | turn, counter | `Run_Platform_API` | everything |
| Bus (`bus/default`) | device list, lookup cache | `Read`, `Write`, `Register` | devices |
| RAM (`dev/ram`) | bytes | read, write | bus |
| GDB stub (`src/gdb_stub`) | connection, retry counters, packet buffer | `recvPacket`, `Debug_GDBStub`, `cmd_...`, `packingAndSend` | the debugger over a socket; the debugged core |
| Debug access (`rv64_debug.cpp`, `Core.h`) | watch points | registers, memory, watch points | core, MMU, bus |
| Object factory, logging, main, unit tests | none at run time | start-up | |

What makes each correct, and what is hard about it:

* **Translation.** An access sees what the page tables said at some moment since the last
  `sfence.vma` that covers it. Hard: the hash map is never cleaned by a
  fence, eviction may erase another entry's key, entries of three page sizes
  share one key space, slots are re-used.
* **Accesses.** The checks follow the privilege `mprv` selects; an SC succeeds for
  the hart's own last LR and writes what it read. Hard: three copies of the checks,
  reservations kept by virtual address, two harts.
* **Privilege.** A trap sets all of its registers for one and the same mode; at
  most one trap per step; the mode rises by a trap only; interrupts obey their
  masks. Hard: four places of a step can trap; CSR writes, traps and returns in any sequence.
* **PLIC and serial port.** A source is served by one hart at a time and never
  lost; characters arrive once and in order; interrupts end. Hard:
  claim registers are out of date for the rest of a round, status and data are two
  accesses, characters arrive at any time, routing moves.
* **CLINT.** A timer does not fire before its time and does fire after it; a message
  between cores is announced. Hard: lines are sampled once a round, registers are
  written in halves, both cores write one software interrupt bit.
* **Bus.** An access reaches the device registered there. Hard: a lookup cache that is
  never invalidated, regions with their end inside.
* **Instructions.** Results are the architecture's; a compressed instruction does what the
  one it stands for does; one that traps has changed nothing. Hard: two decoders and
  two copies of the operations, immediates out of up to eight bit fields, one switch for both widths.
* **GDB stub.** A command is performed once and its own answer is what the debugger
  gets, whatever happens on the line; noise that checksums show costs retries, not answers. Hard: every command is
  acknowledged twice, two readers share one descriptor (a stdio stream that reads
  ahead, made anew for each packet, and `read` for acknowledgements), retries at both ends; as it is
  built the stub compares no checksums; memory commands meet the assertions of MMU and devices.

## 2. The modules

| module | models |
|---|---|
| `Sv39Types` | addresses, PTEs, TLB entries, the three-level walk |
| `Sv39Arch` | the abstract specification: translation with no TLB |
| `Sv39Tlb` | the TLB with its hash map; extends `Sv39Arch`, whose variables it refines |
| `PrivModes` | `PrivMode_e` |
| `RV64Privilege` | one `Step_CoreAPI`: interrupts, traps, returns, CSR writes |
| `RV64Memory` | access checks, LR/SC and AMO of several harts |
| `RVPLICtrl` | the PLIC under accesses in any order; the abstraction of its use in `Platform` |
| `UartLite` | the serial port and its terminal |
| `Platform` | the run loop, two cores with a driver, the PLIC and the serial port composed |
| `RVCLInt` | the CLINT: clock, compare and software interrupt registers, sampled lines |
| `TimerPlatform` | the run loop, the CLINT and the firmware of two cores composed |
| `MMIOBus` | registration of devices, lookup and its cache, hand-over of an access |
| `Binary` | bits of a number, and a number from its bits |
| `RV64Alu` | `alu_exec` and `pa_amo_op`, at any width; the bitwise operators bit by bit |
| `RV64Isa` | the architecture's instructions, for reference: external to the code |
| `RV64Exec` | decoding and execution of one instruction, 32-bit or compressed |
| `GDBTarget` | the commands: what each does to the debugged core and is answered, or how it ends the emulator |
| `GDBSession` | the abstract specification: a debugging session without packets |
| `GDBStub` | the stub, the connection with its faults and the debugger; implements `GDBSession` |
| `MC...` | small instances |
| `...Proofs` | theorems; those of `RVPLICtrl` are in `PlatformProofs` |

### Translation

`getTLBEntry` runs to its end in one call, so each way through it is one action:
a hit in the map, a hit of the scan, a fill after a walk, a fault, and the three
assertions (`TranslateNonCanonical`, `TranslateDoubleMatch`, `TranslateBusError`).
Page offsets are dropped: an address is its three page numbers. `tlbGetCache`
maps masked addresses to slots; the code's three maskings make the key of a huge page
equal that of its first small page, and so does `PageAddr`. Entries start
as garbage with `pagesize` 0, which is all the constructor sets. The
guest stores to page tables, writes satp and fences in any order.

`Sv39Arch` keeps `allowed`, the translations an access may still see: every one
the page tables gave since the last fence that covers it. `Sv39Tlb` extends it
and its `Transparent` is `ArchSpec`, so the refinement mapping is the identity on
`mem`, `satp`, `allowed` and `answer`; `allowed` is a history of the guest's
actions and the TLB's own actions do not touch it.

### Privilege

`phase` is the place one `Step_CoreAPI` has reached: `idle`, `exec` after `preExec`
let an instruction run, `epilogue` at the label `exception`. Every instruction is
one action on the trap state; where a completed instruction continues is any
guest PC. The lines of the interrupt controllers take any value of `Lines` at
each step. CSR instructions write any value from small sets, and the action
applies the mask of that CSR. Value registers that steer nothing (mtval, mcause,
scratch, counters) are left out; `took` keeps the cause for the properties.

### Accesses

A hart's setting (privilege, mprv, mpp, sum, mxr, address space) changes at any
time; each access is one action with the checks of the code in the order the
code makes them, per kind of access, since the three copies differ. `reserved` and `last`
are histories for the properties: what the LR reserved, whether the setting
changed or another hart stored since, what the last SC did.

### Interrupt controller, serial port, run loop

`RVPLICtrl` lets updates and register accesses come in any order. `get_int` is
evaluated for all contexts at once by `UpdateIntState`, as the adapter does; the
`meip`/`seip` bit of a context is `claim # 0`, since both are set there and
nowhere else. `held` is what each context claimed and has not completed, `shared`
the sources that were ever enabled in two contexts at once. The guest completes
only what it holds; anything else is up to it.

`UartLite` has the device's inclusive overlap tests, the stale receive
register and `wait_ack`. `Platform` gives the order of the run loop (`turn`,
`counter`). The guest is external code: an interrupt handler that claims, reads status
and data until the port is empty and completes; set-up, console output from both cores, and
moves of the interrupt from one core to another by disabling it before enabling
it. Every step of a core is one access or `Compute`, any other instruction, so
the two cores, the port and the controller meet in every order the loop allows.

`RVCLInt` keeps a compare register as two halves, so a write of one half is one update
of a record. `TimerPlatform` is a second composition of the run loop, with the CLINT in
place of the PLIC: the two controllers share no state, and neither guest uses the
other's. Its guest is external firmware that arms a timer with one write or, low half
first, with two, and exchanges messages the way SBI firmware does: leave the
message, raise the interrupt; lower the interrupt, take the message. It does not write `mtime`.

### Bus

The sorted vector of devices is a set: bases differ, since equal ones conflict, so the
scan's first match is the one with the least base (`IsFirst`). A lookup
(`Found`) asks the cache first. A read and a write take the same path, so one action
stands for both. `access` is the last access as the device sees it. A conflict
and a device's own range assertion set `aborted`.

### Instructions

`RV64Exec` is a function from hart and instruction to hart; a behaviour takes one
instruction, from the fetch's end to the next pc (`Execute`, `Epilogue`). The width `n` of a register is part
of the hart, 64 in the code, and word operations work on `n/2` bits, as the expressions of
`alu_exec` depend on the width through their casts only. Numbers are the unsigned readings; `Extend`
and `Signed` are the casts. A 32-bit instruction is the record of the
fields of its `r_type`; the immediates of the other types are put together
from them, which is what the union `RVInst_t` does. A compressed one is its 16 bits, and
`binary_concat` is the macro. System instructions, LR and SC end as a `call`, as their
effect is in `RV64Privilege` and `RV64Memory`; memory is `Loaded` and `Faulting`.

`RV64Isa` states the architecture otherwise: an operation as a relation between
operands and result, bit by bit or by the equation of division, and a compressed
instruction by `Expand`, the 32-bit instruction it stands for, with bits in the manual's order.
Both put bits together with `Binary`, whose sum is a recursive function rather than a fold over a set,
so that it can be proved about.

### GDB stub

`GDBTarget` has one operator per `cmd_` function, over a target of pc, one register that
should be zero, watch points, RAM, and whether and how debug accesses are translated. A memory command has a
set of outcomes, one of which may be that the emulator ends (`Aborted`). `Reached` is how far an access gets
and how it ends. Untranslated it is one bus access (`PAddr_MMIOBus_API`): only its first address is
looked up, a range includes its end, and what the device answers is not looked at, so an access past the end of
the RAM is done, or ends the emulator (`Strays`), and other devices assert (`Asserts`: range, and the PLIC's
size). Translated it goes byte by byte up to the first fault or the first assertion (`walk.asserts`: a non-canonical
address, a double match, a page table outside every device; `Sv39Tlb` says when). `strtoll` saturates, as
the code's does. A read outside the RAM may find anything. What a debug access leaves in the TLB, in another device, or in memory of the emulator
past the RAM's is not part of the target.

`GDBStub` has the two directions of the connection as sequences. `stub` is the place the one thread
has reached: in `recvPacket`, in the dispatcher, in the loop of `cmd_Continue`, or in
the loop of `packingAndSend` that waits for a `+`. `recvAndCheck` skips what precedes a packet, and
the stream it drops afterwards takes any part of what follows with it. `AwaitAck` reads
one character, a packet's `$` included. The debugger is external: it waits for each packet's acknowledgement,
repeats a packet on `-`, takes a reply that comes instead for one
sent again, and gives an answer up when all is quiet. What happens on the wire is external too:
`Link` says what a session's link may do, and whether checksums are compared, which depends on the build
(`GDBStub_utils.cpp:45`): as shipped, with `CONFIG_DEBUG_ENABLE` set, they are not. Then a garbled packet
is received as any command or none (`Misread`); so is one to either build whose damage keeps its sum. A link is
`Trusted` when it garbles no packet or checksums tell. There is no assumption on links. `stub` ends as `dead` when it gives up the link, and as `aborted`
by an assertion, in a command (`Abort`, `NoSuchCase`) or an instruction (`StepAborts`).

`SessionSpec` is the refinement: `GDBSession` with `stage` and `answer` mapped from
the stub's place, the debugger's and whether the command has been performed. A packet received,
repeated, acknowledged or lost is a stutter; `Perform`, `cmd_Continue`, `Step` and `HitWatchPoint`
are the session's steps, the debugger's getting or giving up a reply is `Take` or `Lose`, and the stub's ends are
`Die` and `Abort`. It says that no command is performed twice, that no answer is that of another command, and that the
emulator ends only by giving up the link, at a command that may end it (`MayAbort`) or in the program. On
a link that is not trusted, `Heard` lets another command be performed in place of the one given, still once.

## 3. What is checked

| run | bounds | shows |
|---|---|---|
| `tlb` | 2 slots, 2 address spaces, 2 entries a table, 4 pages | `CacheSound`, `LiveAllowed` and the refinement `Transparent`, with pages of three sizes, global pages and every form of fence |
| `tlb_duplicates` | 3 slots | `NoDuplicates` |
| `tlb_double_match` | 3 slots | finding 1 |
| `privilege` | two interrupts, one delegable exception, statuses that return to every mode | `OneTrapPerStep`, `TrapEntry`, `RiseOnlyByTrap`, `InterruptGate`, `MachineInterruptServed`, `MachineStateProtected` |
| `memory` | 2 harts, a data and a code page crossed between translated and untranslated use, 4 settings | `ScIffReserved`, `ScSameLocation`, `StoreImpliesLoad`, `FetchImpliesLoad` |
| `memory_modified` | as above | finding 2 |
| `plic` | 2 sources, 2 contexts, 2 levels | `ExclusiveClaim`, `NoOrphanClaim` |
| `platform` | 3 characters typed, 2 written, 2 moves, period 3 | `OneHandler`, `RxInOrder`, `TxInOrder`, the refinement `PlicSpec`, and liveness: `InputRead`, `InterruptsSettle` |
| `timer` | 1 timer and 2 messages a core, registers of 2 halves of 3 values | `NotEarly`, `NoLostMessage`; liveness: `TimerExpires`, `MessageTaken`, `LinesSettle` |
| `bus` | 3 devices, 7 addresses | `CacheAgrees`, `DecodeStable` |
| `exec` | all 49 152 compressed instructions on 2 register files; a sample of the 32-bit ones; every register-register and atomic operation on 400 pairs of values | `AluMatchesIsa`, `AmoMatchesIsa`, `CompressedAgrees`, `TrapsArePrecise` |
| `gdb` | 17 commands, 1 retry; 2 faults on the line, 2 interrupts, or one of each; with checksums and, as shipped, without | `AckReadMeetsNoPacket`, `NoiseIsSurvived`, the refinement `SessionSpec`; liveness: `CommandEnds` |

The runs `tlb`, `privilege` and `platform` check their type invariant besides; those of the other proved
modules are theorems.

*Why the bounds are enough.* The TLB needs two slots for an eviction to hit
a key of another entry and three for two small entries, a huge one and the victim;
two entries per table give sibling and overlapping pages; two address
spaces tell asid from global. A delegable and a machine interrupt cover both
branches of `preExec`; the value sets contain each mask's inside and outside. Vectored
handlers are left to the theorem of `TrapEntry`: TLC takes direct and reserved vector modes only.
Two harts suffice for reservations, as each hart's is its own. In `platform` three
characters allow one before, one during and one after a handler, two moves bring
the interrupt back; a period of 3 lets a handler make progress between two steps of
the port and `Compute` lets any number of rounds pass between two accesses. `MaxIn`,
`MaxOut` and `MaxMoves` are the bounds on counters. In `timer` the line is up
before a timer is armed (the compare registers are 0 at reset), and a second message is sent while the first one's
interrupt is being lowered; `MaxArms`, `MaxSends` bound them, and the clock stops at
`MaxTime`, beyond every deadline, where all later times compare alike. In `bus`
one region is large enough to hold another one strictly inside, or two side by side.

In `exec` registers have 24 bits where an instruction has an immediate, enough for the longest
compressed one, and 8 bits for the arithmetic, where the values include both
ends, the sign change and the edges of a word; that nothing more happens at 64 bits is what the theorems
of `RV64ExecProofs` say. In `gdb`, `MaxRetry` is 1 instead of
10: one fault is survived and two of one kind are not, and so each way out of each retry
loop is taken; a session's link either damages packets and replies, twice at most, or loses one
acknowledgement, or has no fault and up to two interrupts, the cases the
debugger's timeouts tell apart, or has one interrupt and damages one reply, where one fault is too many, or garbles
a packet no checksum tells of (`MCLink`). A RAM of one byte, the address of its inclusive end, the PLIC, addresses of no device, one that
is not canonical and one above `LLONG_MAX`, each with and without translation, and a length for which `alloca` has no room (`StackSize`) meet every
end an access has; two program counters let a breakpoint be hit or missed. That is 962 000 states, two and a half minutes.

`CHECK_DEADLOCK FALSE` stands where an assertion may end the emulator, and in `exec`, whose behaviours
are one instruction long.

*Fairness.* In `GDBStub`, `WF_vars(StubNext)`: the stub is a loop that blocks in reads only; and
`WF_vars(DebuggerNext)`: the debugger reads what arrives and has a timeout. Commands,
interrupts and faults have no fairness, and `CommandEnds` does not claim that a program comes to a watch point.

`Platform` and `TimerPlatform` have liveness, on the same assumptions. `WF_vars(Next)` says the loop goes on:
it is `while(true)`. `SF_vars(Driver(h))` says that the guest of core `h` does
not stay for ever between two accesses of a handler, and takes an interrupt that
is never withdrawn: it may compute between accesses, but handlers are finite
and leave interrupts enabled in the end. It is strong because a core has its turn
only once a round. The typing of characters, console output, moves, arming a timer and sending
a message have no fairness. Messages are finite: software interrupts go before the
timer's, so an endless stream of them would keep the timer waiting.

### Findings

1. `tlb_double_match`: the scan asserts it meets one match (`rv64_sv39.hpp:250`); after a
   4 KB mapping is replaced by a 1 GB one without a fence it meets two.
2. `memory_modified`: "Reserved memory modified, do not preform store"
   (`rv64_amo.hpp:107`, `:138`), but a store by another hart leaves the
   reservation in place and the SC succeeds.

Seen while modelling, without a run of their own:

* MMU: mxr ("Make eXecutable Readable", `rv64_csr_structs.h:117`) makes readable what is *not*
  executable (`rv64_sv39.hpp:23`); through mprv a load's sum check still looks at the
  current mode (`:28`; the store's, `:109`, does not); a compressed instruction in
  the last halfword of a page faults when the next page is unmapped (`:45`).
* Bus: it checks "if address region conflicts" (`MMIOBus_Impl.hpp:49`), but a device strictly inside a
  registered one passes (`MMIO_Dev.h:52`). "The `begin_addr` and `begin_addr + size` should be in region" (`MMIO_Dev.h:21`), but it
  looks up only the first address of an access and counts the end of a region as inside (`:57`), and
  drops the device's answer (`MMIOBus_Impl.hpp:28`).
* Instructions: JALR clears the low bit of the offset and not of the sum (`rv64_exec.cpp:58`; the comment at
  `:57` says the sum); word minima and maxima of AMO compare a 64-bit
  source (`rv64_amo.hpp:180-189`); SLLI accepts immediates with bit 11 set, negative as they are (`:246`);
  C.LWSP and C.LDSP with rd 0 and C.LUI with immediate 0 are executed, though reserved.
* GDB: numbers are read by `strtoll` (`GDBStub_cmds.cpp:94`, `:152`), so a watch point at an address in the upper half, a
  kernel's, is answered OK, inserted at `7fffffffffffffff` and never hit, and `m` or `M` there ends the emulator
  once the core translates, that address not being canonical; `c addr` is documented as resuming (`gdb_rsp.h:42-44`) and answered as
  unsupported (`GDBStub_cmds.cpp:184`); `p` is parsed (`gdb_rsp.cpp:20`) and ends the emulator at the default the dispatcher "should
  never reach" (`GDBStub_common.cpp:78`). Every command is acknowledged twice; a successful `G` or `M` is not answered; `c` at a watch point
  stops at once, without a step; an empty packet is parsed as unknown; a checksum error after a
  protocol error ends the emulator (`GDBStub_utils.cpp:65-72`); `m` and `M` meet the assertions of the MMU and
  the devices (`rv64_debug.cpp:28`, `:32`), and `m` takes any length from the stack (`GDBStub_cmds.cpp:97`); `G` can set x0; Ctrl-C is not supported and costs the next stop
  reply a repetition.

`MachineInterruptServed` has an exception that describes the code as it is: a
delegated interrupt that S-mode masks hides a machine interrupt in `preExec`.

## 4. What is proved

With TLAPS, for all values of the constants, from the named assumptions of each
module (which say that constants have their types and that 0 and the sentinels
are in, or not in, them):

* **`Sv39TlbProofs`.** `IInv` is the conjunction of `TypeOK`, `CacheSound`,
  `LiveAllowed`, `CurrentAllowed` and `NoDuplicates`. `CurrentAllowed` (what the
  tables say now is allowed) is what makes a fill keep `LiveAllowed`. `CacheSound`
  survives the map's neglect because writing a slot erases the key of the address it
  held, and a fence leaves the address in the slot. `TlbIsTransparent`
  is the refinement: initial states and each step, hash hit, scan hit, fill
  and fault being `ArchTranslate`. *Any number of slots, page tables, guests.*
* **`RV64PrivilegeProofs`.** `Stages` says what holds at each place in a step:
  `needTrap` and an illegal instruction never meet, and a trap taken has its registers
  and vector set up (`Entered`) before the PC moves. Six of the run's properties
  follow, for any guest, CSR values and lines; `MachineStateProtected` is an action
  property proved from the same invariant.
* **`RV64MemoryProofs`.** The reservation in the MMU equals the history of the hart's own LRs
  and SCs; hence `ScIffReserved` and `ScSameLocation`. `FetchImpliesLoad` and
  `StoreImpliesLoad` are statements about the checks; the second needs `LeafAssumption`, i.e. that
  `isValidLeafPTE` admits no writable page that is not readable.
* **`PlatformProofs`**, the controller. `ExclusiveClaim` is not inductive, as claim registers are out of
  date. `PlicInv` adds, for a source never enabled twice at once, that
  one context has it enabled, one claim register shows it, that register is its
  holder's, and a held source is claimed. `GetIntEligible` shows that
  `get_int`'s maximum exists, by well-foundedness of the naturals.
* **`PlatformProofs`**, the platform. `PlatformUsesPlic`: every behaviour of the run loop is one of
  `PlicSpec`; the guest's part, `GuestInv`, is that a core in its handler holds the interrupt
  and that it is never enabled in two contexts (so `shared` stays empty).
  `PortHasOneHandler` then follows from `SourceHasOneHolder`. `InputIsOrdered` and `OutputIsOrdered` hold for any
  number of characters, cores' moves and period: in `PortInv` the status a core has read is still true when it
  reads the data (`ReceivesInput`), since the other core is not in its handler (`OneHandler`) and the terminal only adds;
  `QuietSetup` says that nobody has read or written before the reset that empties the queues.
* **`MMIOBusProofs`.** `FirstStaysFirst`: a registration that passes the check takes no address from the
  device that is first for it, as a device with a lower base that reached the address would have
  the other's base in its region. Hence `CacheAgrees` is inductive and `DecodeStable` follows. The
  check's gap (a device strictly inside another) does no harm here: a device inside another one is simply not reached.
* **`TimerPlatformProofs`.** `Sampled` says that the timer line of a core whose turn is still to
  come is up to date, because only that core writes its compare register; with
  `ArmedFor` (the register holds what the timer was armed for) `NotEarly` follows.
  `NoLostMessage` is inductive.
* **`RV64ExecProofs`.** `TrapsPrecise`: `Precise(s, t)` says that from hart `s` to hart `t` the pc stays and that a trap is
  raised only while nothing is written. Each instruction is shown to be a chain of precise steps in which
  whatever may trap comes before whatever writes. `ExecInv` says that a hart is what it was or the outcome of its
  instruction, and so the other three are statements about `Execute` alone. `ProgramAssumption` gives them the types: an even
  width of at least 6 bits (half of it a power of two where words are shifted, as 32 is), registers of that width with
  `x0` zero, an even pc, and fields and loaded values that have their bits.
  `AluCorrect` and `AmoCorrect` need what the provers know nothing of: `2^n`, bits, quotients and
  remainders for a variable `n`. That `2^(n+1) = 2 * 2^n` is had by counting the subsets of `1..n`
  (`PowCounts`, `PowSucc`), and induction from the least element of a set of naturals (`Induction`), the set being
  one of numbers with a property; so are the unfolding of `SumOf` (`SumUnfold`) and the bits of a number put together
  from bits (`FromBitsCorrect`). On these rest signs and their extension
  (`SIntIsSigned`, `ExtendWord`), congruences for sums and products (`SumCorrect`, `HighCorrect`), shifts, division
  by exact quotients (`DivideCorrect`), and `AluExecCorrect` and `AmoExecCorrect`, which say it of all operations.
  `CompressedCorrect`: each immediate of `ExecRvc` is the sum of the same bits as the one `Expand` scatters (`SpnImm`
  ... `OffsetImm`), the 32-bit formats give an immediate back as it was put in (`ITypeFields` ... `JTypeFields`), and
  then each of the compressed instructions does what its expansion does (`Agrees`), a zero immediate, `x0` as
  a source and the even target of a jump included; `JumpsAgree` has the one difference, the link of c.jalr.
* **`GDBStubProofs`.** For any commands, devices and translations, any number of retries, and any links, those of the shipped build included:
  `AcksAreAcks`, the refinement `StubImplementsSession`, and `NoiseSurvived`. None of them is inductive, as each is about
  one end of the connection. `SessionInv` relates both directions of it: at most one packet is on its way to the stub,
  and only while the command is in transit (`OnePacket`); where the stub waits for an acknowledgement,
  one lies before that packet (`AckComesFirst`), which is why `read` never takes a packet's `$`;
  a `+` on its way to the debugger means that the command was received (`AcksReceived`); behind it comes nothing but
  this command's reply (`RepliesInOrder`); a packet that will be taken for sound is the command given, or on a link that
  is not trusted any (`Hearable`). In the refinement a step of the
  stub or the debugger is a step of `GDBSession` or a stutter, and one of the wire always a stutter; `AbortSafe` is the
  stub's end by assertion. `NoiseInv` adds the
  accounts: a retry of `recvPacket` is paid for with a damaged packet (`RetriesCounted`), one of
  `packingAndSend` with a damaged reply (`Undisturbed`). The second holds only while nobody interrupts. An
  interrupt leaves a `+` too many behind, and then a single damaged reply is lost; so
  `NoiseIsSurvived` names that case, which a run whose links were either noisy or interrupted had not shown. It is about
  the link only: what a command or the program ends is in `StubImplementsSession`.

Only model-checked: liveness (`InputRead`, `InterruptsSettle`, `TimerExpires`, `MessageTaken`, `LinesSettle`,
`CommandEnds`), which is beyond the prover. Every safety and action property of the passing runs is a theorem.

## 5. What is not modelled, and the plan

Modelled in part: a fetch in two parts across a page; MMIO accesses of odd size or outside the registers; value
registers of the CSRs (cause, tval, scratch, counters); writes of `mtime`; TCP set-up and over-long
packets of the GDB stub, which end the emulator; what a debug access leaves in the TLB or in a device. Not modelled: the RAM device, one array with a read and a write;
the object factory, logging, `main` and the unit tests, which keep no state at run time.

Left of the plan, in this order:

1. The fetch across a page, on `RV64Memory`'s checks.
2. `RV64Exec` as the instruction step of a hart of `RV64Memory` and `RV64Privilege`.
