# Verification of mayfly-emu

mayfly-emu is a RISC-V RV64IMA system emulator with three privilege modes, Sv39,
a CLINT, a PLIC, a serial port and a debugger. A second program, mayfly_serial,
is the terminal of that serial port. This directory holds TLA+ modules translated
from the C sources, TLC configurations that check them on small instances, and
proofs that TLAPS checks for all values of the constants. `PROJECT.json` lists the
runs, the source lines of every definition, the hazards and the theorems. Paths
below are relative to `src/mayfly_emu/` unless they begin with `mayfly_serial/`.

## 1. Inventory

| Part | Source | State | Operations |
|---|---|---|---|
| Run loop | `cpu/cpu-exec.c` | `mayfly_state`, `cpu.pc`, per-instruction flags | `cpu_exec`, `execute`, `exec_once`, `get_stop` |
| Decoder | `cpu/decode.h`, `cpu/inst.c` | none | `isa_exec_once`, `decode_exec`: the first matching pattern |
| Instructions | `cpu/inst.c`, `cpu/macro.h`, `cpu/reg.h` | registers, CSRs, the lr/sc reservation | one per opcode; `csr_read`, `csr_write` |
| Traps | `system/intr.c` | `mode`, `mstatus`, `mip`/`mie`, delegation, trap registers | `handle_irq_or_except`, `raise_intr`, `isa_query_intr`, `mret`, `sret` |
| Memory | `system/mmu.c`, `memory/vaddr.c`, `memory/paddr.c` | `pmem`, `satp` | check, walk, fetch, read, write, dispatch to devices |
| CLINT | `device/aclint.c` | `mtime`, `mtimecmp`, `time_count` | stores, `aclint_update` |
| PLIC | `device/plic.c` | priorities, pending, enables, threshold, claim | stores, completion, `plic_update` |
| Serial port | `device/serial.c` | receive and transmit register, status, interrupt word, two FIFOs | load, store, `serail_update`, `serial_init` |
| Terminal | `mayfly_serial/mayfly_serial.c` | a line, a chunk | two threads, one per FIFO |
| Debugger | `monitor/sdb.c` | none of its own | commands that start, stop and inspect the guest |
| Watchpoints | `monitor/watchpoint.c` | two lists in one array | create, delete, show |
| Expressions | `monitor/expr.c` | token array | `make_token`, marking of `*`, `eval` |
| Difftest | `cpu/difftest.c`, `tools/spike-diff/difftest.cc` | a second hart (Spike) | copy, step, compare |
| Loaders, flash, disassembler, trace | `memory/paddr.c`, `device/flash.c`, `utils/` | arrays | file reads, output |

**How they interact.** `exec_once` is the heart: it runs one instruction (fetch,
decode, accesses through memory to RAM or to a device register), then
`update_device` (CLINT, then serial port, then PLIC), then
`handle_irq_or_except`, then reads one key from `/dev/tty`. The devices and the hart
share only the bits of `mip`; the serial port and the PLIC share `exteranl_irq`. The
debugger and the run loop share `mayfly_state`. mayfly_serial is another process, with
two threads, connected by two named pipes; it runs at any time. The guest
(a firmware and a kernel) is not part of the repository.

**What is hard.** The emulator is single-threaded, but its guest is not
well-behaved: any sequence of legal instructions must leave the hart in a legal
state, traps of two levels nest in any order, and each instruction boundary is a
point where a timer, a byte, a key or the other process may step in. Values
are cached between updates (`mip.mtip`, `target_claim`, `mip.seip`), pipes fill
and block, and counters wrap. The parts and what makes each correct:

- *Traps*: the interrupt taken is pending, enabled and first; a trap enters its handler with
  everything of that level masked; an exception names the instruction that caused it; a
  saved context survives until its return; no handler is re-entered by its own level.
- *CLINT*: the interrupt comes, neither early nor late after the store that asked for it;
  the clock keeps its rate.
- *PLIC*: the claim and the line are those of the sources now pending.
- *Serial line*: each direction is a lossless channel, to which the terminal adds stray bytes
  only where it must; a waiting byte is announced; every byte gets through.
- *Memory*: stores stay within what the tables permit; a fault has no effect
  but its exception.
- *lr/sc*: no update is lost under preemption; undisturbed loops succeed.
- *Debugger*: stepping is exact, the escape key works, an end is final.
- *Watchpoints*: the pool stays partitioned; the table is what the user sees.
- *Start of the two programs*: they find each other in every order, neither is ended by
  being first, and they never wait for each other in a circle.
- *Decoder and bodies*: a word is the instruction that its fields name, and computes what
  the manual says.
- *Expressions*: the value is what the words mean, or there is none.
- *Difftest*: the reference stays in step; a correct emulator is not accused; a defect is
  found where it happens.

`PROJECT.json` lists the hazards, each at its line with the properties that
would catch it.

## 2. Modules

| Module | Models | State ↔ code |
|---|---|---|
| `MayflyIsa` | numbers of modes, exceptions, interrupts; their priority | enums of `mayfly_isa.h`, `intr.c` |
| `Trap` | one pass of `execute` in three phases: the instruction, `update_device`, `handle_irq_or_except` | CSR fields by name; `mip`, `mie`, `mideleg`, `medeleg` as sets of bits |
| `TrapContext` | `Trap` and, as history, the context each level's handler interrupted | `mframe`, `sframe` are read by no action |
| `Aclint` | the CLINT between instructions | registers and `time_count` with their widths as constants |
| `Plic`, `PlicBoard` | the controller; the controller with an arbitrary guest and sources | registers by name; words as sets of sources |
| `Serial` | the port and the two pipes | `rx_fifo`, `tx_fifo`, status bits by name |
| `Console` | port, PLIC, terminal and an arbitrary guest, in the order of `exec_once` | `phase` is the point in `exec_once` |
| `ConsoleDriver` | `Console` with a guest that sets up, claims, reads, completes | `driver` is external: the guest's program counter |
| `ByteChannel` | what one direction of the line promises | abstract |
| `Monitor` | command loop and run loop | `state`, `halt_pc` = `mayfly_state`; `n` = the argument of `execute` |
| `Watchpoint`, `WatchTable` | the pool; the table it promises | `next[i]` is `wp_pool[i].next`, a pointer is an index |
| `Memory` | mmu, vaddr, paddr and the instructions that access memory | `mem` is RAM, tables included |
| `LrSc` | the reservation, threads and a kernel that preempts | `reserve_addr`, `reserve_flag`; threads and kernel are external |
| `Decoder` | the patterns in their order, and the search | `fetched` is the word as its fields; a pattern gives the values each field may have |
| `Alu` | the bodies of the arithmetic, control, csr and atomic instructions | `gpr` is rs1 and rs2, `cell` the memory word or CSR, `dnpc` the next pc; XLEN is a constant |
| `Expr` | `make_token`, `expr`, `eval` on the expression that the user types word by word | a token is its type and value |
| `SerialLink` | `serial_init` and the two threads of the terminal, with the kernel's open, write and end of a process | `fd` gives each end of a FIFO its descriptor; kernel and user are external |
| `Difftest` | `difftest_step` after every instruction, Spike's interface | `dut` and `ref` are two harts, each reduced to what copying and comparing tell apart |
| `TrapProofs` | theorems about `Trap` and `TrapContext`, and that one implements the other | |
| `DeviceProofs` | theorems about `Aclint`, `PlicBoard` and `MCDevices` | |
| `ConsoleProofs` | theorems about `Console` and `ConsoleDriver`, and their refinements | |
| `InstructionProofs` | theorems about `Memory`, `LrSc` and `Decoder` | |
| `DebuggerProofs` | theorems about `Monitor` and `Watchpoint` | |
| `SerialLinkProofs`, `DifftestProofs` | theorems about `SerialLink`, `Difftest` | |
| `BasicFacts` | lemmas the proofs share | |
| `MC*` | instances for TLC | |

Parts of the program that share no state are checked in one run: `MCDevices` (the two
devices), `MCDebugger` (running, watchpoints, expressions) and `MCInstructions` (paging,
reservation, bodies, decoding) have a variable `part` that says, from the initial state on,
which of them a behaviour exercises.

An operator whose comment begins with "Mutated:" is a plausible wrong form of the
operator after it. No specification uses it: substituting it shows that the property
named in `PROJECT.json` notices.

**Abstractions.** An instruction in `Trap` is what it does to the privilege state, so
arithmetic, branches and accesses that succeed are one action, `Plain`. Addresses are
members of small sets. In `Memory` an address is a page, a word and whether its upper
bits are canonical, and every word has the shape of a page-table entry, because a
guest can load and store its tables. Fetch and data access are separate actions:
the two translations of one instruction share no state. Causes and fault addresses
belong to `Trap`, device registers to the device modules. The "run" that a stray
access ends can be continued by "si N" (see `Monitor`); `Memory` stops there.

The terminal reads up to 2000 bytes into an array of 2000 and prints it with `%s`. A read that fills the
array leaves no NUL (`Console!Unterminated`), and `printf` shows what lies behind it up to a zero byte: none
if that byte happens to be zero, any number otherwise. Which bytes is up to the build, so `Show` may
add to `tx_stray` the place in the output where they come, and never does so at another read.
The store to the priority of source 31 lands behind its array. In `Plic!PlicOverrun` it changes the
pending word in any way or nothing: the other words of the device that may lie there are the claim and `exteranl_irq`,
which the next update assigns before either is read, and registers that the guest can store to anyway. `source_pending` can
thereby hold only the sources of the instance; a pending source 31 is left out (section 5).
An operand of `Expr` is a value and its spelling: the conversions of the spellings differ (`Atol` stops at `LONG_MAX`,
`strtoul` does not, a register is looked up), so the value a decimal gets is not always the one typed. Numbers of 2^64 and
more, at which `strtoul` stops as well, are not typed.

## 3. Runs

| Run | Shows | Instance, and why it is enough |
|---|---|---|
| `traps` | `TypeOK`, `InterruptJustified`, `ExceptionDelivered`, `EntryMasks`, `TrapNeverLowersMode` | Four kinds of guest, each of which varies some registers completely. *Selection*: two device lines, either or neither delegated, every mixture of mode and enable bits, so both branches of the enabling condition, both levels, and a lower-priority interrupt enabled behind a masked higher one. *Exceptions*: a page fault, environment calls and illegal CSR accesses from all modes; `mpp` takes all four values, so the reserved mode runs too. *Vectors*: direct and vectored bases at both levels. *Shadow*: an environment call that is delegated while the timer is pending for machine mode, so that a trap leaves an interrupt behind that stays takeable. |
| `trap_nesting` | `FramesKept`, `ContextResumed`, `NoReentry` | One interrupt and one exception, each delegable: frames of both levels nest in every order and depth, as a level holds one frame. |
| `devices` | `DTypeOK`, `TimerPunctual`, `ClockSteady`, `TimerFires`, `ClaimCurrent` | *Timer*: 3-bit time, 4-bit counter, period 3. As with 2^32 and 25 the period does not divide the counter's range, so a wrap shifts the phase, and the longest wait of seven ticks goes through a wrap and more; stores of every value at every step, and writes of `mip` in between. *Controller*: two sources and three priorities: ties, losers and each side of the threshold; the store behind the array and the two assertions. `ClaimCurrent` compares with the loop of `plic_update` written as a recursive function. |
| `console` | `CTypeOK`, `NoByteLost`, `WaitingByteAnnounced`, `TxChannel`, `RxChannel` | Two-bit bytes, of which the guest prints and the user types a negative one as `char`, and the user a NUL as well; pipes of two bytes and a terminal buffer of two, so that a read fills the buffer or does not and a third byte blocks; three bytes each way. |
| `console_driver` | `EveryByteRead`, `EveryByteShown` | Three bytes each way, pipes of two, a buffer of two, filled or not: a byte in the handler and two more behind it. |
| `debugger` | `TypeOK`, `StepsExact`, `PromptStopped`, `EscapeStops`, `PoolPartitioned`, `TableSpec`, `EvaluatesAsWritten` | *Running*: every command, outcome and key; up to three steps and two waiting keys. *Watchpoints*: four cells: deletion of the first, a middle and the last cell; full and empty lists. *Expressions*: all well-formed ones of up to seven words: four operands with three operators of any levels, nested parentheses and dereferences; three-bit values, so that sums wrap and a dereference can miss memory. 5 is above the greatest signed number, in decimal and in hexadecimal; of the operands that the code cannot read as they are typed an expression holds at most one (`OneOdd`), as a second one of them meets the same conversion. |
| `instructions` | `Confined`, `FaultsPrecise`, `NoLostUpdate`, `NoSpuriousFailure`, `ComputesAsSpecified`, `DecodesOneWay` | *Paging*: two levels of two entries, two RAM frames as tables and as data, four words (pointer, supervisor leaf, user leaf, clean user leaf): every table that the guest can build from them, superpages and misaligned ones included; with `mprv`, user mode and the reserved one. *Reservation*: three threads, two of one width, and a kernel; three updates. *Bodies*: XLEN 8 with "words" of 4 bits, every instruction, every immediate and destination, operands at both sides of each sign and width boundary, targets of jumps on and off four bytes. *Decoding*: all opcodes and funct3, every funct7 that a pattern names with neighbours, the values of rs2, rs1 and rd that patterns distinguish. |
| `serial_link` | `HangupsOnly`, `LinkUp`, `ScreenLives` | FIFOs of two bytes (empty, partly full, full); both programs are started and killed any number of times at any step, with and without the files of an earlier session. |
| `difftest` | `LockStep`, `AlarmsExplained`, `DefectsFound` | Every kind of instruction over bits, at three levels, with one interrupt line; a defect may occur at any instruction, more than once; both behaviours of a Spike that keeps or ignores a write of `mip`. |

The three runs below check a statement of the repository and find it violated. Each is a
finding in `PROJECT.json`; section 5 lists the other disagreements.

| Run | Statement | What the code does |
|---|---|---|
| `monitor_key_at_end` | "Program execution has ended. To restart the program, exit NEMU and run again." (`EndedIsFinal`) | The escape key read after the last instruction overwrites `END` or `ABORT` with `STOP`, and `c` runs on. |
| `memory_reservation_fault` | "redirect to AMO page fault exception" (`ReservedFaultHandled`) | `lr` reads physical memory after its translation failed, and that read aborts the run. |
| `serial_first_start` | "分别在不同终端启动mayfly-emu 和mayfly_serial": start both programs in different terminals (`src/README.md:4`; `StartedLinks`) | Each creates one FIFO and opens both, unchecked. Where one comes to an open before the other's `mkfifo`, the terminal's reader loops on descriptor -1, or the emulator is deaf, until a restart. `LinkUp` shows that a second start, with both files there, links them always. |

Bounds appear in guards and only there: `MaxSent` (bytes of a direction), `MaxKeys`
(unread keys), `MaxCount` (the counter of `LrSc`), `PipeSize` and `ChunkMax` (real
capacities, made small), `Capacity` (of a FIFO, made small), `TimeMax`, `CountMax`, `XLEN`, `ImmBits`,
`UimmBits` and `Modulus` (real widths, made small), `MaxWords` (the length of a typed expression).
`Aclint!since`, `Aclint!waited` and `Monitor!ran` are bounded by the behaviour itself, which the runs
show by terminating.

**Fairness.** The emulator is one loop: after an instruction it always goes on to the
devices, the trap and the next instruction. This justifies `WF(Next)` in `Aclint`,
`WF(DEmulator)` in `ConsoleDriver` (weak fairness is void while `write` blocks) and
`WF(Run)` in `Monitor`. `TimerFires` assumes that the hart keeps updating its devices: a 4-byte store
to a timer register ends the emulator, and a guest that keeps rewriting the comparand owes itself the wait. The terminal's reading thread loops over a blocking `read`, so
`WF(Show)`. In `SerialLink` each thread goes on when its system call can return (`WF` of `EmuInit`, `T1Init`,
`T1Resend`, `T2Init`, `T2Read`); what the guest prints and reads, and all that the user does, has none. Nobody has to type, press a key or give a command, and none of these has
fairness. The guest of `ConsoleDriver` may echo from its handler for as long as
`MaxSent` lets it; a guest that prints for ever in its handler would be a property of the guest.

## 4. Proofs

| Theorem | States | For |
|---|---|---|
| `TypeCorrect` | `Spec => []TypeOK` | every set of guest writes, faults, addresses and device lines |
| `InterruptsJustified` | `InterruptJustified` | the same |
| `ExceptionsDelivered` | `ExceptionDelivered` | the same |
| `HandlersEnterMasked` | `EntryMasks` | the same |
| `TrapsNeverLowerMode` | `TrapNeverLowersMode` | the same |
| `ContextImplementsTrap` | `CSpec => Spec`: the hart with its frames implements the hart | the same |
| `ContextKept` | `CSpec => []FramesKept` | the same, any nesting |
| `ReturnsResume` | `ContextResumed` | the same |
| `HandlersNotReentered` | `NoReentry` | the same |
| `UpdatesKept` | `NoLostUpdate` | any threads, widths and bound |
| `UndisturbedSucceeds` | `NoSpuriousFailure` | the same |
| `StoresConfined` | `Confined` | any depth and size of tables, frames of memory, stored words, values of `mstatus` and roots |
| `ExceptionsPrecise` | `FaultsPrecise` | the same |
| `AccessesArePermitted` | `AccessesPermitted`: a fetch, load or store that is let through stays in a leaf that grants it | the same |
| `DecodingIsUnambiguous` | `DecodesOneWay` | every word: any set of opcodes, values of funct7 and of rs2 |
| `DiffTypeCorrect` | `DiffSpec => []DiffTypeOK` | every set of instructions and values |
| `StaysInLockStep` | `LockStep` | the same |
| `AlarmsAreExplained` | `AlarmsExplained` | the same |
| `FirstDefectFound` | `DefectsFound` | the same |
| `LinkTypeCorrect` | `LinkSpec => []LinkTypeOK` | every capacity of the FIFOs |
| `OnlyHangupsEnd` | `HangupsOnly` | the same |
| `ScreenIsLive` | `LinkSpec /\ []GuardsEnable => ScreenLives` | the same |
| `LinkComesUp` | `LinkSpec /\ []GuardsEnable => LinkUp` | the same |
| `MonitorTypeCorrect` | `Spec => []TypeOK` of `Monitor` | every set of step counts, outcomes and keys |
| `StepsAreExact` | `StepsExact` | the same |
| `PromptIsStopped` | `PromptStopped` | the same |
| `EscapeComesNearer` | under `[]RunGoesOn`, the escape key comes one nearer or the prompt is back | the same |
| `PoolIsPartitioned` | `PoolPartitioned` | a pool of any size, any expressions |
| `PoolImplementsTable` | `TableSpec`: the two lists implement `WatchTable` | the same |
| `ClockTypeCorrect` | `Spec => []TypeOK` of `Aclint` | every width of the registers and period |
| `TimerIsPunctual` | `TimerPunctual` | the same |
| `ClockIsSteady` | `ClockSteady` | the same |
| `TimerComesNearer` | while it is updated and not stored to, the timer fires or comes nearer to it | the same |
| `ClaimIsCurrent` | `ClaimCurrent` | any sources up to 30, priorities and completions |
| `DevicesTypeCorrect` | `DTypeOK` | both devices |
| `ConsoleTypeCorrect` | `CTypeOK` | pipes of any size, any bytes, chunks, priorities and numbers |
| `BytesAreKept` | `NoByteLost` | the same |
| `TransmitterIsChannel` | `TxChannel`: the way out implements `ByteChannel`, with stray bytes only behind a full read | the same |
| `ReceiverIsChannel` | `RxChannel`: so does the way in | the same |
| `BytesAreAnnounced` | `WaitingByteAnnounced` | the same |
| `ControllerIsBoard` | `CSpec => Board!BSpec`: the controller of `Console` implements `PlicBoard` | the same |
| `DriverIsGuest` | `DSpec => CSpec`: `ConsoleDriver` implements `Console` | the same |
| `DriverIsWoken` | `DSpec => []ByteWakes`: the driver never sleeps on a waiting byte | the same |
| `NextByteShown` | under `[]PortGuards`, of what is printed one byte more comes out | the same |

The assumptions are those the modules name (`TrapConstants`, `LrScConstants`, `DifftestConstants`, `LinkConstants`,
`MonitorConstants`, `WatchpointConstants`, `AclintConstants`, `PlicConstants`, `SerialConstants`,
`ConsoleConstants`, `DriverConstants`, `MemoryConstants`): the constants are sets of the right shape, nothing more.

*Traps.* `TypeOK` is inductive. What `InterruptJustified` and `ExceptionDelivered` say
holds only after a trap, when the state that justified the trap is gone from `mode` and
`mstatus`; the proof reconstructs it. `RaiseSaves` shows that the fields saved by
`raise_intr` at either level give back the mode and enables before it, so the condition
under which an interrupt was chosen can be read off the saved context. The inductive
invariant `Delivered` adds `Recorded`: while an exception waits between the
instruction and the trap, an environment call names the mode that is still current.
`EntryMasks` is about what a trap leaves takeable: `RaiseMasks` shows that an interrupt which still is one after
`raise_intr` was one before it, is for machine mode and finds the hart in supervisor mode, and the interrupt that was
taken comes before it because `priority` names each interrupt once (`ExaminedOrdered`).

*Contexts.* `CInv` is `FramesKept` and the frames' types. It is inductive over `TypeOK`
because each trap changes only its own level's fields (`RaiseLevels`), each return
only its own, and a CSR write that could reach them ends the frame. The action
properties follow from it in one step. The frames are a history: `ContextImplementsTrap` carries the
theorems about `Trap` to `TrapContext`.

*lr/sc.* Neither property is inductive. `ReservationCurrent` (a standing
reservation belongs to the running thread, whose register is the counter) and
`ReservationStands` (between an undisturbed `lr` and its `sc` the reservation matches)
strengthen them. Both hold because every path to a thread leads through an `sc`
and every `sc`, matching or not, drops the reservation.

*Difftest.* `LockStep` is nearly inductive: what it lacks is that without a defect and without an
interrupt of the reference's own the two harts differ in `mip` alone, and that a run that
goes on was compared equal or copied. One case per way through `difftest_step`.

*Serial link.* `HangupsOnly` needs that a writing end which is open has an open reader
or has lost it to an end that the history records (`Watched`), that the terminal
writes only to a FIFO it has opened (`WritesOpened`), and that the emulator's reading
end is closed until the last step of `serial_init` (`ReadsLast`): an open that fails there
could otherwise take a reader away.

Its two liveness properties are proved from `MeetInv`, which adds where each thread and its end of a FIFO
can be (`Placed`). `ScreenIsLive` is one step: the reader of a FIFO that holds something has it open, and only its
own read empties it. `LinkComesUp` goes by stages, each of which lasts while both programs run (`StagesLast`). `NoCircle`
says that a stage which is not reached is the guard of its own thread, except where one end of a FIFO waits for the other
to come: so no two threads wait for each other. The reading thread and the emulator meet at
"out", the typing thread comes to its open, and the emulator's last open meets it.

*Monitor.* `Accounted` says that while a command runs the instructions executed and those
left add up to those asked for, with one less left between an instruction and the count
(`cpu-exec.c:90-108`), and that an unlimited command never touches the count.

*Timer.* `ClockSteady` bounds what is past of an interval and is not inductive; `Interval`
adds what is left of it, `ToGo`. Their sum does not change while an interval lasts; it is a period less
one, and the wrap of the counter adds to it once, because zero lies between two wraps and is a
multiple of every period. The lemmas about `%` (`Remainder`, `ToGoCounts`) are proved first.
`TimerPunctual` relates the registers to the history of the wait, and holds because the ticks that have come account for
the updates: `OnTime` says that the updates of the wait, those to go, a period for each tick and a stretch for each wrap balance
to less than a period (`Before`). An update moves the balance by one, by a period if the clock advances and by a
stretch if the counter wraps, and the advance is due when nothing is to go.

*Controller.* `ClaimCurrent` compares the set formulation of the
update (`Wins`) with the loop of `plic_update` (`Search`). `Leads` is the invariant of that loop: what has
been found after i sources is none, and then all of them have priority zero, or the first one of the
highest priority. It is carried from 0 to 32 by induction, and the winner of `Wins` is unique. What an
instruction changes between two updates does not matter, because the property speaks of the boundary.

*Console.* `Announced` carries `WaitingByteAnnounced` through the two updates: after the
first the port raises its source while a byte waits, and at the second the only source
there is wins the search. The channels need to know where each undelivered byte lies. On the way out
(`TxInv`) what was sent is what was shown, then the pipe, then the register if it is full: three
sequences joined. On the way in (`RxInv`) NULs are dropped and the guest may overwrite the register, so there is
an increasing embedding of the waiting bytes in the pipe (`Places`), whose length `NoByteLost` counts.
A read that fills the terminal's buffer brings as many bytes as the
abstract channel needs for a stray. `ControllerIsBoard` maps the phases of `exec_once` to the two of `PlicBoard`. `DriverIsGuest` carries every safety theorem of `Console` to `ConsoleDriver`; with
the registers that its set-up leaves (`IsSetUp`) `BytesAreAnnounced` yields `DriverIsWoken`, the
safety half of `EveryByteRead`.

*Steps of liveness.* Of three liveness properties the step is a theorem, for every value of the constants, and what
is left is only to repeat it. `TimerComesNearer`: the distance to the next firing (`Far`, which goes round
the wrap of the clock) and the updates since the last tick bound what is to come, and `ClockIsSteady` bounds the
second. `EscapeComesNearer`: each pass of the run loop reads one key, so the escape key moves one to the front
(`KeysWait`: none waits while the prompt is shown), also where the instruction before the key ends the program.
`NextByteShown`: a byte that is owed is in the pipe or in the register (`TxInv`); the terminal reads the pipe, and the
register is sent by the update that follows the store, for an empty pipe blocks nobody.

*Enabledness.* The prover does not look into `ENABLED`, so the fairness of an action says nothing until it
is known that the action can happen. Where a proof needs that, it is a hypothesis of the theorem and says no more than
this: where the guard holds that the code waits for, the action is enabled (`GuardsEnable`,
`RunGoesOn`, `PortGuards`). It is true because each action is that guard, a value for each variable, and
a change of one of them; TLC finds each of the three invariant on the instances of section 3. `TimerComesNearer` needs none.

*Decoder.* Comparing 77 patterns with each other is 2926 cases. Instead `NameOf` reads a word by its opcode, its funct3 and
its funct7, as the manual's tables do, and each pattern is shown to match only words that it reads so (`NamedFit`). Two
patterns that match one word then have one name, and no two have the same. The atomic patterns leave the opcode open
but come after all of these (`NamedFirst`).

*Memory.* `FaultsPrecise` needs that a recorded exception has left the destination alone
(`ExceptionKeeps`), for an assertion that stops the run leaves the flags of the instruction before. Every access
is reduced to what `Effect` says: memory is unchanged or one `Writes` happened at the frame
`Locate` gave. `Confined` is then about the walk. It ends (`WalkEnds`, the least level in the order of the
descent that does not read a pointer), and each table above was read as a pointer, hence lies in memory
(`ValidInMemory`: what nothing answers reads as zero); so by induction from the root each table it
uses is in `Reached` (`TablesReached`). The leaf passed `check_permission`, and the offset in a superpage is less than
its span (`WalkGranted`, for an access of any type; a store is the case that `Confined` needs). The proof is not about what the tables hold: a guest may store any words in them.

*Watchpoints.* `PoolInv` says that there are two sequences without repetition, the list in use and the
free one, which together hold each cell once, and that `next` threads them. Creation moves the
first of one to the end of the other, deletion any one to the front; `Follow` walks
the whole of a threaded sequence (`InductionUpTo`), so `List` is that sequence and the table of `WatchTable` its rows.

*Basic facts.* The provers cannot instantiate the induction theorems of the library, which take an
operator. `LeastNatural` and `InductionUpTo` state induction for sets, from the well-foundedness of <, and
`Recursion` that a function defined by recursion on 0 .. N exists; `Search`, `Follow`,
`Span`, `Tables` and `Reached` are unfolded with it. So the recursive definitions of the model are reasoned about,
not assumed.

**Only model-checked.** `TimerFires`, `EscapeStops` and `EveryByteShown`: their steps are proved, but to
repeat a step as often as its bound says is an induction over a temporal formula, for which the theorems of the library take
an operator that the provers cannot instantiate. `EveryByteRead`: `DriverIsWoken` is its safety half, and the
rest needs `ENABLED` of a driver in eight places and the same induction. `EvaluatesAsWritten`, whose two
sides are RECURSIVE operators, and `ComputesAsSpecified`, which needs `Bitwise`. All other
properties of the passing runs are theorems, `LinkUp` and `ScreenLives` with the hypothesis above.

## 5. Behaviour of the code worth knowing

The models follow the code where it differs from the RISC-V manuals or from what
one expects. The help of the commands and the messages the code prints are quoted where they say otherwise.

- `si N` sets the state to `RUNNING` before `cpu_exec` can refuse, so it continues a program
  that has ended (`sdb.c:47`; `Monitor!StepMany`). The run `monitor_key_at_end` leaves
  the command out, to show the other way to the same end.
- Nothing calls `calculate_watchpoint` (`watchpoint.c:115`), so a watchpoint never stops the program,
  against the help of `w` (`sdb.c:212`). `Monitor` therefore has no watchpoints.
- An abort by a stray access leaves `halt_pc` as it was (`paddr.c:129`), so the report
  "mayfly: ABORT at pc = " shows the address of an earlier halt.
- A jump to a non-canonical address under translation ends the emulator in the assertion
  "this situation should not happen!" (`vaddr.c:43`), and the reserved value of `mpp`, with `mprv`,
  in `assert(mode == MODE_U || mode == MODE_S)` (`mmu.c:36`). Both are ends of the run in
  `Memory` (`Crash`).
- `mret` and `sret` do not check the mode they run in (`inst.c:151`, `157`).
- Delegated interrupts are searched in one order with those of machine mode (`intr.c:109`).
- A failed fetch leaves `dnpc` as the previous instruction set it, which the trap then
  overwrites (`inst.c:199`).
- `satp` ignores a write that turns translation off, and keeps bits of `mstatus` in its
  middle field (`reg.h:125`).
- A misaligned store that is not translated records its exception and writes memory
  (`vaddr.c:70-79`): `FaultsPrecise` is stated under translation.
- `lr` and `sc` do not check alignment (`inst.c:162-163`).
- Nothing raises the exception of a misaligned target: jumps and taken branches go to any even address (`inst.c:74-79`,
  `140-141`), and a fetch checks no alignment either (`vaddr.c:37-48`), although `misa` has no compressed instructions (`reg.h:93`).
- The pass of the run loop that takes an exception looks for no interrupt (`intr.c:26-28`). A supervisor handler whose first instruction is
  again a delegated exception therefore keeps out even the interrupts of machine mode for ever; `EntryMasks` says
  what such a pass may leave pending.
- A 4-byte store to a timer register is made and then ends the emulator (`aclint.c:19`).
- A store to a PLIC priority that is not four bytes wide and any store to the pending word end the emulator in an
  assertion (`plic.c:28`, `33`; `PlicAborts`), and offset 0x7c stores and loads behind the array of 31 priorities (`plic.c:29`, `14`; `PlicOverrun`).
- A read of the terminal that fills its buffer leaves the text without a NUL, and `printf` reads past the array
  (`mayfly_serial/mayfly_serial.c:33-36`; `Console!Unterminated`). With a FIFO of 64 KiB this needs 2000 bytes that the terminal has not read yet.
  What is sent is still shown, with stray bytes behind it (`TxChannel`).
- Resetting the receiver clears the byte and not its valid bit (`serial.c:77`):
  the guest then reads a NUL. `RxChannel` allows a NUL in place of the byte and nothing else.
- A NUL is dropped on the way in (`serial.c:102`) and ends the printing of a chunk on
  the way out (`mayfly_serial/mayfly_serial.c:36`): `GuestBytes` has none.
- `x` reads through device registers, so it can take a byte from the port, and it
  aborts a stopped program at an address that nothing answers (`sdb.c:162`).
- The remainder instructions divide by zero on the host, and so do the signed divisions of the
  most negative number by -1 (`inst.c:125-137`): SIGFPE ends the emulator.
- `mulh` widens its operands without their sign and `mulhsu` drops the upper half of the second;
  `sltiu` masks its immediate to 12 bits after the sign extension; `csrrwi` keeps the upper bits
  of the register (`inst.c:130-131`, `104`, `85`). `Alu!Deviates` is this list, the divisions above it and the misaligned
  targets: with any of the six removed, TLC finds `ComputesAsSpecified` violated.
- The patterns of the atomic instructions leave the opcode open (`inst.c:162-184`), so a word of an
  unknown opcode (a floating-point load, a compressed pair) is executed as an atomic
  instruction if its funct3 is 2 or 3 and the upper bits of its funct7 fit, and not reported by `invalid_inst`.
- `p $a0 * 2` reads memory at 2: after a register a `*` is taken for a dereference
  (`expr.c:292`), although the help says "Evaluate the expression EXPR" (`sdb.c:211`). `$s10` is read as `$s1`
  and 0, hexadecimal numbers stop at their first letter, `$csr_n` is read as `$cs` (`expr.c:70-73`), `**` and `$0`
  fail an assertion (`expr.c:20-21`, `237`), a division by zero is the host's, and `&&` evaluates both sides. A decimal number goes through `atol`, so one of 2^63 or
  more counts as `LONG_MAX` (`expr.c:230`). Only the first and the last of these give a wrong value; the others give none
  (`EvaluatesAsWritten`).
- `strcpy` puts the text of a watchpoint into 500 bytes without a bound (`watchpoint.c:74`): a longer one runs over the value into
  the cell behind, its `next` included. `Watchpoint` keeps the text abstract, so `PoolPartitioned` and `TableSpec` hold for
  expressions of less than 500 characters.
- Malformed commands (`d` or `x` without arguments, unbalanced expressions) crash the emulator (`Monitor!Malformed`).
- Difftest announces that "The result of every instruction will be compared" (`difftest.c:36`): instructions that
  touch a device, raise an illegal-CSR exception or are followed by an interrupt are copied instead. Reads of
  `mip` (and of the counters, which the reference keeps for itself) are reported although nothing is wrong; the final `ebreak` is
  an exception for the reference, and the report turns `END` into `ABORT`. `mip` is copied only with
  a skipped instruction, so the reference may take an interrupt on an old one (`skewed`).
- At the end of its input the terminal sends its last line again without end
  (`mayfly_serial/mayfly_serial.c:19-21`), and when one program has gone the next write ends the other by SIGPIPE
  before its return value is looked at (`serial.c:92-93`).
- The image, the kernel at +0x2000000 and the file system at +0x3000000 may overlap, and one that
  is larger than the memory is reported and loaded all the same (`paddr.c:22-26`, `51-60`, `83-88`).
- The PLIC search passes the end of its array if source 31 is pending (`plic.c:45`);
  no device raises it.

## 6. Not modelled

- *Reference mode* (`difftest.c:90-165`): this emulator as a shared library for another processor, which is
  not in the repository; what that processor does between the calls is unknown.
- *Loaders, flash, arguments*: file reads before the guest starts, and plain arrays.
- *Disassembler and instruction trace*: output only.
- *Loads and stores of bytes and half-words*: as those of words, with another width.
- *Assembling of immediates* (`immI` to `immJ`): `Alu` starts from the value of the field.
- *Malformed expressions*: most end in an assertion; `Monitor!Malformed` stands for all of them.
- `aplic.c` and `ddr.c` are empty.

## 7. Plan

In order of importance; 1–11 and 13 are done.

1. `Trap`, `TrapContext` and their proofs: every guest depends on them.
2. `Aclint`, `Plic`, `PlicBoard`.
3. `Serial`, `Console`, `ConsoleDriver`, `ByteChannel`: two processes and their composition.
4. `Monitor`, `Watchpoint`, `WatchTable`.
5. `Memory`.
6. `LrSc` and its proofs.
7. `SerialLink` and its proofs: two programs, three threads and two FIFOs in every order.
8. `Expr`: the precedence search against a reading of the grammar.
9. `Difftest` and its proofs: the lock step of two harts.
10. `Decoder` and `Alu`: instructions against the manual.
11. Proofs of the devices, the console, the debugger, memory and the decoder, and the refinements.
12. Byte and half-word accesses in `Alu`, and the assembling of immediates.
13. Liveness as far as the prover goes: the programs find each other, the screen is served, and the steps by which the
    timer, the escape key and a printed byte come nearer. What remains is listed under "Only model-checked".
