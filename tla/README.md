# A TLA+ development of handyarm

handyarm emulates an ARM microcontroller in JavaScript: a Thumb interpreter in C
(`thumbulator/thumbulator.c`, compiled to WebAssembly) runs guest code, and a set
of JavaScript devices (`src/*.js`) forms the machine around it. This directory
holds TLA+ models of that machine, their TLC configurations, and proofs checked
by TLAPS. Paths below are relative to the repository; `tla/PROJECT.json` lists
the file and the lines that each definition stands for.

## 1. Inventory

One thread runs everything: the embedder calls `run(n)`, the interpreter executes
up to n instructions, and each load or store calls out to the `MemoryBus`, which
calls a device. Device handlers run to completion. Between two calls of `run`
(and so between any two guest instructions) the embedder may call the host-side
methods of a device. There are no threads, no network and no persistence: what
is hard is the interleaving of host calls with guest register accesses,
exceptions that leave a handler half done, boundaries of ranges and buffers, and
long sequences of register writes.

| component | state | operations | talks to | must hold |
|---|---|---|---|---|
| `Block_Input` (`src/block_input.js`) | size, ring memory, `_start`, `_end` | host: `appendData`; guest: register reads, store to start | its own `RAM`; the guest by polling | a FIFO until overrun, newest bytes kept on overrun, markers in range, bytes found by a polling reader |
| `_read`, `_write` (`usage_examples/handyarm.c`) | locals of the loop | one register access at a time | `Block_Input`, `Block_Output` | never past the caller's buffer; end to end echo |
| `Block_Output` (`src/block_output.js`) | `_startAddress` | two stores; the second reads the bus and emits | bus (reads), host listener | the block emitted is the block in memory, or nothing |
| `MemoryBus` (`src/bus.js`) | list of devices with inclusive ranges | `attach`, `read`, `write` | every device | an address has one device, stable under later attachments; read your writes |
| `RAM`, `ROM` (`src/ram.js`, `src/rom.js`) | bytes, option `bounds` | `read`, `write` | - | bounds; word access all or nothing |
| `Flash`, `Programmer` (`src/flash.js`) | words, control, offset | register writes, page erase, reads | bus | bits only cleared by programming, set only by an enabled erase; bursts land |
| DMA (`src/dma.js`) | six registers | register writes, copy loop | bus, as a second master | faithful copy, registers usable for a retry, ends |
| Thumb CPU (`thumbulator/thumbulator.c`) | 16 registers, cpsr, `trap_flag`, counters | `reset`, `run`, `abort_run`, `execute` | bus hooks of the embedder | flags, branches, precise faults, trap protocol |
| `GPIO`, `UART`, `IO` (`src/GPIO.js`, `src/uart.js`, `src/io.js`) | port registers, last values | register writes, each calling its listeners before it returns; host drive/receive | host listeners, which may call back | listeners end up with the output; a wired pin reads what was stored |
| flash example (`usage_examples/flash/main.c`) | loop counter, error count | enable, program, verify (its page erase is commented out) | `Flash` | touches its own region only, programs it however often it is interrupted, counts what did not take |

`PROJECT.json` lists the hazards of this code one by one, at the line where each
bites, with the properties that cover it; the three without a property say why.

## 2. Modules

| module | models | state and actions against the code |
|---|---|---|
| `ByteChannel` | what a byte channel over a ring promises | abstract: `Write`, `Overrun`, `Fetch`, `Consume` |
| `BlockInput` | `Block_Input` and `_read` | `appendData` is one step (`AppendData`, `AppendFault`, `AppendTooBig`: JavaScript runs to completion); `_read` is one step per register access (`LoadEnd`, `Test`, `LoadByte`, `Advance`), so a host append falls anywhere between them |
| `Bus` | `MemoryBus`, `RAM`, `ROM` | operators on `devices` and `mem`: `Route`, `BusRead`, `BusWrites`, `MemAfter`, `Attach`; bytes, because ranges and sizes need not be aligned |
| `MemoryMap` | an embedder and bus masters on `Bus` | `AttachMemory`, `Write`, `ReadOrThrow`; its `MapInit`, `MapNext`, `MapSpec` and `MapTypeOK` are named so that `DMA` and `Console` can be proved about with its lemmas |
| `Flash` | `Flash` and one `Programmer` | one action per register (`WriteControl`, `WriteOffset`, `WriteValue`, `ErasePage`), `WriteThrows`; a word is the set of its 1 bits, so programming is intersection |
| `DMA` | the DMA controller on `Bus` | register writes, `WriteControl` (which starts a transfer), then one step per word (`CopyWord`, `CopyFault`, `Finish`) |
| `FlashExample` | `main.c` on `Flash` | one action per bus access of `main` and the `flash_*` functions it calls; the loads and stores that throw; `OtherProgram` (whoever used the programmer before), `Reset` and `PowerCycle` (a new machine from `getSnapshot`) at any of them |
| `Ports` | `GPIO`, `UART`, `IO` and their listeners | register writes, `Receive`, `SetValue`, `SetExternalDrive`; an emission is a stack `calls`, so that `Return` and `Throw` end one listener while the stores it made are over and those that called it are not |
| `BlockOutput` | `Block_Output` on `Bus` | `WriteStart`, `WriteLength` (emits), `WriteLengthThrows` |
| `Console` | `BlockInput`, `Bus` and `BlockOutput` composed | an echo program: `_read` into guest RAM, `_write` from it; it extends the three, so its own specification is `ConsoleInit`, `ConsoleNext`, `ConsoleSpec` |
| `ThumbALU` | the data processing of the interpreter | operators on words of W bits: results, the four flags, shifts, conditions |
| `ThumbBytes` | extension, byte reversal, and byte and halfword accesses as `execute` makes them, from whole words and halfwords | operators on words of four bytes of W / 4 bits each |
| `DataPath` | data processing instructions in any order | `TwoRegisters`, `ThreeRegisters`, `Immediate`, `ShiftImmediate`, `Load`; the history `wide` holds the wide numbers being added or compared |
| `CPU` | `run`, `reset`, `abort_run`, `set_stop_address`, `execute` | one action per way `execute` can leave: `Execute`, `StopTrap`, `FetchTrap`, `FetchFault`, `DataFault`; one per call of the embedder: `Run`, `AbortRun`, `SetStopAddress`, `Retry`, `Reset`, `MapWord` |
| `ThumbMachine` | what a guest may take the interpreter for | abstract: bytes of memory, the address of the next instruction, one `Instruction` per step; `Tear` and `Lose` for an instruction an exception left half done, `Reset`, `HalfReset` |
| `MCMemoryMap`, `MCFlash`, `MCDMA`, `MCConsole`, `MCCPU`, `MCPorts` | instances for TLC | sizes, images, maps of addresses, guest programs |
| `MemoryMapProofs`, `DMAProofs`, `BlockInputProofs` (also of `Console`), `FlashProofs` (also of `FlashExample`), `PortsProofs`, `ThumbALUProofs`, `DataPathProofs`, `CPUProofs` | proofs | section 5 |

Operators named `X_Variant` stand next to the operator `X` they vary. They are
deliberately wrong versions of the code (a dropped reset, an off-by-one, a wrong
index) and no specification uses them; `PROJECT.json` pairs each with the
property that must fail when it replaces `X`, which shows that the property
depends on the code.

Abstractions. Byte values are a small set; merging a byte into its 32-bit word
(mask, shift, or) is an update of one byte of the memory, which is what it does
while the word access succeeds; whether it succeeds is modelled (`WordFits`,
`Fits`). History variables (`sent`, `rcvd`, `overrun`, `last`, `base`, `burst`,
`job`, `starts`, `fit`, `heard`, `behind`, `taken`) record what properties need and no
guard of the code reads them, except that `MaxSent` and `MaxStarts` bound the runs
through them.
`_read` reloads `start_offset` more than once; only the guest moves it, so those
loads are merged with the step that uses them. The four data registers of the
DMA only assign, and are written in one step.

An instruction of the CPU is a record, not 16 bits: the decoder's masks are left
out, and an instruction that stands for several encodings (`alu` for all data
processing, with a destination and two operands that may all differ, `ldr` for its forms with an immediate, a register or the program
counter, `unary` for extension and reversal) is one operator.
An instruction runs in one step, because nothing else runs until a hook is called,
and what a hook may do to the interpreter is to throw or to ask for an abort. A
throw can come from any bus access, so an instruction is given the set of words
that answer and works out how far it gets. The history `pending` holds
the instruction an exception left, and the states before it and after it; `calls`
holds the return addresses of calls in progress, and `lost` says that an instruction
left by an exception was skipped or can no longer be repeated.

`ThumbMachine` is written from the architecture's side: bytes instead of words,
addresses instead of a program counter that is two ahead, arithmetic instead of masks
and shifts. `CPU` implements it through a mapping that shows the state before an
instruction until the instruction is complete. That is why its `R`, `Effects` and
`Load` repeat in other terms what the steps of `CPU` do: if they shared operators,
the refinement would compare the code with itself.

A listener of `Ports` is external code. What it does to the device it listens to is a
store, a host call, a return or an exception, any number of them in any order, up to
`MaxDepth` stores inside one another; the one thing a listener does by itself is to
drive the pins that `Wires` gives it.

## 3. Runs

All passing runs are exhaustive for their bounds. Deadlock is checked in each
of them. Each checks its module's type invariant as well (`TypeOK`; `MapTypeOK` in
`memory_map`, `ConsoleTypeOK` in `console`).

| run | result | what it asks |
|---|---|---|
| `block_input` | pass | every interleaving of appends with `_read`, rings of 4 and 5 bytes: `Fifo`, the refinement `ChannelSpec` of `ByteChannel` (overruns included), `OverrunKeepsNewest`, `FaultIsPermanent`, `Delivery` |
| `memory_map` | pass | every map of up to three attachments: `SharedAddressIsSingle`, `WordMapIsExact`, `Coherent`, `RoutingIsStable` |
| `flash` | pass | every sequence of register writes: `BurstLands`, `OnlyEraseSetsBits`, `ProgramIsLocal`; then the programming example, with resets, restarts from a snapshot and exceptions at every access: `MainKeepsToRegion`, `PatternLands`, `VerdictIsExact` |
| `dma` | pass | transfers that fault and resume: `RegistersTrackCopy`, `CopyMovesWords`, `CopyIsFaithful`, `CompleteMeansCopied`, `Terminates` |
| `console` | pass | end to end: `Echo`, `EchoArrives` |
| `cpu` | pass | seven programs run in slices, with aborts, stops, traps, missing memory and retries: the refinement `MachineSpec` of `ThumbMachine`, `RunReports`, `RepeatIsTransparent`, `CallsReturn`, `RunReturns` |
| `data_path` | pass | data processing in any order: `WideIsExact`, `BranchesDecide`, `ShiftsAreExact` |
| `ports` | pass | stores inside listeners of stores, host calls between any two of them, exceptions through them: `ListenersCatchUp`, `WiresFollow` |
| `append_exact_size` | violation | finding 1 |
| `flash_erase` | violation | finding 2 |
| `dma_status` | violation | finding 3 |
| `console_unaligned` | violation | finding 4 |

Bounds and why they are enough.

* `BlockInput`: size 4 is a ring of whole words; size 5 has a dead last byte, so
  `appendData` faults in the middle. Blocks go from empty to one byte more than
  the ring, so all of wrap-around, exact fill, overrun and refusal happen.
  `MaxLen` 2 lets `_read` end by a full buffer and by an empty ring. `MaxSent` 6
  is more than one turn of the ring of 4; the ring of 5 stops at its dead byte before it
  turns. It bounds what the history records
  before the first overrun; after it the history is empty and appends go on.
* `MemoryMap`: an 8-byte RAM, a 6-byte RAM whose last word does not fit, an
  unbounded ROM; starts 0, 4, 6 and ends 3, 4, 11 give ranges that are aligned,
  unaligned, one address long, nested, touching, and longer than the memory
  behind them. Three attachments are one more than a pair interacts in.
* `Flash`: two words and two pages, of which the fourfold index error of `erasePage`
  reaches a readable word and one behind the readable size (`flash_erase` has three);
  two bits to a word, one of them in the low byte; offsets at a word, at the last byte
  pair and beyond the end by auto-increment. The example's region is the offsets 4, 8 and
  12 of which only 4 lies in the flash: one word is programmed, two are lost
  behind the end, with `bounds` as exceptions and without silently. It verifies 8 of
  the 12 bytes, as `main` verifies 400 of 0x400, so that the verdict covers a word of
  each kind and leaves one out. The programmer starts from every state that the other
  program can leave it in.
* `Ports`: two pins and two listeners, each of which wires one pin to the other: a
  listener that is called first and one that is called last, and a change that goes
  round. Two stores inside one another are what it takes for a listener to be handed
  values out of order; a third adds another of the same. 0 and 257 are a byte and a
  word that is not one.
* `DMA`: RAM at 0-7, a hole at 8-11 where a RAM may be attached between two
  writes of the control register, a ROM at 12-15; lengths 0, one word, one and a
  half, two; data sizes 0, 2 and 4; destinations at a word and inside one, so that copies
  overlap their own source by words and by parts of a word; both increments on and off; two
  starts, so a fault and its retry.
* `Console`: a ring of 4, up to 4 bytes (a full turn of the ring), a buffer in
  either word of an 8-byte RAM, wild `_write` calls of up to 8 bytes. The
  program's buffer is word aligned: finding 4 is what happens otherwise.
* `CPU`: words of 8 bits, bytes of 2: the narrowest word that has four bytes, and 256
  addresses, of which 64 are used: two vectors, eleven or twelve instructions, six words
  of RAM. `Calls` nests a call through BLX in one through BL, with a push and a pop of the
  program counter; `Blocks` has a load and a store multiple, one that replaces its base, a
  pop and a push over words that may be missing; `Host` branches to the host and loops;
  `Bytes` stores and loads bytes and halfwords, signed and not, around a literal that it
  loads relative to the program counter; `Unaries` extends, reverses, and adds and
  compares LR, SP and the program counter; `Forms` has three-register and immediate-shift
  instructions with distinct operands (a shift by an immediate zero and MOV(2) among them),
  moves, adds and compares r8, and calls through BLX(1); `Spin` never stops by itself, and
  its reset vector is an ARM address, where `reset` ends the program. `run` gets 0 to 2 instructions,
  so every boundary between two instructions is a boundary between two runs, the two
  halves of BL included.
  Words may be missing in the code, the vectors, the stack or the data, so every
  kind of access throws; exceptions, retries, skipped instructions and
  resets occur in all orders.
* `DataPath`: words of 3 bits have two values on each side of every boundary
  (zero, largest signed, smallest signed, largest unsigned); numbers of two words
  pass one carry; shifts go from 1 to 7, below, at and above the width of 3.

## 4. Fairness

* `BlockInput`: weak fairness of the guest's next instruction and of its calling
  `_read` again. The interpreter executes the next instruction whenever `run` is
  called, and an embedder that drives a guest keeps calling it; the reading loop is
  the guest program's. The host owes nothing.
* `Console`: weak fairness of the program's own steps for the same reason, and
  strong fairness of `Read`, because between reads the program may choose a wild
  `_write`, which disables `Read` for the time of two stores; a program that never
  reads again is not an echo program.
* `CPU`: weak fairness of the interpreter: the loop of `run` is interrupted by
  nothing but the hooks it calls. The embedder owes nothing.
* `DMA`: weak fairness of the copy loop, which runs inside one guest store and is
  interrupted by nothing.

## 5. Proofs

Each theorem is for every value of the constants, under the assumptions that the modules
name. Every safety invariant that a run checks is a theorem, and every action property
but `CallsReturn`.

Most assumptions give constants their types or name a bound (`SizesAssumption`,
`BoundsAssumption`, `EmptyAssumption`, `MemoryAssumption`, `UnboundedAssumption`, `MapAssumption`,
`BusAssumption`, `GuestAssumption`, `SizeAssumption`, `BitsAssumption`, `ImagesAssumption`,
`OffsetsAssumption`, `RegionAssumption`, `ListenersAssumption`, `WordsAssumption`,
`UndefinedAssumption`, `RegsAssumption`, `AddressAssumption`, `VectorAssumption`,
`BoundAssumption`, `DataPathAssumption`, `PointersAssumption`), or say what a word is
(`WidthAssumption`, `HalfAssumption`, `ByteAssumption`). The others restrict the users of
the code:

* `PlacesAssumption`, `AttachedAssumption`: each memory is attached to the bus in one
  place. `MemoryBus.attach` accepts the same device at two ranges; then two addresses
  name one byte, and a copy that writes through one of them changes what it has yet to
  read through the other. `Coherent` does without: it speaks of all addresses that
  reach the bytes.
* `BufferAssumption`: the buffer of the echo program is RAM, each word of it served by
  one device. `Aligned`, that it starts at a word, is a hypothesis of `EchoHolds`,
  because without it finding 4 refutes `Echo`.
* `PatternAssumption`: no word of the example's pattern is all ones, which 0xDEADBEEF + i
  is not for the i in use.
* `WiresAssumption`: no two wires drive the same pin.
* `ProgramsAssumption`: a program is made of instructions that a case of `execute` takes
  (`Decoded`: which operands are registers, of which class, and which are immediates; r8
  to r12 occur where MOV(3), ADD(4), CMP(3), BX and BLX(2) reach them). It covers every
  case of `execute`, and admits a few combinations that no encoding has, such as a
  logical operation with an immediate; the theorems hold of those as well.

Block input and console (`BlockInputProofs`):

* `TypeCorrect`: markers stay in the ring, and `_read` never stores past `len`. Inductive
  as it stands.
* `FifoHolds`: `Fifo` is about sequences and is not inductive: it does not say that the
  byte the guest has fetched is still the oldest, nor that a stale `end` it has seen still
  means data. `IInv` adds both, and states the ring byte by byte (`Consistent`). The
  arithmetic of the ring is in `OffsetWraps`, `UsedIsDistance` and `SlotFromEnd`;
  `StoreBytesConsistent` and `AdvanceConsistent` are the two steps that move a marker;
  `ConsistentIsFifo` goes back to sequences.
* `KeepsNewest`: an append that overruns the reader leaves the newest part of what was
  unread and the block. The proof goes by the offset of each byte from the new `end`.
* `FaultPermanent`: `Dead` adds to the outcome what makes it last: `end` is at a word
  that does not fit, and from there no block but the empty one can be stored.
* `ChannelImplemented`: `BlockInput` implements `ByteChannel`, step by step: an append
  is a write or an overrun, the last access of an iteration a consumption, the others
  fetch or stutter. The invariant of `FifoHolds` makes the fetched byte the right one.
* `ConsoleTypeCorrect`, `EchoHolds`: any ring, any bus on which the buffer is RAM, any
  interleaving of appends with register accesses. `EchoInv` takes the invariant of the
  ring and says byte by byte that what the guest took was emitted or is in its buffer, and
  that a byte stored and not yet counted is the one fetched (`Echoes`). `LoadStores`: a
  byte store into the buffer leaves its other bytes, by `WriteIsLocal` of the bus;
  `BlockIsBuffer`: a block that starts at a word is the buffer. What was emitted is joined
  by a recursive function of the library, which is shown to exist and to be unique by
  least counterexample (`JoinExists`, `JoinsAgree`), so that `FlattenAppend` can be proved.

The bus and the DMA controller (`MemoryMapProofs`, `DMAProofs`):

* `MapTypeCorrect`, `SharedAddresses`: whatever is attached, wherever, memories keep
  their sizes, ranges are not empty, and two of them share at most one address.
* `WordMapExact`, `RoutingStable`: `Route` is the least index of a range that holds the
  address; that there is one follows from the well-foundedness of the naturals
  (`HasLeast`, `RouteIsFirst`). Of ranges made of whole words at most one holds a word
  address, whatever the order; an attachment goes to the end of the list, so it never
  comes before.
* `ReadsLastWrite`: any map. `WriteKeepsMemory`, `ReadAfterWrite` and `ReadElsewhere` say what a
  write does to the bytes that a later read collects; `Coherent` is inductive with them.
* `DMAProofs!TypeCorrect`, `RegistersTrack`, `CompleteCopied`: `TrackInv` says that the
  registers are those of k words copied, for some k, and ties the control register to
  the job while it copies. `CopiedIs` recovers k from them: the number of words is a
  quotient in the property and a product in the invariant.
* `WordsMoved`: the copy is compared with the bus as the job found it. A word that the
  transfer had written before it read it carries what was written there, so each word
  copied has an origin (`IsOrigin`) in the memory as it was. `CopyInv` says that each word
  copied so far was served (`Served`), that its destination holds what its origin held
  until a later word lands there (`Carried`, `Landed`), and that no other word changed
  (`Untouched`); a memory that is attached while a faulted transfer waits still has its
  first bytes (`LateKept`). `LatestLanded` finds the last word that landed in a place.
  `NoAlias` is where `PlacesAssumption` is needed.
* `FaithfulCopy`: from the same invariant, for transfers of whole words, whose places are
  distinct (`WholeWordPlaces`).

Flash and its example (`FlashProofs`):

* `TypeCorrect`, `OnlyErase`, `ProgramChangesOneWord`, `BurstsLand`: any number of pages,
  any word width, any image. `IInv` of `BurstsLand` ties the offset register to the length
  of the burst while auto-increment is on.
* `MainIsLocal`, `PatternIsWritten`, `VerdictHolds`: any region, any pattern, any length
  verified, a flash of any size. `PatternLands` is not inductive: it says nothing of a word
  that is yet to be programmed, and such a word may be programmed twice. `PInv` adds where
  `main` has the offset register and the enable bit (`AtPC`), that no step changes whether
  a word can take the pattern (`Taken`), and that a word passed has no bit that the pattern
  lacks (`Passed`). `VInv` counts the errors up to the loop counter; the cardinalities are
  in lemmas of their own.

Ports (`PortsProofs`):

* `TypeCorrect`, `CatchUp`, `PinsFollow`: any pins, any number of listeners, any wires,
  stores inside one another to any depth. `ListenersCatchUp` speaks of the moment when
  nothing is in progress. What holds in the middle is `Owed`: a listener that is not left
  behind is up to date or awaited by an emission, and every emission that awaits it
  carries the present output. `EmitOwed`, `ReturnOwed` and `ThrowOwed` are the steps that
  change the stack. `Followed` is `WiresFollow` against what the listener heard last
  instead of the output.

The interpreter (`ThumbALUProofs`, `DataPathProofs`, `CPUProofs`):

* `CarryIsExact`, `OverflowIsExact`: `do_cflag` and `do_vflag` work on the lower bits and
  the top bit apart; for words of any width the result is that of the whole sum. `Halves`
  and `TopBits` split the operands, by cases on their top bits. `AdcIsExact` and `SbcIsExact` are
  one step of what `WideExact` says of wide numbers; `BranchesDecideWords` is
  `BranchesDecide` for single words, from the two theorems on flags.
* `AndIsExact`, `LogicIsExact`, `ShiftsOfWordsAreExact`: the operations of the code by
  cases on bits and amounts, against those on each bit, and against products, quotients
  and rotations. The provers know no powers of two: what is needed of 2^k is obtained by
  counting subsets.
* `DataPathProofs!TypeCorrect`, `WideExact`, `BranchesDecideWide`, `ShiftsExact`:
  numbers of any number of words. `WideInv` says of the words done so far that sum,
  carry and overflow are exact, and also that N is the sign of the last result and Z
  that it is zero, which the branches need. `SumExtends` and `DifferenceExtends` put
  one more word on top.
* `CPUProofs!TypeCorrect`: registers hold words and the program counter stays even
  through every instruction, trap, exception, retry and reset, block transfers and
  writes of the program counter by a pop included. `TypeInv` adds what the run loop and
  the histories may hold in the middle of a slice.
* `ReportsAreTrue`: `RunReports` is not inductive: an abort is reported because
  `trap_flag` is clear while the loop runs, which `RunInv` adds, with the types of the
  counters. `StepReasons` is all it needs to know of instructions; `IterationReports` is
  the end of an iteration, whichever way `execute` went.
* `RepeatTransparent`: `RepeatIsTransparent` says what the repetition of a faulted
  instruction ends in, and nothing of the state the fault left, which further faults
  and retries change again. `RepeatInv` adds it: whenever the interpreter stands at the
  pending instruction, to execute it on the present state and all of memory gives
  `pending.after`. It rests on what an instruction interrupted by an exception may
  have changed by then: the stores it had completed, which it makes again.
* `MachineImplemented`: `CPU` implements `ThumbMachine`. `StepIsInstruction` is the heart:
  an instruction that does not fault has one of the machine's effects, whatever words,
  memory map and operands. The two are written apart (words and masks here, bytes and
  addresses there; a reset whose vector is an ARM address leaves the machine where its
  registers say that it would go on), so each class of instructions has a lemma: `SameAlu`, `LoadsAlike`,
  `StoresAlike`, `BlockLoads` and `BlockStores` (the loops over a register list against
  the place of each register), `TargetIs`. `MachineInv` adds to `RepeatInv` that the
  machine stands where the pending instruction found it (`pending.before`), that the
  pending outcome is one of the machine's effects (`Explained`), and that an instruction
  that could not end even with all of memory mapped still cannot (`CannotEnd`).
  `ExecuteSeen`, `DataFaultSeen` and `ResetSeen` are the steps that the machine sees; the
  others stutter.

Only model-checked:

* liveness (`Delivery`, `Terminates`, `EchoArrives`, `RunReturns`), which is out of
  this prover's reach;
* `CallsReturn`, which holds of programs that keep their return addresses, as the ones of the
  run do: there is no statement of it for every program.

## 6. Findings

1. `appendData` accepts a block of exactly the buffer's size
   (`src/block_input.js:39`, against the comment at line 37); the ring then
   looks empty and the block cannot be read.
2. `erasePage` indexes a word buffer with byte addresses and stores `0xFF` into
   words (`src/flash.js:223`).
3. A DMA start that throws leaves the status bit set for ever
   (`src/dma.js:59`).
4. `Block_Output` reads a block that starts inside a word from the start of the
   word (`src/block_output.js:36`).

Smaller disagreements, met on the way and without a run of their own. `attach` compares
inclusive ranges with a strict test (`src/bus.js:13`), so ranges that share one address
pass as not overlapping; `SharedAddressIsSingle` says, and a theorem proves, that this is
as far as it goes. `main.c:87` prints that all values match after comparing
400 of the 0x400 bytes it programmed; `VerdictIsExact` is about the words verified.
`src/dma.js:84` says that a transfer copies `transferLength` bytes, a TODO behind it (lines
87-90) that unaligned addresses and data sizes of 1, 2 and 4 are still to be handled, and
a disabled test (`test/dma.test.js.disabled:48`) expects a data size of 1 to spread one
byte over a range. The code moves the whole aligned word of each address at every access:
a length that ends inside a word copies the rest of that word too, a data size of 1 or 2
moves the same word more than once, and an address inside a word stands for its word.
`CopyMovesWords` and `CompleteMeansCopied` say what the code does; that a transfer copies a
range of bytes is claimed, by `CopyIsFaithful`, for transfers of whole words only.

## 7. Not modelled

* Of the Thumb CPU: the decoder's bit masks; CPS and SETEND, which return 1 as an
  unknown encoding does. The systick timer and handler mode are unreachable: what could
  start the timer is commented out (`thumbulator/thumbulator.c:114`). What a hook may do
  besides throwing and asking for an abort (calling `run`, `reset` or
  `write_register` itself) is left out.
* `Block_Output.setValue` and its read side, `DMA.onBusFault`,
  `interruptHandler`, `bytesTransferred`: nothing in the repository uses them.
  `GPIO._externalDrive` is written and never read.
* A DMA whose registers lie on the bus it masters: nothing in the repository attaches
  one to its own bus.
* Loss of a byte that the UART receives over another (`src/uart.js:12`) is in `Ports`,
  but the status register is a constant, so the loss leaves nothing in the device that a
  property could speak of.
* `_read` with a `len` of 0 runs past its buffer (`usage_examples/handyarm.c:20`
  compares for equality after the increment); newlib does not make that call,
  and the model does not either.
* `flash_erase_page`, which the example defines and does not call; what the example
  prints.
* A ROM of size zero; the emscripten output; two disabled JavaScript CPUs; vendor
  startup code, linker script and system calls of the flash example. The bus
  hooks the CPU calls (`Module.busRead16` and so on) belong to the embedder and
  are not in the repository.

## 8. Plan

What is left, in this order:

1. `CPU` on `Bus`: the hooks as calls of `BusRead` and `BusWrites`, so that a missing
   word is an unattached device.
2. A DMA whose registers lie on its own bus.
3. Proofs: `CallsReturn` for a class of programs, from a condition on their code under
   which a subroutine keeps its return address.
