# Verification of arm_emulate

arm_emulate is a Go library that emulates an ARM processor with the THUMB
instruction set. An embedding program (the *host*) makes a processor and a
memory, maps a program, and calls `RunNextInstruction` once per instruction; in
between it reads and writes registers, changes modes, and sends interrupts.
Everything runs in the host's goroutine: there are no locks, channels or timers,
nothing is persisted, and no call waits for another. What is hard here is the
*sequence*: of host calls, of guest instructions (which are arbitrary: the guest
is data), of interrupts between any two of them, and of a failing step in the
middle of an instruction.

This directory holds TLA+ modules for the processor state, every instruction of
both instruction sets, the decoders, the instruction cache and the memory; TLC
configurations that check them on small instances; and theorems checked by TLAPS.
`PROJECT.json` maps every definition to the source lines it stands for and
lists runs, hazards, faulty variants and theorems.

## 1. The system

| component | source | state | operations | used by |
|---|---|---|---|---|
| register file, banks, status registers | `processor.go`, `register.go` | six register arrays, CPSR, one SPSR per privileged mode but system | `Get/SetRegister`, `Get/SetUserRegister`, flags, `Get/SetCPSR`, `Get/SetSPSR`, `SetMode`, `SetTHUMBMode` | host, every instruction |
| interrupt delivery | `processor.go` | (CPSR, lr, SPSR) | `SendIRQ`, `SendFIQ` | host |
| fetch and dispatch | `processor.go` | pc | `RunNextInstruction`, `PendingInstructionString` | host |
| instruction cache | `lru_cache.go` | 64 sets of two ways, for ARM and for THUMB | lookup, store | fetch |
| memory | `memory_management.go` | two-level page table, byte order | read/write of word, halfword, byte; `SetMemoryRegion`, `ClearMemoryRegion`, `SetBigEndian` | host, fetch, transfers |
| conditions, shifter, opcodes, flags | `condition.go`, `shift.go`, `data_processing_operations.go`, `utility_functions.go` | flags | `IsMet`, `Apply`, `Evaluate`, `isCarry`... | ARM instructions |
| THUMB ALU | `alu_operation_thumb.go` | flags | `Evaluate` | THUMB instructions |
| ARM instructions | `emulate.go` | - | one `Emulate` per format | dispatch |
| THUMB instructions | `emulate_thumb.go` | - | one `Emulate` per format | dispatch |
| coprocessors | `coprocessor.go` | whatever the host adds | `Operation`, `DataTransfer`, `RegisterTransfer` | ARM coprocessor instructions |
| decoders and disassemblers | `instruction.go`, `instruction_thumb.go` | - | `ParseInstruction`, `ParseTHUMBInstruction`, `String` | fetch through the cache |

How they interact: `RunNextInstruction` reads the word at the pc from the memory,
looks it up in the cache (which decodes it on a miss), moves the pc, and calls
`Emulate`, which calls back into the processor through the `ARMProcessor`
interface: the same methods the host uses. `Emulate` may return an error; the
host gets it, with whatever the instruction had already done left in place, and
may go on. `SendIRQ` and `SendFIQ` change mode, lr, SPSR and pc at once; there is
no pending state.

What makes each component correct:

* **Registers.** The arrays and index arithmetic implement the ARM banks; a call
  that fails changes nothing; the mode is always one that has registers;
  `SetCPSR` of the value `GetCPSR` returned is the identity (instructions without
  the S bit rely on it to put the flags back); an SPSR is overwritten only for the
  mode entered.
* **Control instructions.** User mode is left by `swi` or an interrupt only, and
  reaches no SPSR, no interrupt mask and no bank but its own, even through
  instructions that fail half-way; nested exceptions return to what they interrupted.
* **Cache.** Transparent, and least recently used.
* **Memory.** One array of bytes seen through three widths and two byte orders,
  whose content only writes and mappings change.
* **Transfers.** An instruction that fails for want of memory can be run again when
  the memory is there, and then ends as if it had not failed; the lowest register of a block
  has the lowest address; what is pushed comes back; a THUMB transfer does what its ARM
  form does; a `bl` arrives and can return, whatever comes between its halves.
* **Decoders.** No field is read from another's place, no bit a format depends on is
  lost, and a word means one instruction whatever the bits its format ignores.
* **Arithmetic.** Carry and overflow say what exact arithmetic says; flags survive
  the instructions between the one that sets them and the one that reads them; THUMB
  instructions do what the ARM instructions they stand for do.

## 2. The modules

| module | what it is | code |
|---|---|---|
| `Processor` | the processor as a record, its methods as operators that return the new processor and whether the error was nil | `processor.go` |
| `BankedRegisters` | *abstract*: a register file seen as a function of mode and number | - |
| `ProcessorAPI` | state machine: the host calls any method with any argument | `processor.go` |
| `ControlInstructions` | the instructions that move the pc, the mode or a status register, as operators on a processor | `emulate.go`, `emulate_thumb.go` |
| `GuestControl` | state machine: any sequence of those instructions, with any operands, and interrupts between any two | the same, `processor.go` |
| `HandlerNesting` | state machine: a well-behaved guest whose handlers save and restore their state, under nested exceptions | the same |
| `InstructionCache`, `InstructionHash` | the two caches as one structure, and the hash functions | `lru_cache.go`, `processor.go` |
| `RecentPairs` | *abstract*: a transparent cache that keeps the two keys used last in each set | - |
| `Memory` | page tables, reads, writes, mapping, clearing | `memory_management.go` |
| `FlatMemory` | *abstract*: an array of bytes, some unmapped | - |
| `WordArithmetic` | carry and overflow on words of any width | `utility_functions.go` |
| `Shifter` | the barrel shifter | `shift.go` |
| `ArithmeticInstructions` | opcodes, conditions, THUMB formats | `data_processing_operations.go`, `condition.go`, `alu_operation_thumb.go`, `emulate*.go` |
| `GuestArithmetic` | state machine: fetch one instruction, execute it on arbitrary operands | the same |
| `FlagPrograms` | state machine: programs in which flags outlive an instruction | the same |
| `DataTransfers` | loads, stores, blocks, swaps, multiplies and coprocessor instructions, as operators on a machine of processor, memory and coprocessors | `emulate.go`, `coprocessor.go`, `memory_management.go` |
| `THUMBTransfers` | the THUMB loads and stores, push, pop, adr, bl | `emulate_thumb.go` |
| `GuestTransfers` | state machine: a guest that runs them, and a host that maps memory on demand, runs the failed instruction again, drops pages, adds coprocessors and sends interrupts | the same, `processor.go` |
| `ARMDecoder`, `THUMBDecoder` | the parse functions and the tests that choose between them | `instruction.go`, `instruction_thumb.go`, `shift.go` |
| `InstructionDecoding` | state machine: any word is decoded; *reference*: an assembler from fields to words | the same, `processor.go` |
| `ProcessorLemmas` | lemmas about the operators of `Processor`, shared by the next four | |
| `ProcessorProofs`, `GuestControlProofs`, `HandlerNestingProofs`, `GuestTransfersProofs` | theorems about the four state machines over a processor | |
| `MemoryProofs`, `ArithmeticProofs` | theorems | |
| `InstructionProofs` | theorems about the way from a word to its instruction: the cache and the decoders | |
| `MC*` | inputs and bounds for TLC | |

Correspondence of state. `p.regs` is a function on *slots*, pairs of an array's
mode and an index, so that two modes sharing an array element share a slot;
`p.cpsr` and `p.spsr[m]` are records of the fields the code tests (N, Z, C, V, the
two interrupt masks, T, the five mode bits). `pages` in `Memory` is the top-level
table, `Nil` where Go has nil. `cache` is a function from instruction set and
hash to a set of two ways and its recency bit; a decoded instruction is the pair
of its word and its instruction set. A method's error is the field `ok` of its
result (`outcome` in `Memory`, where a panic is an outcome of its own). An action
is a whole call: `GuestControl!RunLDM`, for instance, is the fetch, the loop over
the list that may stop at any register with a memory error, the write-back and the
mode change of one `BlockDataTransferInstruction.Emulate`. In `GuestTransfers` the
memory is `cells` (the words there are or could be) and `mapped` (the pages that exist),
a flat view that `PagesAreFlat` of the run `memory` justifies; `pending` remembers the
instruction whose error the host has got, the pc it was fetched from and, for the properties
only, the machine it would have left with every page there. The host's `Retry` is
`SetRegister(15, pc)` and `RunNextInstruction`.

`DataTransfers!BlockTransfer` uses the same `BlockDataTransfer` as `GuestControl`: there
the loop stops anywhere, here where the memory ends. `InstructionDecoding` leaves the
condition, bits 31 to 28, out of an ARM word: no test of `ParseInstruction` looks at it.

Abstractions. Operands that come from memory or from arithmetic are arbitrary in
`GuestControl` (a superset of what any program computes); `WordSpace` and
`HalfSpace` stand for 2^32 and 2^31; `AmountValues` stands for the 256 amounts a shift can take
from the low byte of a register, which is less than a word holds and more than it has bits;
page and table sizes are constants of `Memory`. Wording of errors and printing are left out; guests
run decoded instructions, and the decoders are checked by themselves.

One place depends on the build: the THUMB `asr` shifts Go's `int`: `WideInt`
chooses a 64-bit build, and the runs take it. Nothing else in the code depends on
the platform.

## 3. The runs

| run | question | bounds |
|---|---|---|
| `api` | Can a sequence of host calls break the register file? | modes 17 and one invalid, three status words (user, irq masked in THUMB state, invalid), registers 8 (banked in fiq) and one out of range, words of 5 bits; states with more than `MarkedPlusWritten` = 2 marked status registers and written registers are not expanded |
| `guest_isolation` | Can a guest in user mode get out, or an instruction fail half-switched? | every instruction with two words, three status words, two lists; all sequences of `MaxSteps` = 4 calls |
| `guest_interrupt_state` | Do interrupts enter handlers in ARM state? (no) | as above |
| `nesting` | Do handlers that save their state return, through nested exceptions? | two exceptions of any kind, three masks, one branch target, programs in both states |
| `cache_lru` | Is the cache transparent and LRU with the code's own hashes? | 64 sets; five ARM and four THUMB words, four and three of them colliding, one undecodable |
| `memory` | Are pages a flat array under every interleaving of calls? | 16 addresses in two tables of two pages; addresses 6 and 13 (unaligned, crossing a table, at the limit), sizes 4 and 8, a word of four different bytes, no data and three bytes |
| `memory_clear` | Does clearing unmap the given range? (no) | all page-aligned addresses |
| `arithmetic` | Does a shift move a word by as many places as its amount, or the low byte of its register, says, and are THUMB instructions their ARM twins? | all 5-bit operands and flags, register amounts below 16 (three words), r15 as the shift register, all instructions |
| `thumb_twins` | Is every THUMB ALU opcode the ARM one? (no) | the same |
| `flags_programs` | Do two-word sums and compare-and-branch work, and how far off are two-word differences? | all pairs of 3-bit words, any number of instructions in between |
| `transfers` | Does a transfer that faults, and is run again after the host has mapped a page, end as if it had not faulted? Do blocks, pushes, THUMB twins, calls and long multiplies do what they should? | words of 8 bits, pages of two words, three pages around address 0 of which any may be missing; 664 ARM and 86 THUMB instructions in all their variants, each run as the first of `MaxSteps` = 1 from three processors, with any number of faults, mappings and retries after it, and the second half of a `bl` after the first with interrupts, unmappings and new coprocessors in between |
| `decoding` | Do the decoders read every field from its place, and every word in its format? | all 65,536 THUMB halfwords; 98,304 ARM words with every value of the bits the decoder tests and three, two, two and two values of the other nibbles |

Why the bounds are enough. *Banks*: register 8 is private to fiq, 16 is invalid;
the theorem covers the other registers and all words. With two marks a state can
hold a value in a bank and a different one in an SPSR, which is what a
wrong save or a wrong slot needs; every faulty variant in the code's methods is
caught within them. *Guest*: getting from user mode to a privileged one, loading an
SPSR, failing a return through it and being interrupted takes four steps.
*Nesting*: two exceptions are one handler interrupted by another, of the same or
another mode; TLC explores every place where the second can arrive, with the masks
on and off. *Cache*: three colliding words are one more than a set holds; sets do
not interact. *Memory*: two tables and two pages per table have every
boundary the index arithmetic has; a page of four bytes holds one word, and no
access crosses pages because addresses are rounded down. *Arithmetic*: three bits
are enough for a sign, a carry between bits and a middle bit. With five, and register amounts
below 16, the loop of `applyROR` takes two words off, every shift has amounts below, at and above
the width, and the registers from 16 on, half of them, are cut as a byte cuts them; a model
without the cut fails `ShiftsByPlaces`. `ArithmeticProofs` shows
that carry, overflow and what programs make of them do not depend on the width. `flags_programs` gives the same
result with 4-bit words.

*Transfers*: the three pages are the first two and the last, so that a block can fault at
any of its words in either direction and wrap around address 0; any number of faults is followed
by any order of mappings and retries, with no bound. A block of four registers, one of
them the base, in a user and a fiq bank, is enough for every order and bank. Words of 8 bits
leave four values to a byte, whose sign, lane and width can be told apart. One
instruction is enough since its operands are already arbitrary in page, alignment and sign;
only `bl` is a program of two. *Decoding*: no test of the decoders spans two of the nibbles that
are sampled, save the one for `bx`, whose word is in the sample; both values of every bit
and the registers that a multiply refuses are, too.

`CHECK_DEADLOCK FALSE` is given where a sequence ends by design: at the bound of
steps (`GuestControl`, `GuestTransfers`), of the program (`FlagPrograms`), or after one word
(`InstructionDecoding`).

Fairness: only `GuestTransfers` assumes any. The program does nothing on its own;
whether anything happens next is up to the host, which calls `RunNextInstruction` in a loop
(`doc.go:42-46`) until it gets an error. `HostFairness` is weak fairness of `MapPage \/ Retry`
together: a host that chooses to go on after an error does, in any order, and does not stop
while one of the two would still change something. The guest, interrupts, and the single
retry or mapping owe nothing. Under it `FaultsAreResolved` says that no instruction fails for
ever on what its own failures left behind. Without a host that goes on the code
promises nothing, and nothing is claimed.

Every property of a passing run has a faulty variant of a modelled definition
("Faulty variant" in the comment above it) that TLC catches with that property.

## 4. What is proved

The proofs hold for every value of the constants that satisfies the named
assumptions; they are checked by `tlapm`.

**Registers** (`ProcessorLemmas`, `ProcessorProofs`), from `WordSpaceAssumption` (there are
at least 29 words, so that the vectors are words) and `HostAssumption` (arguments have the Go
types). The inductive invariant is `Good(p)`: `p` is a well-formed processor *and* the
CPSR's mode is a valid one. The type invariant alone is not inductive, since a register write
in an undefined mode has no slot. One lemma per method says that it keeps `Good` and, when it
returns an error, everything (`Keeps`); `SetCPSRKeeps` composes `SetModeKeeps`, the
place where a partial failure could hide: it hinges on the mode being checked
before anything is stored. From them:

* `TypeCorrect`, `ModesStayValid`: `[]TypeOK`, `[]ModeAlwaysValid`;
* `CallsAreAtomic`: `FailedCallsChangeNothing`;
* `RestoringIsHarmless`: `[]RestoringStatusIsIdentity`;
* `SavedStatusIsStable`: `SavedStatusStability`;
* `ImplementsBankedRegisters`: `RegistersAreBanked`, a refinement of
  `BankedRegisters`; its core is that the slots of two modes coincide
  exactly where neither mode keeps the register private, and differ otherwise.

**Guests** (`GuestControlProofs`), from `GuestAssumption` of `GuestControl` (operands have the
Go types, the guest boots in a defined mode). The invariant is `Good(p)` again, now kept by
whole instructions. Each instruction has one lemma, `Outcome`: if it fails, or starts in user
mode, it is `Contained` (it changes flags, the T bit and registers the mode can name, nothing
else); if it succeeds in another mode, it `Reaches` no SPSR but that of the mode it ends in, and
no register but those of the modes it starts and ends in. `Contained` steps compose, before and
after an `Outcome`, as the methods an instruction calls do. The action properties are read off
these, so that an instruction is looked at once for all of them: `GuestTypeCorrect`, `GuestModesStayValid`, `UserModeIsIsolated`,
`BanksAreIsolated`, `GuestSavedStatusIsStable`, `FailuresAreHarmless`. The steps of a guest are
bounded by `MaxSteps`, which is any number.

**Nested handlers** (`HandlerNestingProofs`), from `NestingAssumption`. The invariant is
`TypeOK /\ Good(p) /\ Stacked(frames, p)`. `ReturnStateKept`, the property the run checks,
speaks of the handlers one by one and is not inductive: when the top handler
returns, the one below becomes the top and must find itself in its own mode, which only a
statement about neighbours in the stack gives. `Stacked` says of every handler that was not
exposed that it waits with its state saved in the mode the frame above it interrupted or,
on top, runs in the mode of its exception with its state saved or still in its bank.
`NestingTypeCorrect`, `ReturnStateIsKept` and `SavingHandlersDoReturn` hold for any depth of
nesting, any program and any masks.

**Memory** (`MemoryProofs`), from `MemoryAssumption`: sizes are positive, a page is whole words,
and `Nil` is no byte, page or table. Addresses are taken apart into
(table, page, offset), once, with the lemmas of quotients and remainders that takes. `TypeOK` is
inductive by itself, and `WidthsAlwaysAgree` and `WritesAreReadBack` follow from it
for every address and byte order. `PageTablesAreFlat` is the refinement of `FlatMemory`,
call by call: mapping a region makes the pages from its first address on, fills the data over
what was there and keeps every other byte; `ClearMemoryRegion` keeps what it does not unmap.

**Transfers** (`GuestTransfersProofs`), from `TransfersAssumption` (a word is four bytes, a page
is whole words) and `GuestAssumption` of `GuestTransfers` (instructions have the fields and
widths the decoders give them, and the memory has a word for each place the host may map).
Every load, store, block, swap, multiply and coprocessor instruction of both sets, in all its
variants, is covered, with lists of any registers, any base and any pages.

* `TransfersTypeCorrect`: `[]TypeOK`.
* `RetriesLeaveNoTrace`: `RetriesAreInvisible`. It compares an instruction run on the pages
  there are with the same instruction on all of them. Three facts, each proved for every
  format. (1) `Follows`: if it succeeds with some pages, it does the same with all.
  (2) `AllOrNothing`, for those that touch memory once: where only a page is missing
  nothing has been done. (3) `Resumes`, for those that do more (blocks, pushes, and the single loads and stores whose offset goes through the shifter):
  what a failure left behind, with the pc put back, has the same result with all the pages as the
  machine before. For blocks that is so since the base is written after the last word,
  and a store of the same registers to the same words again changes nothing; that
  every register of a list has a place in its order is shown of a smallest list that had none.
  `RunIsRetriable` adds the fetch, its own fault and the condition.

  The inductive invariant `Inv` adds to `TypeOK` that the mode is a defined one, that the
  coprocessors have their type, and `Resumable`: the pending instruction, run from its pc on the
  *present* machine with all the pages there, leads to `pending.goal`. Without it a retry that
  fails, after other retries and mappings, says nothing about the next one. `Inv` was checked by
  TLC with the constants of the run `transfers` before it was proved.
* `EveryCallArrives`: `CallsArrive`. The invariant `Ongoing` says what holds while a call is
  half-made: lr of its mode holds `HalfMade(call)`, and the processor is either at the second
  half, in that mode, or in the handler of an interrupt whose lr and SPSR lead back there. Nothing is
  assumed of the offsets but their width, or of the pc, which a bx may have left odd. The proof attempt
  corrected the model three times: the return address of an odd pc is that of the code
  (bit 0 set, not added), any other instruction ends a half-made call even when it fails, since
  it may have loaded lr by then, and a handler of the call's own mode is no handler of it.
* `EveryBlockAscends`: `BlocksAscend`. `OrderRanks` gives each register its place in the order of the
  transfers, `AddressesAscend` the address of that place in each of the four modes, and
  `BlockCellsDiffer` that no two words of a block share a cell, also around the end of the
  memory, so that no store overwrites an earlier one.
* `LongMultipliesKeepEveryBit`: `LongMultipliesAreExact`. That a word has a sign half comes from
  `WordSpace = 2^WordBits` in `TransfersAssumption`. The sum the code wraps into two words
  differs from the exact one by a multiple of `WordSpace * WordSpace`, and the pair read as a
  signed number is its value in the signed range (`SignedPair`, `WrapsInto`). The proof needed the registers to
  be ones `parseMultiplyInstruction` lets through (`CanMultiply`): with r15 or one register
  in two places the property is false, and the decoder refuses exactly these.
* `THUMBTransfersAreARM`: `THUMBTransfersMatchARM`, format by format, failures half-way included.
  A single transfer is an `Access` of its own in both sets (`AccessIsTransfer`); the register
  offset of the ARM form goes through the shifter, where `lsl` by 0 leaves value and carry
  (`NoShift`). A push goes down the list of values in reverse, which is the descending order of the
  list with lr, its greatest member (`AscendingWithGreatest`); pop and `ldmia` load word by word,
  the ARM block in one go after a look at what is mapped, and stop at the same register
  with the same registers loaded (`LoadedByBlock`).
* `EveryStoreComesBack`: `StoresComeBack`, on the last two. A store that succeeds has found all its
  addresses mapped and has left each register of its list in a cell of its own
  (`WholeBlockIsStored`); the block that undoes it, or the pop, has the same address for each of
  them although its direction and base are others (`UndoneAddresses`, `PoppedAddresses`), loads
  them all (`WholeBlockLoads`) and, with write-back, ends at the first base. What is lost in between
  may be anything (`Kept`), so the result owes nothing to what the registers held.

**Cache** (`InstructionProofs`), from `CacheAssumption` (hashes are set indices, decoding
keeps the word). The invariant is `TypeOK /\ WaysSound`: the second way is filled
after the first, and they never hold the same instruction. The second half is
needed since a hit in a set with two copies would refresh the wrong one. From
it `CacheIsTransparentLRU`, the refinement of `RecentPairs`, whatever
the hash functions are.

**Arithmetic** (`ArithmeticProofs`), from `HalfSpaceAssumption` (words have at least two bits):
`isCarry` of a sum is "does not fit", of a difference the borrow; `isOverflow`
is "out of the signed range"; `isCarryC` is exact except in one case each, which the
theorems name: all ones + all ones + 1, whose carry it misses, and a - all ones - 1,
whose borrow it misses for every a. From these, for words of every width and programs of every
length, the four properties of `FlagPrograms`: `SumsAreExact` (adds, adc), `BranchesCompareSigned`,
`BranchesTellTheBorrow`, and `DifferencesMiss` (subs, sbc, and by how much). The invariant
`Sound` says what outlives an instruction: as long as only the first has set the flags they tell
of *its* operands, whatever ran in between, and the registers that carry them are as it left them.

**Decoders** (`InstructionProofs`), from `DecodingAssumption` (words below 2^28, halfwords below
2^16). The run `decoding` tries every halfword but only a sample of the ARM words; the four theorems
`DecodedRegistersExist`, `DecodedFieldsRebuildTheWord`, `DecodersIgnoreIgnoredBits` and
`NoWordShiftsIllegally` are about all of them. `DecodingInv` is only that the result is what the word
decodes to; the work is in the words. For each format a lemma writes a word as the sum of the fields of the
format (`...Sum`) and another finds that the assembler adds up the same sum (`...Rebuilds`); `HighWords`,
`LowWords` and `Halfwords` say which format the tests choose, and with which bits. In the formats that ignore bits
the assembled word is another one than the word decoded, and it is shown to pass all the tests
before it: the register-shifted operand (`DataByRegisterParses`), mrs and the two kinds of msr
(`PSRParses`), push and pop, and the THUMB b.

Only model-checked:

* `FaultsAreResolved`: liveness is out of the prover's reach.
* `GuestArithmetic`: `TypeOK`, `ShiftsByPlaces` and `THUMBMatchesARM`. The bitwise opcodes are sets of the
  places of a word (`BitsOf`, `WordOf`), and what a set of places is worth is a sum over the set: that
  it is a word, or what a shift does to it, needs induction over places.

## 5. Where the code departs from what is written about it

Shown by a run: interrupts entered in THUMB state (`guest_interrupt_state`),
`ClearMemoryRegion` (`memory_clear`), THUMB opcodes (`thumb_twins`).
`GuestArithmetic!Diverges` lists the six cases in which a THUMB opcode differs, and
`THUMBMatchesARM` holds in all others: adc with the carry clear is an asr; asr fills with zeroes where
`int` is wide; ror fills with bits of the literal 32; neg sets neither carry nor overflow; lsl by more
than a word clears the carry, which the ARM one leaves; and a shift register of 256 or more counts
whole (`alu_operation_thumb.go:74-141`), where the ARM shifter takes its low byte (`shift.go:141`): with
0x100, a THUMB lsr gives 0 and a clear carry, an ARM one the value and the carry there were.

Also, as a property that holds: `sub` and `sbc` do not subtract two-word numbers, although `README.md:8` of the
repository calls the instruction sets complete. `sub` leaves the borrow in the carry and `sbc`
(`data_processing_operations.go:83`) computes a - b + carry - 1, so the high word is one too
large after a borrow and one too small without (`DifferencesAreOffByOne`).

Met while modelling, modelled as the code has them, and left out of the properties:

* `emulate.go:50`: a data-processing write to r15 with the S bit writes r15 before
  it looks for an SPSR, so that the error leaves the pc changed although line 50
  calls the switch atomic. `FailuresKeepControl` is about mode, masks and SPSRs only.
* `processor.go:380`: interrupts are not masked on entry, so a second one before the
  handler has saved lr and SPSR loses the first return address. `SavingHandlersReturn`
  is about handlers that were not exposed in this way (`frames[i].exposed`).
* `memory_management.go:173`: data that ends on a page boundary also maps the next
  page; line 160: data that ends at the last address is refused. `FlatMemory` allows both.
* `condition.go:43-46`: gt and le test Z the wrong way round; `SignedBranches` is
  about eq, ne, ge and lt.
* `utility_functions.go:42`: the carry out of all ones + all ones + 1 is lost;
  `SumsOfTwoWords` excludes it.
* `data_processing_operations.go:88` (also 77, 82 and the THUMB adc and sbc): the
  overflow is computed with the carry the same instruction has just stored.
* `emulate.go:34`: the shifter stores its carry before adc and sbc read theirs.
* `shift.go`: a left shift by more than a word leaves the carry as it was.
* `coprocessor.go:7` says that all coprocessors with the number of the opcode are called;
  `emulate.go` (513-584) calls the first and stops. A coprocessor instruction that finds none
  does nothing and succeeds, but `ldc` and `stc` write their base back.
* `emulate.go:299`: the shifted offset of ldr and str sets the carry, on the ARM it does
  not; it does so before the access can fail, so an `rrx` offset or a condition on the
  carry is another one when the instruction is run again. `Restartable` leaves these out of
  `RetriesAreInvisible` and `FaultsAreResolved`.
* `emulate.go:446`, `emulate_thumb.go:436`: a load multiple with its base in the list has
  lost the base when it faults after loading it; `Restartable` leaves it out too. When they succeed the ARM form keeps the
  loaded base and the THUMB form overwrites it with the end of the block.
* `emulate.go:344`, `355`: r15 as a base with write-back is noticed after the transfer is
  done; halfword transfers do not notice it at all.
* `emulate_thumb.go:363`: pop never writes the stack pointer. `StoresComeBack` and
  `THUMBTransfersMatchARM` state what pop does load, and leave sp out.
* `emulate.go:261`: a halfword transfer with S or an unset H bit stores a halfword; a load with
  neither loads a byte.
* `processor.go:481`: a THUMB word that does not decode has moved the pc; an ARM word has not.
* Decoders: a register-shifted operand ignores bit 7, so reserved words decode as data
  processing; bit 19 alone tells mrs and msr from tst, teq, cmp, cmn without the S bit; the
  immediate of an msr is read only where bit 16 is clear, and otherwise its low nibble names a
  register; push and pop ignore bits 10 and 9, and a THUMB b bit 11. The bits a format does look
  at are the `LookedAt` of `InstructionDecoding`.

## 6. Not modelled yet, and the plan

Done in this order: registers and host calls, control instructions, nesting, cache,
memory, arithmetic, transfers with multiplies and coprocessors, decoding. To follow:

1. **The whole machine**: fetch through the cache and the decoders from a memory that the
   guest changes. Each interface is checked on its own side: the cache is transparent for any decoder
   (proved), decoding depends on the word alone, and the cache is looked up by words and not by
   addresses, so self-modifying code is seen.

Not to be modelled: the disassembler (`String` methods and `PendingInstructionString`, wording
only), `doc.go`, tests, coprocessors of the host's own.

## 7. Running

    tlc -config MCMemory.cfg MCMemory        # any run of PROJECT.json
    tlapm ProcessorProofs.tla                # any module of theorems
