--------------------------- MODULE GuestTransfers ---------------------------
(***************************************************************************)
(* A guest that moves data between registers, memory and coprocessors,     *)
(* and a host that maps memory on demand.  An instruction that touches a   *)
(* page that is not there returns an error from RunNextInstruction         *)
(* (src/processor.go) with part of its work done; a host that wants to go  *)
(* on maps a page, puts the pc back where it was and runs the instruction  *)
(* again, as it may after any error.  The host may also drop pages, add    *)
(* coprocessors and send interrupts between two instructions.              *)
(***************************************************************************)
EXTENDS THUMBTransfers

CONSTANTS
    Boots,              \* processors the host may start with
    Memories,           \* contents of the memory, as functions from cells
    Pages,              \* the pages the host may map
    Mappings,           \* sets of pages it may have mapped before it starts
    Devices,            \* sequences of coprocessors
    ARMInstructions,    \* instructions the guest may run: records whose field
    THUMBInstructions,  \* format names one of the operators above
    MaxSteps,           \* bound: instructions run
    MaxCoprocessors,    \* bound: coprocessors on the list
    Nil

-----------------------------------------------------------------------------
\* What the decoders yield, with the fields the methods look at

Registers    == 0 .. 15
LowRegisters == 0 .. 7

\* The combinations of registers parseMultiplyInstruction lets through.
CanMultiply(t) ==
    /\ 15 \notin {t.rdHigh, t.rm, t.rs} /\ t.rdHigh \notin {t.rm, t.rs}
    /\ t.format = "longMultiply" \/ t.accumulate => t.rdLow \notin {15, t.rdHigh}
    /\ IF t.format = "longMultiply" THEN t.rdLow # t.rm ELSE ~t.signed

ARMFormats ==
    [format : {"single"}, onCarry : BOOLEAN, load : BOOLEAN, byte : BOOLEAN,
     rd : Registers, rn : Registers, rm : Registers, immediate : BOOLEAN,
     offset : Nat, shift : Barrel!ShiftTypes, amount : Nat, byRegister : BOOLEAN,
     preindex : BOOLEAN, up : BOOLEAN, writeBack : BOOLEAN]
    \union
    [format : {"halfword"}, onCarry : BOOLEAN, load : BOOLEAN, halfword : BOOLEAN,
     signed : BOOLEAN, rd : Registers, rn : Registers, rm : Registers,
     immediate : BOOLEAN, offset : Nat, preindex : BOOLEAN, up : BOOLEAN,
     writeBack : BOOLEAN]
    \union
    [format : {"swap"}, byte : BOOLEAN, rd : Registers, rm : Registers, rn : Registers]
    \union
    [format : {"block"}, load : BOOLEAN, rn : Registers, list : SUBSET Registers,
     preindex : BOOLEAN, up : BOOLEAN, writeBack : BOOLEAN, forceUser : BOOLEAN]
    \union
    {t \in [format : {"multiply", "longMultiply"}, signed : BOOLEAN, accumulate : BOOLEAN,
            s : BOOLEAN, rdHigh : Registers, rdLow : Registers, rm : Registers,
            rs : Registers] : CanMultiply(t)}
    \union
    [format : {"coprocOperation"}, number : Registers]
    \union
    [format : {"coprocTransfer"}, load : BOOLEAN, rn : Registers, number : Registers,
     offset : Nat, preindex : BOOLEAN, up : BOOLEAN, writeBack : BOOLEAN]
    \union
    [format : {"coprocRegister"}, load : BOOLEAN, rd : Registers, number : Registers]

THUMBFormats ==
    [format : {"pcRelative"}, rd : LowRegisters, offset : Nat]
    \union
    [format : {"registerOffset"}, load : BOOLEAN, byte : BOOLEAN, rd : LowRegisters,
     rb : LowRegisters, ro : LowRegisters]
    \union
    [format : {"signExtended"}, signExtend : BOOLEAN, halfword : BOOLEAN,
     rd : LowRegisters, rb : LowRegisters, ro : LowRegisters]
    \union
    [format : {"immediateOffset"}, load : BOOLEAN, byte : BOOLEAN, rd : LowRegisters,
     rb : LowRegisters, offset : Nat]
    \union
    [format : {"halfwordOffset"}, load : BOOLEAN, rd : LowRegisters,
     rb : LowRegisters, offset : Nat]
    \union
    [format : {"spRelative"}, load : BOOLEAN, rd : LowRegisters, offset : Nat]
    \union
    [format : {"loadAddress"}, loadSP : BOOLEAN, rd : LowRegisters, offset : Nat]
    \union
    [format : {"addToSP"}, negative : BOOLEAN, offset : Nat]
    \union
    [format : {"pushPop"}, load : BOOLEAN, list : SUBSET LowRegisters, extra : BOOLEAN]
    \union
    [format : {"multiple"}, load : BOOLEAN, rb : LowRegisters, list : SUBSET LowRegisters]
    \union
    [format : {"branchHigh", "branchLow"}, offset : 0 .. (2^BranchBits - 1)]

Coprocessors == [number : Nat, register : Word]

\* SetMode and SetCPSR leave no processor in an undefined mode; the memory has
\* the words of every page the host may map.
ASSUME GuestAssumption ==
    /\ \A q \in Boots : q \in Processors /\ q.cpsr.mode \in ValidModes
    /\ \A c \in Memories :
          /\ c \in [DOMAIN c -> Word]
          /\ \A a \in Word : a \div PageSize \in Pages => Cell(a) \in DOMAIN c
    /\ Mappings \subseteq SUBSET Pages
    /\ Devices \subseteq Seq(Coprocessors)
    /\ ARMInstructions \subseteq ARMFormats
    /\ THUMBInstructions \subseteq THUMBFormats
    /\ MaxSteps \in Nat

-----------------------------------------------------------------------------

VARIABLES
    p,                  \* the processor
    cells,              \* the words of the memory
    mapped,             \* the pages that exist
    coprocessors,
    pending,            \* an instruction that failed for want of a page, or Nil
    call,               \* the first half of a bl that has run, or Nil
    last,               \* the instruction this step ran and its error, or Nil
    steps

vars == <<pending, call, last, steps, mapped, coprocessors, p, cells>>

machine == [p |-> p, cells |-> cells, mapped |-> mapped,
            coprocessors |-> coprocessors]

Init ==
    /\ p \in Boots
    /\ cells \in Memories
    /\ mapped \in Mappings
    /\ coprocessors \in Devices
    /\ pending = Nil
    /\ call = Nil
    /\ last = Nil
    /\ steps = 0

-----------------------------------------------------------------------------
\* RunNextInstruction

Emulate(g, t) ==
    CASE t.format = "single"           -> SingleDataTransfer(g, t)
      [] t.format = "halfword"         -> HalfwordDataTransfer(g, t)
      [] t.format = "swap"             -> SingleDataSwap(g, t)
      [] t.format = "block"            -> BlockTransfer(g, t)
      [] t.format = "multiply"         -> Multiply(g, t)
      [] t.format = "longMultiply"     -> LongMultiply(g, t)
      [] t.format = "coprocOperation"  -> CoprocDataOperation(g, t)
      [] t.format = "coprocTransfer"   -> CoprocDataTransfer(g, t)
      [] t.format = "coprocRegister"   -> CoprocRegisterTransfer(g, t)
      [] t.format = "pcRelative"       -> PcRelativeLoad(g, t)
      [] t.format = "registerOffset"   -> LoadStoreRegisterOffset(g, t)
      [] t.format = "signExtended"     -> LoadStoreSignExtendedHalfword(g, t)
      [] t.format = "immediateOffset"  -> LoadStoreImmediateOffset(g, t)
      [] t.format = "halfwordOffset"   -> LoadStoreHalfword(g, t)
      [] t.format = "spRelative"       -> SPRelativeLoadStore(g, t)
      [] t.format = "loadAddress"      -> LoadAddress(g, t)
      [] t.format = "addToSP"          -> AddToStackPointer(g, t)
      [] t.format = "pushPop"          -> PushPopRegisters(g, t)
      [] t.format = "multiple"         -> MultipleLoadStore(g, t)
      [] t.format = "branchHigh"       -> LongBranchHigh(g, t)
      [] t.format = "branchLow"        -> LongBranchLow(g, t)

\* A fetch that fails has changed nothing.  An ARM instruction whose condition
\* is not met does nothing else.
RunNextInstruction(g, t) ==
    LET fetched == [g EXCEPT !.p = Fetched(@)]
        skipped == "onCarry" \in DOMAIN t /\ t.onCarry /\ ~g.p.cpsr.c
    IN  IF ~Mapped(g, PC(g.p)) THEN Stop(g)
        ELSE IF skipped THEN Complete(fetched)
        ELSE Emulate(fetched, t)

Becomes(g) ==
    p' = g.p /\ cells' = g.cells /\ mapped' = g.mapped /\ coprocessors' = g.coprocessors

\* What the instruction would do if every page of Pages were there.
Unhindered(g, t) == RunNextInstruction([g EXCEPT !.mapped = Pages], t)

\* After the instruction t, run by a machine whose pc was at.  A second half that
\* cannot be fetched leaves the call half-made; any other instruction ends it, also
\* when it fails (it may have loaded lr by then).
CallAfter(t, result, at) ==
    CASE ~result.ok /\ t.format = "branchLow"  -> call
      [] result.ok /\ t.format = "branchHigh"  ->
             [pc |-> at, mode |-> p.cpsr.mode, offset |-> t.offset]
      [] OTHER                                 -> Nil

Runs(t) ==
    /\ pending = Nil
    /\ steps < MaxSteps \/ (call # Nil /\ t.format = "branchLow")
    /\ LET result == RunNextInstruction(machine, t)
           goal   == Unhindered(machine, t)
       IN  /\ Becomes(result.m)
           /\ pending' = IF ~result.ok /\ goal.ok
                           THEN [instruction |-> t, pc |-> PC(p), goal |-> goal.m]
                           ELSE Nil
           /\ call' = CallAfter(t, result, PC(p))
           /\ last' = [instruction |-> t, ok |-> result.ok]
    /\ steps' = IF steps < MaxSteps THEN steps + 1 ELSE steps

RunARM   == ~p.cpsr.thumb /\ \E t \in ARMInstructions : Runs(t)
RunTHUMB == p.cpsr.thumb /\ \E t \in THUMBInstructions : Runs(t)

-----------------------------------------------------------------------------
\* The host

\* SetMemoryRegion on one page.
MapPage ==
    /\ pending # Nil
    /\ \E page \in Pages \ mapped : mapped' = mapped \union {page}
    /\ UNCHANGED <<p, cells, coprocessors, pending, call, steps>>
    /\ last' = Nil

Retry ==
    /\ pending # Nil
    /\ \E result \in {RunNextInstruction(Put(machine, 15, pending.pc),
                                         pending.instruction)} :
          /\ Becomes(result.m)
          /\ pending' = IF result.ok THEN Nil ELSE pending
          /\ call' = CallAfter(pending.instruction, result, pending.pc)
          /\ last' = [instruction |-> pending.instruction, ok |-> result.ok]
    /\ UNCHANGED steps

\* Bound: of the moments between two instructions the host takes the one that
\* matters, between the halves of a bl.
BetweenHalves == pending = Nil /\ call # Nil

\* ClearMemoryRegion on one page, whose words the host keeps.
UnmapPage ==
    /\ BetweenHalves
    /\ \E page \in mapped : mapped' = mapped \ {page}
    /\ last' = Nil
    /\ UNCHANGED <<p, cells, coprocessors, pending, call, steps>>

\* A new coprocessor comes last.
AddCoprocessor ==
    /\ BetweenHalves
    /\ Len(coprocessors) < MaxCoprocessors
    /\ \E number \in 1 .. 2 :
          coprocessors' = Append(coprocessors, [number |-> number, register |-> 0])
    /\ last' = Nil
    /\ UNCHANGED <<p, cells, mapped, pending, call, steps>>

\* Bound: not in the host's own handler.
HostIRQ ==
    /\ BetweenHalves
    /\ p.cpsr.mode # irqMode
    /\ p' = SendIRQ(p).p
    /\ last' = Nil
    /\ UNCHANGED <<cells, mapped, coprocessors, pending, call, steps>>

\* The handler of an interrupt that came between the halves overwrites the sp of
\* its bank and returns by subs pc, lr, #4 (it has left THUMB state, if it was
\* entered in it).
HandlerReturns ==
    /\ BetweenHalves
    /\ p.cpsr.mode = irqMode /\ call.mode # irqMode
    /\ LET used == SetRegister(p, 13, 0).p
           back == (GetRegister(used, 14).value - 4) % WordSpace
       IN  p' = DataProcessing(used, [rd |-> 15, result |-> back, flags |-> ZeroStatus,
                                      writes |-> TRUE, s |-> TRUE]).p
    /\ last' = Nil
    /\ UNCHANGED <<cells, mapped, coprocessors, pending, call, steps>>

Host == MapPage \/ Retry \/ UnmapPage \/ AddCoprocessor \/ HostIRQ \/ HandlerReturns

Next == RunARM \/ RunTHUMB \/ Host

\* A host that goes on after an error does not stop half-way: it maps pages and
\* runs the instruction again, in any order, as long as either changes anything.
\* The guest owes nothing.
HostFairness == WF_vars(MapPage \/ Retry)

Spec == Init /\ [][Next]_vars /\ HostFairness

-----------------------------------------------------------------------------
\* Properties

Calls == [pc : Word, mode : ValidModes, offset : 0 .. (2^BranchBits - 1)]

TypeOK ==
    /\ p \in Processors
    /\ \E c \in Memories : cells \in [DOMAIN c -> Word]
    /\ mapped \subseteq Pages
    /\ \A k \in DOMAIN coprocessors : coprocessors[k].register \in Word
    /\ call \in Calls \union {Nil}
    /\ pending # Nil => pending.pc \in Word /\ pending.goal.p \in Processors
    /\ steps \in 0 .. MaxSteps

\* What makes an instruction impossible to run twice: it loads its own base, or
\* its operands depend on the carry its shifter sets before the access.
Restartable(t) ==
    CASE t.format = "block"    -> ~t.load \/ t.rn \notin t.list
      [] t.format = "multiple" -> ~t.load \/ t.rb \notin t.list
      [] t.format = "single"   ->
             t.immediate \/ ~(t.onCarry \/ (t.shift = "ror" /\ t.amount = 0))
      [] OTHER                 -> TRUE

\* An error of RunNextInstruction for want of memory loses nothing: when the
\* host has mapped the pages and runs the instruction again, registers, memory
\* and coprocessors are as if the pages had always been there, however many
\* times it failed and wherever in a block.
RetriesAreInvisible ==
    [][Retry /\ last'.ok /\ Restartable(pending.instruction)
          => /\ p' = pending.goal.p
             /\ cells' = pending.goal.cells
             /\ coprocessors' = pending.goal.coprocessors]_vars

\* A host that maps pages and runs the instruction again gets past it: no
\* Emulate fails for ever because of what its own failures left behind.
FaultsAreResolved ==
    (pending # Nil /\ Restartable(pending.instruction)) ~> (pending = Nil)

\* Of a block the lowest register goes to or comes from the lowest address,
\* in the bank the S bit chooses, for all four addressing modes of ldm and stm.
BlocksAscend ==
    [][LET t == last'.instruction
       IN  pending = Nil /\ last' # Nil /\ last'.ok /\ t.format = "block" =>
             LET q      == Fetched(p)
                 base   == GetRegister(q, t.rn).value
                 lowest == IF t.up THEN base + (IF t.preindex THEN 4 ELSE 0)
                           ELSE base - 4 * Cardinality(t.list)
                                     + (IF t.preindex THEN 0 ELSE 4)
                 bank   == IF t.forceUser /\ ~(t.load /\ 15 \in t.list)
                             THEN userMode ELSE q.cpsr.mode
             IN  \A n \in t.list :
                   LET below == Cardinality({k \in t.list : k < n})
                       cell  == Cell((lowest + 4 * below) % WordSpace)
                       slot  == RegisterSlot(bank, n)
                   IN  IF t.load THEN p'.regs[slot] = cells[cell]
                       ELSE cells'[cell] = q.regs[slot]]_vars

\* The processor with the registers of list lost.
Without(q, bank, list) ==
    [q EXCEPT !.regs = [s \in Slots |->
        IF s \in {RegisterSlot(bank, n) : n \in list} THEN 0 ELSE @[s]]]

\* What a stm has stored, and its base, come back by the ldm that undoes it: the
\* same one without write-back, the opposite one with it (stmdb sp!, ldmia sp!).
\* What a THUMB push has stored comes back by a pop, which returns to the lr.
StoresComeBack ==
    [][LET t == last'.instruction
           q == Fetched(p)
       IN  pending = Nil /\ last' # Nil /\ last'.ok =>
             /\ t.format = "block" /\ ~t.load /\ {15, t.rn} \intersect t.list = {} =>
                  LET undo == [t EXCEPT !.load = TRUE, !.up = (@ # t.writeBack),
                                        !.preindex = (@ # t.writeBack)]
                      bank == IF t.forceUser THEN userMode ELSE q.cpsr.mode
                      lost == [machine' EXCEPT !.p = Without(@, bank, t.list)]
                  IN  BlockTransfer(lost, undo).m.p = q
             /\ t.format = "pushPop" /\ ~t.load =>
                  LET lost   == [machine' EXCEPT !.p = Without(@, userMode, t.list)]
                      popped == PushPopRegisters(lost, [t EXCEPT !.load = TRUE])
                      back   == IF t.extra THEN Put(machine, 15, Reg(machine, 14))
                                ELSE [machine EXCEPT !.p = q]
                  IN  popped.ok /\ Put(popped.m, 13, 0).p = Put(back, 13, 0).p]_vars

-----------------------------------------------------------------------------
\* The ARM instruction that each THUMB transfer stands for

Plain(t, rn, offset) ==
    [load |-> t.load, byte |-> "byte" \in DOMAIN t /\ t.byte, rd |-> t.rd, rn |-> rn,
     immediate |-> TRUE, offset |-> offset, rm |-> 0, shift |-> "lsl", amount |-> 0,
     byRegister |-> FALSE, preindex |-> TRUE, up |-> TRUE, writeBack |-> FALSE]

PlainHalf(load, halfword, signed, rd, rn, immediate, offset, rm) ==
    [load |-> load, halfword |-> halfword, signed |-> signed, rd |-> rd, rn |-> rn,
     immediate |-> immediate, offset |-> offset, rm |-> rm,
     preindex |-> TRUE, up |-> TRUE, writeBack |-> FALSE]

Block(load, rn, list, up, writeBack) ==
    [load |-> load, rn |-> rn, list |-> list, up |-> up, preindex |-> ~up,
     writeBack |-> writeBack, forceUser |-> FALSE]

Twin(g, t) ==
    CASE t.format = "registerOffset"  ->
           SingleDataTransfer(g, [Plain(t, t.rb, 0) EXCEPT !.immediate = FALSE, !.rm = t.ro])
      [] t.format = "immediateOffset" ->
           SingleDataTransfer(g, Plain(t, t.rb, IF t.byte THEN t.offset ELSE 4 * t.offset))
      [] t.format = "spRelative"      -> SingleDataTransfer(g, Plain(t, 13, 4 * t.offset))
      [] t.format = "signExtended"    ->
           HalfwordDataTransfer(g, PlainHalf(t.signExtend \/ t.halfword,
               t.halfword \/ ~t.signExtend, t.signExtend, t.rd, t.rb, FALSE, 0, t.ro))
      [] t.format = "halfwordOffset"  ->
           HalfwordDataTransfer(g, PlainHalf(t.load, TRUE, FALSE, t.rd, t.rb, TRUE,
                                             2 * t.offset, 0))
      [] t.format = "pushPop"         ->
           BlockTransfer(g, Block(t.load, 13,
               t.list \union (IF ~t.extra THEN {} ELSE IF t.load THEN {15} ELSE {14}),
               t.load, ~t.load))
      [] t.format = "multiple"         -> BlockTransfer(g, Block(t.load, t.rb, t.list, TRUE, TRUE))
      [] t.format = "pcRelative"      ->
           LET load == [load |-> TRUE, rd |-> t.rd]
           IN  SingleDataTransfer(LoadAddress(g, [loadSP |-> FALSE, rd |-> t.rd,
                                                  offset |-> t.offset]).m,
                                  Plain(load, t.rd, 0))

Twinned == {"registerOffset", "immediateOffset", "spRelative", "signExtended",
            "halfwordOffset", "pushPop", "multiple", "pcRelative"}

\* A THUMB load or store does, fails and stops half-way exactly as the ARM
\* instruction it abbreviates (pop as an ldmia that does not write the base back;
\* ldmia with its base in the list apart, where THUMB writes the base and ARM
\* does not), and adr gives the address a pc-relative ldr loads from.
THUMBTransfersMatchARM ==
    [][LET t    == last'.instruction
           twin == Twin([machine EXCEPT !.p = Fetched(p)], t)
       IN  /\ pending = Nil /\ last' # Nil
           /\ Mapped(machine, PC(p)) /\ t.format \in Twinned /\ Restartable(t)
           => /\ twin.ok = last'.ok
              /\ twin.ok \/ t.format # "pcRelative" => twin.m = machine']_vars

\* The two halves of a THUMB bl reach the target and leave the address after
\* them with bit 0 set (a bx may have left it set already), whatever happens
\* between them: faults of either fetch, pages dropped and mapped again,
\* interrupts and handlers that use their own bank.
CallsArrive ==
    [][LET t     == last'.instruction
           half  == 2^BranchBits
           both  == call.offset * half + t.offset
           jump  == IF 2 * call.offset >= half THEN both - half * half ELSE both
           after == (call.pc + 4) % WordSpace
       IN  /\ last' # Nil /\ last'.ok /\ call # Nil
           /\ t.format = "branchLow" /\ p.cpsr.mode = call.mode
           => /\ PC(p') = (call.pc + 4 + 2 * jump) % WordSpace
              /\ GetRegister(p', 14).value = (after + 1 - (after % 2)) % WordSpace
              /\ p'.cpsr = p.cpsr]_vars

\* The number in a pair of registers.
Pair(q, t) ==
    LET high == GetRegister(q, t.rdHigh).value
        low  == GetRegister(q, t.rdLow).value
    IN  (IF t.signed THEN Barrel!Signed(high) ELSE high) * WordSpace + low

\* Long multiplies are exact: the pair holds the product of the operands as
\* signed or unsigned integers, plus the number it held before, unless that
\* needs more than two words; N and Z describe it.
LongMultipliesAreExact ==
    [][LET t     == last'.instruction
           value(n) == LET x == GetRegister(p, n).value
                       IN  IF t.signed THEN Barrel!Signed(x) ELSE x
           exact == value(t.rm) * value(t.rs) + (IF t.accumulate THEN Pair(p, t) ELSE 0)
           least == IF t.signed THEN -((WordSpace * WordSpace) \div 2) ELSE 0
       IN  last' # Nil /\ last'.ok /\ t.format = "longMultiply" =>
             /\ exact \in least .. (least + WordSpace * WordSpace - 1)
                  => Pair(p', t) = exact
             /\ t.s => /\ p'.cpsr.z = (Pair(p', t) = 0)
                       /\ p'.cpsr.n = Barrel!Sign(GetRegister(p', t.rdHigh).value)]_vars
=============================================================================
