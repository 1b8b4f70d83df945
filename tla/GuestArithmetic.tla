--------------------------- MODULE GuestArithmetic ---------------------------
(***************************************************************************)
(* A guest that fetches and executes arithmetic instructions of both       *)
(* instruction sets on two registers: r0, destination and first operand,   *)
(* and r1, second operand and shift amount.                                *)
(***************************************************************************)
EXTENDS ArithmeticInstructions

CONSTANTS
    ARMInstructions,    \* records [isa, condition, opcode, s, rm, operand]
    THUMBInstructions,  \* records of the formats below
    Nil                 \* no instruction fetched

VARIABLES regs, flags, pending

vars == <<regs, flags, pending>>

-----------------------------------------------------------------------------
\* The THUMB formats

ALUInstructions(opcodes) == [isa : {"ALU"}, opcode : opcodes]

MoveShiftedInstructions ==
    [isa : {"MoveShifted"}, operation : {"lsl", "lsr", "asr"}, offset : 0 .. (WordBits - 1)]

AddSubtractInstructions(immediates) ==
    [isa : {"AddSubtract"}, subtract : BOOLEAN, isImmediate : {FALSE}]
        \union [isa : {"AddSubtract"}, subtract : BOOLEAN, isImmediate : {TRUE},
                immediate : immediates]

MoveCompareInstructions(immediates) ==
    [isa : {"MoveCompare"}, operation : {"mov", "cmp", "add", "sub"}, immediate : immediates]

HighRegisterInstructions == [isa : {"HighRegister"}, operation : {"add", "cmp", "mov"}]

-----------------------------------------------------------------------------

\* The host may start the guest with any registers and flags.
Init == /\ regs \in [{0, 1} -> Words]
        /\ flags \in FlagSets
        /\ pending = Nil

Fetch == /\ pending = Nil
         /\ pending' \in ARMInstructions \union THUMBInstructions
         /\ UNCHANGED <<regs, flags>>

Ready(isa) == pending # Nil /\ pending.isa = isa

\* SetRegister of the destination, unless the handler compares.
Write(outcome) ==
    /\ regs' = IF outcome.write THEN [regs EXCEPT ![0] = outcome.result] ELSE regs
    /\ flags' = outcome.flags
    /\ pending' = Nil

RunDataProcessing ==
    /\ Ready("ARM")
    /\ IsMet(pending.condition, flags)
    /\ CanEvaluate(pending.operand)
    /\ Write(DataProcessing(pending, regs[0], regs[pending.rm], regs[1], flags))

\* The error of Apply is returned before anything is written.
RefuseDataProcessing ==
    /\ Ready("ARM")
    /\ IsMet(pending.condition, flags)
    /\ ~CanEvaluate(pending.operand)
    /\ pending' = Nil
    /\ UNCHANGED <<regs, flags>>

SkipDataProcessing ==
    /\ Ready("ARM")
    /\ ~IsMet(pending.condition, flags)
    /\ pending' = Nil
    /\ UNCHANGED <<regs, flags>>

RunALU ==
    /\ Ready("ALU")
    /\ Write(EvaluateALU(pending.opcode, regs[0], regs[1], flags))

RunMoveShifted ==
    /\ Ready("MoveShifted")
    /\ Write(MoveShifted(pending.operation, regs[0], pending.offset, flags))

RunAddSubtract ==
    /\ Ready("AddSubtract")
    /\ Write(AddSubtract(pending.subtract, regs[0],
                         IF pending.isImmediate THEN pending.immediate ELSE regs[1], flags))

RunMoveCompare ==
    /\ Ready("MoveCompare")
    /\ Write(MoveCompareAddSubtract(pending.operation, regs[0], pending.immediate, flags))

RunHighRegister ==
    /\ Ready("HighRegister")
    /\ Write(HighRegister(pending.operation, regs[0], regs[1], flags))

Next == \/ Fetch \/ RunDataProcessing \/ RefuseDataProcessing \/ SkipDataProcessing
        \/ RunALU \/ RunMoveShifted \/ RunAddSubtract \/ RunMoveCompare \/ RunHighRegister

Spec == Init /\ [][Next]_vars

-----------------------------------------------------------------------------
\* Properties

\* Registers hold words and the flags are flags: no handler forgets to wrap.
TypeOK == /\ regs \in [{0, 1} -> Words]
          /\ flags \in FlagSets
          /\ pending \in {Nil} \union ARMInstructions \union THUMBInstructions

Executed(isa) == Ready(isa) /\ pending' = Nil

(***************************************************************************)
(* A movs of a shifted register, when it runs, leaves in the register and  *)
(* the carry what shifting one place at a time would, for immediate        *)
(* amounts, their special case 0, and as many places as the low byte of a  *)
(* register says, words beyond the word included; only the carry of a left *)
(* shift by more than a word is not what was shifted out last but the      *)
(* carry there was (Apply, applyLSL, applyLSR, applyASR, applyROR).        *)
(***************************************************************************)
MovesShifted == Executed("ARM") /\ pending.opcode = "mov" /\ pending.s
                    /\ ~pending.operand.immediate /\ CanEvaluate(pending.operand)
                    /\ IsMet(pending.condition, flags)

PlacesOf(operand) ==
    IF operand.byRegister THEN regs[1] % AmountValues
    ELSE IF operand.amount = 0 /\ operand.type # "lsl" THEN WordBits
    ELSE operand.amount

ShiftMovesBits ==
    LET operand == pending.operand
        places  == PlacesOf(operand)
        shifted == ShiftByPlaces(operand.type, regs[pending.rm], places, flags.c)
        extends == operand.type = "ror" /\ ~operand.byRegister /\ operand.amount = 0
    IN  IF extends
          THEN /\ regs'[0] = regs[pending.rm] \div 2 + (IF flags.c THEN HalfSpace ELSE 0)
               /\ flags'.c = Bit(regs[pending.rm], 0)
        ELSE /\ regs'[0] = shifted.value
             /\ flags'.c = IF operand.type = "lsl" /\ places > WordBits THEN flags.c
                           ELSE shifted.carry

ShiftsByPlaces == [][MovesShifted => ShiftMovesBits]_vars

(***************************************************************************)
(* Every THUMB arithmetic instruction is short for an ARM one with the S   *)
(* bit set: Twin.  The two are written apart, in alu_operation_thumb.go    *)
(* and emulate_thumb.go on one side and data_processing_operations.go and  *)
(* shift.go on the other.                                                  *)
(***************************************************************************)
Plain == [immediate |-> FALSE, type |-> "lsl", byRegister |-> FALSE, amount |-> 0]
Constant(value) == [immediate |-> TRUE, value |-> value, rotate |-> 0]

ARM(opcode, operand) ==
    [opcode |-> opcode, s |-> TRUE, rn |-> regs[0], rm |-> regs[1], operand |-> operand]

Twin(i) ==
    CASE i.isa = "ALU" /\ i.opcode \in ShiftTypes ->
            [ARM("mov", [immediate |-> FALSE, type |-> i.opcode, byRegister |-> TRUE,
                         register |-> 1]) EXCEPT !.rm = regs[0]]
      [] i.isa = "ALU" /\ i.opcode = "neg" -> [ARM("rsb", Constant(0)) EXCEPT !.rn = regs[1]]
      [] i.isa = "ALU" /\ i.opcode \in ARMOpcodes -> ARM(i.opcode, Plain)
      [] i.isa = "MoveShifted" ->
            [ARM("mov", [immediate |-> FALSE, type |-> i.operation, byRegister |-> FALSE,
                         amount |-> i.offset]) EXCEPT !.rm = regs[0]]
      [] i.isa = "AddSubtract" ->
            ARM(IF i.subtract THEN "sub" ELSE "add",
                IF i.isImmediate THEN Constant(i.immediate) ELSE Plain)
      [] i.isa = "MoveCompare" -> ARM(i.operation, Constant(i.immediate))
      [] i.isa = "HighRegister" -> [ARM(i.operation, Plain) EXCEPT !.s = (i.operation = "cmp")]

ActsAs(d) ==
    LET twin == DataProcessing(d, d.rn, d.rm, regs[1], flags)
    IN  /\ regs'[0] = IF twin.write THEN twin.result ELSE regs[0]
        /\ flags' = twin.flags

THUMBExecuted == pending \in THUMBInstructions /\ pending' = Nil

\* Where the THUMB handler differs: adc with the carry clear is an asr; asr
\* fills with zeroes where int is wide; ror fills with bits of the literal 32;
\* neg sets no carry and no overflow; lsl beyond a word clears the carry; and
\* an amount of more than a byte is taken whole, where the ARM takes its low byte.
Diverges(i) ==
    i.isa = "ALU" /\ \/ i.opcode = "adc" /\ ~flags.c
                     \/ i.opcode = "asr" /\ WideInt /\ Sign(regs[0])
                            /\ regs[1] \in 1 .. (WordBits - 1)
                     \/ i.opcode = "ror" /\ regs[1] % WordBits # 0
                     \/ i.opcode = "neg"
                     \/ i.opcode = "lsl" /\ regs[1] > WordBits
                     \/ i.opcode \in ShiftTypes /\ regs[1] >= AmountValues

HasTwin(i) == ~(i.isa = "ALU" /\ i.opcode = "mul")

\* But for those, a THUMB instruction leaves the register and all four flags
\* as its ARM twin does.
THUMBMatchesARM ==
    [][THUMBExecuted /\ HasTwin(pending) /\ ~Diverges(pending) => ActsAs(Twin(pending))]_vars

\* alu_operation_thumb.go:14, of the THUMB Evaluate: "The THUMB equivalent of
\* ARMDataProcessingOpcode's evaluate function", for every opcode.
EveryTHUMBMatchesARM ==
    [][THUMBExecuted /\ HasTwin(pending) => ActsAs(Twin(pending))]_vars
=============================================================================
