----------------------- MODULE ArithmeticInstructions -----------------------
(***************************************************************************)
(* What the arithmetic and logical instructions compute: the ARM opcodes   *)
(* and their second operand (src/data_processing_operations.go,            *)
(* src/emulate.go), the THUMB ALU opcodes (src/alu_operation_thumb.go),    *)
(* the other THUMB arithmetic formats (src/emulate_thumb.go) and the       *)
(* conditions (src/condition.go).                                          *)
(*                                                                         *)
(* An opcode handler takes the two operands and the flags and yields       *)
(*   [result |-> word, flags |-> flags, write |-> BOOLEAN],                *)
(* write being FALSE for a comparison.  Registers are left to the callers; *)
(* r15 as an operand is ControlInstructions' matter.                       *)
(***************************************************************************)
EXTENDS Shifter

CONSTANT WideInt        \* TRUE where Go's int has 64 bits, FALSE where 32

ASSUME WideIntAssumption == WideInt \in BOOLEAN

FlagSets == [n : BOOLEAN, z : BOOLEAN, c : BOOLEAN, v : BOOLEAN]

Complement(a) == AllOnes - a

\* A word as the set of the places where it has a one, and back: what Go's
\* &, |, ^ and &^ do to words, they do as set operations to these.
Places == 0 .. (WordBits - 1)

BitsOf(a)  == {n \in Places : Bit(a, n)}
WordOf(ns) == CHOOSE a \in Words : BitsOf(a) = ns

\* SetZero and SetNegative, the last thing every handler does.
ResultFlags(flags, result) ==
    [flags EXCEPT !.z = (result = 0), !.n = Sign(result)]

Handled(result, flags, write) ==
    [result |-> result, flags |-> ResultFlags(flags, result), write |-> write]

-----------------------------------------------------------------------------
\* ARMCondition.IsMet.  "al" is 14; 15, "nv", is never met.

Conditions == {"eq", "ne", "cs", "cc", "mi", "pl", "vs", "vc", "hi", "ls",
               "ge", "lt", "gt", "le", "al", "nv"}

IsMet(condition, flags) ==
    CASE condition = "al" -> TRUE
      [] condition = "eq" -> flags.z
      [] condition = "ne" -> ~flags.z
      [] condition = "cs" -> flags.c
      [] condition = "cc" -> ~flags.c
      [] condition = "mi" -> flags.n
      [] condition = "pl" -> ~flags.n
      [] condition = "vs" -> flags.v
      [] condition = "vc" -> ~flags.v
      [] condition = "hi" -> flags.c /\ ~flags.z
      [] condition = "ls" -> ~flags.c \/ flags.z
      [] condition = "ge" -> flags.n = flags.v
      [] condition = "lt" -> flags.n # flags.v
      [] condition = "gt" -> flags.z /\ flags.n = flags.v
      [] condition = "le" -> ~flags.z \/ flags.n # flags.v
      [] condition = "nv" -> FALSE

-----------------------------------------------------------------------------
\* Handlers both instruction sets have

WithCV(flags, carry, overflow) == [flags EXCEPT !.c = carry, !.v = overflow]

Logical(opcode, a, b) ==
    CASE opcode \in {"and", "tst"} -> WordOf(BitsOf(a) \intersect BitsOf(b))
      [] opcode \in {"eor", "teq"} ->
            WordOf((BitsOf(a) \ BitsOf(b)) \union (BitsOf(b) \ BitsOf(a)))
      [] opcode = "orr" -> WordOf(BitsOf(a) \union BitsOf(b))
      [] opcode = "bic" -> WordOf(BitsOf(a) \ BitsOf(b))
      [] opcode = "mov" -> b
      [] opcode = "mvn" -> Complement(b)

Add(a, b, flags, write) ==
    Handled(Plus(a, b), WithCV(flags, isCarry(a, b, FALSE), isOverflow(a, b, FALSE)), write)

Subtract(a, b, flags, write) ==
    Handled(Minus(a, b), WithCV(flags, isCarry(a, b, TRUE), isOverflow(a, b, TRUE)), write)

\* Faulty variant: the result, too, uses the carry the handler has just set.
AddCarryLate(a, b, flags) ==
    LET carry == isCarryC(a, b, flags.c, FALSE)
    IN  Handled(Plus(Plus(a, b), CarryValue(carry)),
                WithCV(flags, carry, isOverflowC(a, b, carry, FALSE)), TRUE)

\* isOverflowC is called once SetCarry has been, so it reads the new carry.
AddCarry(a, b, flags) ==
    LET carry == isCarryC(a, b, flags.c, FALSE)
    IN  Handled(Plus(Plus(a, b), CarryValue(flags.c)),
                WithCV(flags, carry, isOverflowC(a, b, carry, FALSE)), TRUE)

\* Faulty variant: the borrow is subtracted, and the 1 left out.
SubtractCarryBorrow(a, b, flags) ==
    LET carry == isCarryC(a, b, flags.c, TRUE)
    IN  Handled(Minus(Minus(a, b), CarryValue(flags.c)),
                WithCV(flags, carry, isOverflowC(a, b, carry, TRUE)), TRUE)

SubtractCarry(a, b, flags) ==
    LET carry == isCarryC(a, b, flags.c, TRUE)
    IN  Handled(Minus(Minus(a, b), 1 - CarryValue(flags.c)),
                WithCV(flags, carry, isOverflowC(a, b, carry, TRUE)), TRUE)

-----------------------------------------------------------------------------
\* ARM: ARMDataProcessingOpcode.Evaluate

Comparisons == {"tst", "teq", "cmp", "cmn"}

ARMOpcodes == {"and", "eor", "sub", "rsb", "add", "adc", "sbc", "rsc",
               "orr", "mov", "bic", "mvn"} \union Comparisons

Evaluate(opcode, a, b, flags) ==
    CASE opcode \in {"add", "cmn"} -> Add(a, b, flags, opcode = "add")
      [] opcode \in {"sub", "cmp"} -> Subtract(a, b, flags, opcode = "sub")
      [] opcode = "rsb" -> Subtract(b, a, flags, TRUE)
      [] opcode = "adc" -> AddCarry(a, b, flags)
      [] opcode = "sbc" -> SubtractCarry(a, b, flags)
      [] opcode = "rsc" -> SubtractCarry(b, a, flags)
      [] OTHER -> Handled(Logical(opcode, a, b), flags, opcode \notin Comparisons)

(***************************************************************************)
(* DataProcessingInstruction.evaluateSecondOperand: an immediate is        *)
(* rotated by twice its rotate field, its two parts having no bit in       *)
(* common, and leaves the carry alone; a register goes through the         *)
(* shifter, which sets it, or refuses to shift by r15 (~CanEvaluate).      *)
(***************************************************************************)
Immediates(values, rotates) == [immediate : {TRUE}, value : values, rotate : rotates]

ShiftedRegisters(types, amounts) ==
    [immediate : {FALSE}, type : types, byRegister : {FALSE}, amount : amounts]

RegisterShifts(types, registers) ==
    [immediate : {FALSE}, type : types, byRegister : {TRUE}, register : registers]

CanEvaluate(operand) == ~operand.immediate => CanApply(operand)

SecondOperand(operand, rm, rs, carry) ==
    IF operand.immediate
      THEN Kept(ShiftRight(operand.value, 2 * operand.rotate)
                    + ShiftLeft(operand.value, WordBits - 2 * operand.rotate), carry)
    ELSE Apply(operand, rm, rs, carry)

(***************************************************************************)
(* DataProcessingInstruction.Emulate for a destination other than r15 and  *)
(* an operand that can be evaluated.  rs is the word of the shift register.*)
(* The opcode handler runs on the flags the shifter left; a clear S bit    *)
(* puts the flags the instruction started with back.                       *)
(***************************************************************************)
DataProcessing(d, rn, rm, rs, flags) ==
    LET operand2  == SecondOperand(d.operand, rm, rs, flags.c)
        evaluated == Evaluate(d.opcode, rn, operand2.value, [flags EXCEPT !.c = operand2.carry])
    IN  IF d.s THEN evaluated ELSE [evaluated EXCEPT !.flags = flags]

-----------------------------------------------------------------------------
\* THUMB: ALUOpcodeTHUMB.Evaluate

ALUOpcodes == {"and", "eor", "lsl", "lsr", "asr", "adc", "sbc", "ror",
               "tst", "neg", "cmp", "cmn", "orr", "mul", "bic", "mvn"}

\* The amount is the whole register b, not its low byte.
LeftALU(a, b, flags) ==
    IF b = 0 THEN Kept(a, flags.c)
    ELSE IF b > WordBits THEN Kept(0, FALSE)
    ELSE [value |-> ShiftLeft(a, b), carry |-> Bit(a, WordBits - b)]

RightALU(a, b, flags) ==
    IF b = 0 THEN Kept(a, flags.c)
    ELSE IF b > WordBits THEN Kept(0, FALSE)
    ELSE [value |-> ShiftRight(a, b), carry |-> Bit(a, b - 1)]

\* int(a) is a uint32 in a 64-bit int, so that its sign bit is clear.
ArithRightALU(a, b, flags) ==
    IF b = 0 THEN Kept(a, flags.c)
    ELSE IF b >= WordBits
      THEN [value |-> IF Sign(a) THEN AllOnes ELSE 0, carry |-> Sign(a)]
    ELSE [value |-> IF WideInt THEN ShiftRight(a, b) ELSE ShiftRightArith(a, b),
          carry |-> Bit(a, b - 1)]

\* The part that comes in from the right is the literal 32, shifted; it is
\* below 2^(32 - places) and so has no bit in common with the other.
RotateALU(a, b, flags) ==
    IF b = 0 THEN Kept(a, flags.c)
    ELSE LET places  == Reduced(b)
             rotated == ShiftLeft(a, WordBits - places) + ShiftRight(WordBits, places)
         IN  [value |-> rotated, carry |-> Sign(rotated)]

ALUShift(opcode, a, b, flags) ==
    CASE opcode = "lsl" -> LeftALU(a, b, flags)
      [] opcode = "lsr" -> RightALU(a, b, flags)
      [] opcode = "ror" -> RotateALU(a, b, flags)
      [] opcode \in {"asr", "adc"} -> ArithRightALU(a, b, flags)

\* An adc with the carry clear falls through to asr.
EvaluateALU(opcode, a, b, flags) ==
    CASE opcode \in {"lsl", "lsr", "asr", "ror"} \/ (opcode = "adc" /\ ~flags.c) ->
            LET s == ALUShift(opcode, a, b, flags)
            IN  Handled(s.value, [flags EXCEPT !.c = s.carry], TRUE)
      [] opcode = "adc" /\ flags.c -> AddCarry(a, b, flags)
      [] opcode = "sbc" -> SubtractCarry(a, b, flags)
      [] opcode = "neg" -> Handled(Minus(0, b), flags, TRUE)
      [] opcode = "mul" -> Handled((a * b) % WordValues, flags, TRUE)
      [] opcode = "cmp" -> Subtract(a, b, flags, FALSE)
      [] opcode = "cmn" -> Add(a, b, flags, FALSE)
      [] OTHER -> Handled(Logical(opcode, a, b), flags, opcode # "tst")

-----------------------------------------------------------------------------
\* THUMB: the formats with an opcode of their own

\* Faulty variant: the offset 0 of lsr and asr is no special case.
MoveShiftedPlainly(operation, value, offset, flags) ==
    LET shifted == ShiftBy(operation, value, offset, TRUE, flags.c)
    IN  Handled(shifted.value, [flags EXCEPT !.c = shifted.carry], TRUE)

\* MoveShiftedRegisterInstruction.Emulate: the offset is 0 to WordBits - 1.
MoveShifted(operation, value, offset, flags) ==
    LET places  == IF offset = 0 THEN WordBits ELSE offset
        shifted ==
            CASE operation = "lsl" /\ offset = 0 -> Kept(value, flags.c)
              [] operation = "lsl" /\ offset # 0 ->
                    [value |-> ShiftLeft(value, offset), carry |-> Bit(value, WordBits - offset)]
              [] operation = "lsr" ->
                    [value |-> ShiftRight(value, places), carry |-> Bit(value, places - 1)]
              [] operation = "asr" ->
                    [value |-> ShiftRightArith(value, places), carry |-> Bit(value, places - 1)]
    IN  Handled(shifted.value, [flags EXCEPT !.c = shifted.carry], TRUE)

\* AddSubtractInstruction.Emulate
AddSubtract(subtract, start, difference, flags) ==
    IF subtract THEN Subtract(start, difference, flags, TRUE)
    ELSE Add(start, difference, flags, TRUE)

\* MoveCompareAddSubtractImmediateInstruction.Emulate
MoveCompareAddSubtract(operation, startValue, immediate, flags) ==
    CASE operation = "mov" -> Handled(immediate, flags, TRUE)
      [] operation = "cmp" -> Subtract(startValue, immediate, flags, FALSE)
      [] operation = "add" -> Add(startValue, immediate, flags, TRUE)
      [] operation = "sub" -> Subtract(startValue, immediate, flags, TRUE)

\* HighRegisterOperationInstruction.Emulate without its branch: only cmp sets
\* the flags.
HighRegister(operation, a, b, flags) ==
    CASE operation = "cmp" -> Subtract(a, b, flags, FALSE)
      [] operation = "add" -> [result |-> Plus(a, b), flags |-> flags, write |-> TRUE]
      [] operation = "mov" -> [result |-> b, flags |-> flags, write |-> TRUE]
=============================================================================
