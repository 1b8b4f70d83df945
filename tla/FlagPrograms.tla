---------------------------- MODULE FlagPrograms ----------------------------
(***************************************************************************)
(* Guest programs in which flags set by one instruction are used by a      *)
(* later one: the sum and the difference of two-word numbers (add and adc, *)
(* sub and sbc), and a comparison followed by a conditional branch.        *)
(* Instructions that must not touch the flags run in between.              *)
(***************************************************************************)
EXTENDS ArithmeticInstructions

CONSTANTS
    BetweenOpcodes,     \* opcodes of the instructions in between
    BetweenWords,       \* and their operands
    BetweenAmounts,     \* and how far the second one is shifted left
    Nil                 \* not run yet

VARIABLES
    flags,
    first,      \* the instruction that set the flags: [isa, opcode, a, b, result]
    second,     \* adc or sbc: [isa, opcode, a, b, result]
    branch      \* the branch: [condition, taken]

vars == <<flags, first, second, branch>>

Runs == [isa : {"ARM", "THUMB"}, opcode : {"add", "sub", "cmp", "adc", "sbc"},
         a : Words, b : Words, result : Words]

ASSUME NilAssumption == Nil \notin Runs

-----------------------------------------------------------------------------

Shifted(amount) ==
    [immediate |-> FALSE, type |-> "lsl", byRegister |-> FALSE, amount |-> amount]

ARMSetting(opcode, a, b) ==
    DataProcessing([opcode |-> opcode, s |-> TRUE, operand |-> Shifted(0)], a, b, 0, flags)

Init == /\ flags \in FlagSets
        /\ first = Nil
        /\ second = Nil
        /\ branch = Nil

First(isa, opcode, a, b, outcome) ==
    /\ first = Nil
    /\ first' = [isa |-> isa, opcode |-> opcode, a |-> a, b |-> b,
                 result |-> outcome.result]
    /\ flags' = outcome.flags
    /\ UNCHANGED <<second, branch>>

RunFirstARM ==
    \E opcode \in {"add", "sub", "cmp"}, a, b \in Words :
        First("ARM", opcode, a, b, ARMSetting(opcode, a, b))

RunFirstTHUMB ==
    \/ \E subtract \in BOOLEAN, a, b \in Words :
            First("THUMB", IF subtract THEN "sub" ELSE "add", a, b,
                  AddSubtract(subtract, a, b, flags))
    \/ \E a, b \in Words : First("THUMB", "cmp", a, b, EvaluateALU("cmp", a, b, flags))

\* Its result goes to a register the program does not look at again.
RunBetween ==
    /\ first # Nil /\ second = Nil /\ branch = Nil
    /\ \/ \E opcode \in BetweenOpcodes, a, b \in BetweenWords, amount \in BetweenAmounts :
            flags' = DataProcessing([opcode |-> opcode, s |-> FALSE,
                                     operand |-> Shifted(amount)], a, b, 0, flags).flags
       \/ \E operation \in {"add", "mov"}, a, b \in BetweenWords :
            flags' = HighRegister(operation, a, b, flags).flags
    /\ UNCHANGED <<first, second, branch>>

CarryOpcode(opcode) == IF opcode = "add" THEN "adc" ELSE "sbc"

RunSecond(isa, a, b, outcome) ==
    /\ second' = [isa |-> isa, opcode |-> CarryOpcode(first.opcode), a |-> a, b |-> b,
                  result |-> outcome.result]
    /\ flags' = outcome.flags
    /\ UNCHANGED <<first, branch>>

ExpectsSecond(isa) == first # Nil /\ first.isa = isa /\ first.opcode # "cmp" /\ second = Nil

RunSecondARM ==
    /\ ExpectsSecond("ARM")
    /\ \E a, b \in Words :
            RunSecond("ARM", a, b, ARMSetting(CarryOpcode(first.opcode), a, b))

RunSecondTHUMB ==
    /\ ExpectsSecond("THUMB")
    /\ \E a, b \in Words :
            RunSecond("THUMB", a, b, EvaluateALU(CarryOpcode(first.opcode), a, b, flags))

\* BranchInstruction or ConditionalBranchInstruction: the pc moves if the
\* condition holds.
RunBranch ==
    /\ first # Nil /\ first.opcode = "cmp" /\ branch = Nil
    /\ \E condition \in Conditions \ {"al", "nv"} :
            branch' = [condition |-> condition, taken |-> IsMet(condition, flags)]
    /\ UNCHANGED <<flags, first, second>>

Next == \/ RunFirstARM \/ RunFirstTHUMB \/ RunBetween
        \/ RunSecondARM \/ RunSecondTHUMB \/ RunBranch

Spec == Init /\ [][Next]_vars

-----------------------------------------------------------------------------
\* Two-word numbers

Wide(low, high) == low + WordValues * high
WideValues == WordValues * WordValues

WideA == Wide(first.a, second.a)
WideB == Wide(first.b, second.b)
WideResult == Wide(first.result, second.result)

Summed == second # Nil /\ second.opcode = "adc"
Subtracted == second # Nil /\ second.opcode = "sbc"

\* Whether the low words carry, from the numbers rather than from the flags.
LowCarries == first.a + first.b >= WordValues

(***************************************************************************)
(* add and adc add two-word numbers whatever runs in between: the two      *)
(* result words are the sum, and the carry is set exactly when it does not *)
(* fit.  Left out is what the code gets wrong: the carry out of a high     *)
(* word added to itself when both are all ones and a carry comes in, and a *)
(* THUMB adc no carry comes in to.                                         *)
(***************************************************************************)
SumsOfTwoWords ==
    Summed /\ (second.isa = "ARM" \/ LowCarries) =>
        /\ WideResult = (WideA + WideB) % WideValues
        /\ ~(second.a = AllOnes /\ second.b = AllOnes /\ LowCarries)
                => flags.c = (WideA + WideB >= WideValues)

(***************************************************************************)
(* After cmp, in either instruction set and whatever runs in between, beq, *)
(* bne, bge and blt are taken exactly when the two signed words stand in   *)
(* that relation, also where the subtraction overflows.                    *)
(***************************************************************************)
Relation(condition, a, b) ==
    CASE condition = "eq" -> a = b
      [] condition = "ne" -> a # b
      [] condition = "ge" -> a >= b
      [] condition = "lt" -> a < b

SignedBranches ==
    branch # Nil /\ branch.condition \in {"eq", "ne", "ge", "lt"} =>
        branch.taken = Relation(branch.condition, Signed(first.a), Signed(first.b))

\* The carry of a comparison is its borrow, unlike on the ARM: bcs is taken
\* exactly when the first word is the smaller one, unsigned, and bcc when not.
BorrowBranches ==
    branch # Nil /\ branch.condition \in {"cs", "cc"} =>
        branch.taken = (branch.condition = "cs" <=> first.a < first.b)

(***************************************************************************)
(* sub leaves the borrow in the carry and sbc takes the carry for the      *)
(* absence of one, so that together they do not subtract two-word numbers: *)
(* the high word is one too large after a borrow and one too small         *)
(* without, whatever the words are and whatever runs in between.           *)
(***************************************************************************)
DifferencesAreOffByOne ==
    Subtracted =>
        WideResult = (WideA - WideB + (IF first.a < first.b THEN WordValues ELSE -WordValues))
                       % WideValues
=============================================================================
