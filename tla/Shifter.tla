------------------------------- MODULE Shifter -------------------------------
(***************************************************************************)
(* The barrel shifter of ARM operands (src/shift.go).  A shift yields the  *)
(* shifted word and what it leaves in the carry flag:                      *)
(*   [value |-> word, carry |-> BOOLEAN].                                  *)
(* An amount is an immediate or the low byte of a register; the encodings  *)
(* with the immediate 0 mean a shift by a whole word, or RRX.              *)
(***************************************************************************)
EXTENDS WordArithmetic

CONSTANTS
    WordBits,           \* bits of a word: 32
    AmountValues        \* amounts a register can ask for: 256, those of its low byte

ASSUME WordBitsAssumption ==
    WordBits \in Nat \ {0} /\ HalfSpace = 2^(WordBits - 1)

\* A register can ask for a shift by more than a word.
ASSUME AmountAssumption == AmountValues \in Nat /\ AmountValues > WordBits

AllOnes == WordValues - 1

\* Faulty variant: the result keeps its high bits.
ShiftLeftWide(a, n) == a * 2^n

\* Go's << and >> on a uint32, whose counts are not taken modulo 32, and the
\* >> of an int32.
ShiftLeft(a, n)       == (a * 2^n) % WordValues
ShiftRight(a, n)      == a \div 2^n
ShiftRightArith(a, n) == (Signed(a) \div 2^n) % WordValues

Bit(a, n) == ShiftRight(a, n) % 2 = 1

ShiftTypes == {"lsl", "lsr", "asr", "ror"}

Kept(value, carry) == [value |-> value, carry |-> carry]

\* A left shift by more than a word leaves the carry alone.
applyLSL(value, amount, carry) ==
    [value |-> ShiftLeft(value, amount),
     carry |-> IF amount \in 1 .. WordBits THEN Bit(value, WordBits - amount)
               ELSE carry]

\* Faulty variant: the last bit kept instead of the last bit shifted out.
applyLSRNextBit(value, amount, registerSpecified, carry) ==
    IF amount = 0 /\ registerSpecified THEN Kept(value, carry)
    ELSE LET places == IF amount = 0 THEN WordBits ELSE amount
         IN  [value |-> ShiftRight(value, places), carry |-> Bit(value, places)]

applyLSR(value, amount, registerSpecified, carry) ==
    IF amount = 0 /\ registerSpecified THEN Kept(value, carry)
    ELSE LET places == IF amount = 0 THEN WordBits ELSE amount
         IN  [value |-> ShiftRight(value, places), carry |-> Bit(value, places - 1)]

applyASR(value, amount, registerSpecified, carry) ==
    IF amount = 0 /\ registerSpecified THEN Kept(value, carry)
    ELSE IF amount \in 1 .. (WordBits - 1)
      THEN [value |-> ShiftRightArith(value, amount), carry |-> Bit(value, amount - 1)]
    ELSE [value |-> IF Sign(value) THEN AllOnes ELSE 0, carry |-> Sign(value)]

RotateWithExtend(value, carry) ==
    [value |-> ShiftRight(value, 1) + (IF carry THEN HalfSpace ELSE 0),
     carry |-> Bit(value, 0)]

\* The loop takes whole words off the amount until 1 to WordBits are left.
Reduced(amount) == ((amount - 1) % WordBits) + 1

\* The two parts of a rotated word have no bit in common.
applyROR(value, amount, registerSpecified, carry) ==
    IF amount = 0
      THEN IF registerSpecified THEN Kept(value, carry)
           ELSE RotateWithExtend(value, carry)
    ELSE LET places  == Reduced(amount)
             rotated == ShiftLeft(value, WordBits - places) + ShiftRight(value, places)
         IN  [value |-> rotated, carry |-> Sign(rotated)]

\* The switch of basicARMShift.Apply, on the amount it has read.
ShiftBy(shiftType, value, amount, registerSpecified, carry) ==
    CASE shiftType = "lsl" -> applyLSL(value, amount, carry)
      [] shiftType = "lsr" -> applyLSR(value, amount, registerSpecified, carry)
      [] shiftType = "asr" -> applyASR(value, amount, registerSpecified, carry)
      [] shiftType = "ror" -> applyROR(value, amount, registerSpecified, carry)

\* Faulty variant: all bits of the register count.
ApplyWholeRegister(shift, value, registerAmount, carry) ==
    IF shift.byRegister THEN ShiftBy(shift.type, value, registerAmount, TRUE, carry)
    ELSE ShiftBy(shift.type, value, shift.amount, FALSE, carry)

(***************************************************************************)
(* basicARMShift.Apply.  A shift has a type and an amount of its own, or   *)
(* is by the low byte of a register, whose word is registerAmount.  Apply  *)
(* returns an error, and touches no flag, where the register is r15        *)
(* (~CanApply).                                                            *)
(***************************************************************************)
CanApply(shift) == ~(shift.byRegister /\ shift.register = 15)

Apply(shift, value, registerAmount, carry) ==
    IF shift.byRegister
      THEN ShiftBy(shift.type, value, registerAmount % AmountValues, TRUE, carry)
    ELSE ShiftBy(shift.type, value, shift.amount, FALSE, carry)

-----------------------------------------------------------------------------
\* What a shift is: so many shifts by one place.

ShiftByOne(shiftType, s) ==
    [value |->
        CASE shiftType = "lsl" -> (2 * s.value) % WordValues
          [] shiftType = "lsr" -> s.value \div 2
          [] shiftType = "asr" -> s.value \div 2 + (IF Sign(s.value) THEN HalfSpace ELSE 0)
          [] shiftType = "ror" -> s.value \div 2 + (s.value % 2) * HalfSpace,
     carry |-> IF shiftType = "lsl" THEN Sign(s.value) ELSE s.value % 2 = 1]

ShiftByPlaces(shiftType, value, amount, carry) ==
    LET f[n \in 0 .. amount] ==
            IF n = 0 THEN Kept(value, carry) ELSE ShiftByOne(shiftType, f[n - 1])
    IN  f[amount]
=============================================================================
