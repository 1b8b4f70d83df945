--------------------------- MODULE WordArithmetic ---------------------------
(***************************************************************************)
(* Carry and overflow of additions and subtractions on machine words       *)
(* (src/utility_functions.go), with the wrap of Go's uint32 arithmetic.    *)
(***************************************************************************)
EXTENDS Integers

CONSTANT HalfSpace      \* number of words whose sign bit is clear: 2^31

ASSUME HalfSpaceAssumption == HalfSpace \in Nat /\ HalfSpace >= 2

WordValues == 2 * HalfSpace
Words      == 0 .. (WordValues - 1)

Sign(a) == a >= HalfSpace

Plus(a, b)  == (a + b) % WordValues
Minus(a, b) == (a - b) % WordValues

CarryValue(carryIn) == IF carryIn THEN 1 ELSE 0

-----------------------------------------------------------------------------

\* Faulty variant: the test of the addition.
isOverflowMixed(a, b, sub) ==
    LET result == IF sub THEN Minus(a, b) ELSE Plus(a, b)
    IN  (Sign(a) <=> Sign(b)) /\ (Sign(result) <=> ~Sign(a))

isOverflow(a, b, sub) ==
    IF sub THEN (Sign(a) <=> ~Sign(b)) /\ (Sign(Minus(a, b)) <=> Sign(b))
           ELSE (Sign(a) <=> Sign(b)) /\ (Sign(Plus(a, b)) <=> ~Sign(a))

\* Faulty variant: a subtraction sets the carry when it does not borrow.
isCarryNotBorrow(a, b, sub) ==
    IF sub THEN Minus(a, b) <= a
    ELSE IF a > b THEN Plus(a, b) < a
    ELSE Plus(a, b) < b

\* For a subtraction it is the borrow.
isCarry(a, b, sub) ==
    IF sub THEN Minus(a, b) > a
    ELSE IF a > b THEN Plus(a, b) < a
    ELSE Plus(a, b) < b

isCarryC(a, b, carryIn, sub) ==
    LET difference == Minus(Minus(a, b), 1 - CarryValue(carryIn))
        sum        == Plus(Plus(a, b), CarryValue(carryIn))
    IN  IF sub THEN difference > a
        ELSE IF a > b THEN sum < a
        ELSE sum < b

isOverflowC(a, b, carryIn, sub) ==
    LET difference == Minus(Minus(a, b), 1 - CarryValue(carryIn))
        sum        == Plus(Plus(a, b), CarryValue(carryIn))
    IN  IF sub THEN (Sign(a) <=> ~Sign(b)) /\ (Sign(difference) <=> Sign(b))
               ELSE (Sign(a) <=> Sign(b)) /\ (Sign(sum) <=> ~Sign(a))

-----------------------------------------------------------------------------
\* What the functions are for

Signed(a) == IF Sign(a) THEN a - WordValues ELSE a

SignedRange == (-HalfSpace) .. (HalfSpace - 1)
=============================================================================
