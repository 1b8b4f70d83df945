-------------------------- MODULE ArithmeticProofs --------------------------
(***************************************************************************)
(* What the carry and overflow functions of src/utility_functions.go       *)
(* return, and what programs make of the flags they set: for every word    *)
(* size.                                                                   *)
(***************************************************************************)
EXTENDS FlagPrograms, FiniteSetTheorems, TLAPS

\* A sum of two words wraps at most once.
LEMMA PlusCases ==
    ASSUME NEW a \in Words, NEW b \in Words
    PROVE  /\ Plus(a, b) \in Words
           /\ a + b < WordValues => Plus(a, b) = a + b
           /\ a + b >= WordValues => Plus(a, b) = a + b - WordValues
<1>1. /\ WordValues \in Nat /\ WordValues >= 4
      /\ a \in Nat /\ b \in Nat /\ a < WordValues /\ b < WordValues
  BY HalfSpaceAssumption DEF WordValues, Words
<1>2. CASE a + b < WordValues
  BY <1>1, <1>2 DEF Plus, Words
<1>3. CASE a + b >= WordValues
  BY <1>1, <1>3 DEF Plus, Words
<1> QED  BY <1>1, <1>2, <1>3

\* So does a difference.
LEMMA MinusCases ==
    ASSUME NEW a \in Words, NEW b \in Words
    PROVE  /\ Minus(a, b) \in Words
           /\ a >= b => Minus(a, b) = a - b
           /\ a < b => Minus(a, b) = a - b + WordValues
<1>1. /\ WordValues \in Nat /\ WordValues >= 4
      /\ a \in Nat /\ b \in Nat /\ a < WordValues /\ b < WordValues
  BY HalfSpaceAssumption DEF WordValues, Words
<1>2. CASE a >= b
  BY <1>1, <1>2 DEF Minus, Words
<1>3. CASE a < b
  BY <1>1, <1>3 DEF Minus, Words
<1> QED  BY <1>1, <1>2, <1>3

\* The numbers that words are.
LEMMA WordRange ==
    ASSUME NEW a \in Words, NEW b \in Words
    PROVE  /\ HalfSpace \in Nat /\ HalfSpace >= 2 /\ WordValues = 2 * HalfSpace
           /\ a \in Nat /\ a < WordValues
           /\ b \in Nat /\ b < WordValues
BY HalfSpaceAssumption DEF WordValues, Words

\* isCarry of an addition is the carry out of the word.
THEOREM CarryOfAddition ==
    ASSUME NEW a \in Words, NEW b \in Words
    PROVE  isCarry(a, b, FALSE) <=> a + b >= WordValues
<1> DEFINE t == Plus(a, b)
<1>0. /\ HalfSpace \in Nat /\ HalfSpace >= 2 /\ WordValues = 2 * HalfSpace
      /\ a \in Nat /\ a < WordValues /\ b \in Nat /\ b < WordValues
  BY WordRange
<1>1. /\ t \in Words
      /\ a + b < WordValues => t = a + b
      /\ a + b >= WordValues => t = a + b - WordValues
  BY PlusCases
<1>2. SUFFICES (IF a > b THEN t < a ELSE t < b) <=> a + b >= WordValues
  BY DEF isCarry
<1> HIDE DEF t
<1> QED  BY <1>0, <1>1

\* isCarry of a subtraction is the borrow, the complement of ARM's carry.
THEOREM CarryOfSubtraction ==
    ASSUME NEW a \in Words, NEW b \in Words
    PROVE  isCarry(a, b, TRUE) <=> a < b
<1> DEFINE t == Minus(a, b)
<1>0. /\ HalfSpace \in Nat /\ HalfSpace >= 2 /\ WordValues = 2 * HalfSpace
      /\ a \in Nat /\ a < WordValues /\ b \in Nat /\ b < WordValues
  BY WordRange
<1>1. /\ t \in Words
      /\ a >= b => t = a - b
      /\ a < b => t = a - b + WordValues
  BY MinusCases
<1>2. SUFFICES t > a <=> a < b
  BY DEF isCarry
<1> HIDE DEF t
<1> QED  BY <1>0, <1>1

\* The signed value of a word.
LEMMA SignedCases ==
    ASSUME NEW a \in Words
    PROVE  /\ a >= HalfSpace => Signed(a) = a - WordValues
           /\ a < HalfSpace => Signed(a) = a
<1>1. a \in Nat /\ HalfSpace \in Nat /\ WordValues \in Nat
  BY WordRange
<1> QED  BY <1>1 DEF Signed, Sign

\* isOverflow of an addition says that the sum of the signed values has no
\* representation in a word.
THEOREM OverflowOfAddition ==
    ASSUME NEW a \in Words, NEW b \in Words
    PROVE  isOverflow(a, b, FALSE) <=> Signed(a) + Signed(b) \notin SignedRange
<1> DEFINE t == Plus(a, b)
           x == Signed(a)
           y == Signed(b)
<1>0. /\ HalfSpace \in Nat /\ HalfSpace >= 2 /\ WordValues = 2 * HalfSpace
      /\ a \in Nat /\ a < WordValues /\ b \in Nat /\ b < WordValues
  BY WordRange
<1>1. /\ t \in Words
      /\ a + b < WordValues => t = a + b
      /\ a + b >= WordValues => t = a + b - WordValues
  BY PlusCases
<1>2. /\ a >= HalfSpace => x = a - WordValues
      /\ a < HalfSpace => x = a
      /\ b >= HalfSpace => y = b - WordValues
      /\ b < HalfSpace => y = b
  BY SignedCases
<1>3. SUFFICES (/\ a >= HalfSpace <=> b >= HalfSpace
                /\ t >= HalfSpace <=> ~(a >= HalfSpace))
               <=> x + y \notin SignedRange
  BY DEF isOverflow, Sign
<1> HIDE DEF t, x, y
<1> QED  BY <1>0, <1>1, <1>2 DEF SignedRange

\* The same of a subtraction.
THEOREM OverflowOfSubtraction ==
    ASSUME NEW a \in Words, NEW b \in Words
    PROVE  isOverflow(a, b, TRUE) <=> Signed(a) - Signed(b) \notin SignedRange
<1> DEFINE t == Minus(a, b)
           x == Signed(a)
           y == Signed(b)
<1>0. /\ HalfSpace \in Nat /\ HalfSpace >= 2 /\ WordValues = 2 * HalfSpace
      /\ a \in Nat /\ a < WordValues /\ b \in Nat /\ b < WordValues
  BY WordRange
<1>1. /\ t \in Words
      /\ a >= b => t = a - b
      /\ a < b => t = a - b + WordValues
  BY MinusCases
<1>2. /\ a >= HalfSpace => x = a - WordValues
      /\ a < HalfSpace => x = a
      /\ b >= HalfSpace => y = b - WordValues
      /\ b < HalfSpace => y = b
  BY SignedCases
<1>3. SUFFICES (/\ a >= HalfSpace <=> ~(b >= HalfSpace)
                /\ t >= HalfSpace <=> b >= HalfSpace)
               <=> x - y \notin SignedRange
  BY DEF isOverflow, Sign
<1> HIDE DEF t, x, y
<1> QED  BY <1>0, <1>1, <1>2 DEF SignedRange

\* isCarryC of an addition is the carry out of the three-way sum, except that
\* it misses the carry when both words are all ones and a carry comes in.
THEOREM CarryInOfAddition ==
    ASSUME NEW a \in Words, NEW b \in Words, NEW carryIn \in BOOLEAN
    PROVE  isCarryC(a, b, carryIn, FALSE)
             <=> /\ a + b + CarryValue(carryIn) >= WordValues
                 /\ ~(carryIn /\ a = WordValues - 1 /\ b = WordValues - 1)
<1> DEFINE c == CarryValue(carryIn)
           t == Plus(a, b)
           s == Plus(t, c)
<1>0. /\ HalfSpace \in Nat /\ HalfSpace >= 2 /\ WordValues = 2 * HalfSpace
      /\ a \in Nat /\ a < WordValues /\ b \in Nat /\ b < WordValues
  BY WordRange
<1>1. c \in {0, 1} /\ c \in Words /\ (carryIn <=> c = 1)
  BY <1>0 DEF CarryValue, Words
<1>2. /\ t \in Words
      /\ a + b < WordValues => t = a + b
      /\ a + b >= WordValues => t = a + b - WordValues
  BY PlusCases
<1>3. /\ s \in Words
      /\ t + c < WordValues => s = t + c
      /\ t + c >= WordValues => s = t + c - WordValues
  BY <1>1, <1>2, PlusCases
<1>4. SUFFICES (IF a > b THEN s < a ELSE s < b)
               <=> /\ a + b + c >= WordValues
                   /\ ~(carryIn /\ a = WordValues - 1 /\ b = WordValues - 1)
  BY DEF isCarryC
<1> HIDE DEF c, t, s
<1> QED  BY <1>0, <1>1, <1>2, <1>3

\* isCarryC of a subtraction is the borrow of a - b - 1 + carry, except that it
\* misses the borrow when all ones are subtracted without carry.
THEOREM CarryInOfSubtraction ==
    ASSUME NEW a \in Words, NEW b \in Words, NEW carryIn \in BOOLEAN
    PROVE  isCarryC(a, b, carryIn, TRUE)
             <=> /\ a < b + (1 - CarryValue(carryIn))
                 /\ ~(~carryIn /\ b = WordValues - 1)
<1> DEFINE c == 1 - CarryValue(carryIn)
           t == Minus(a, b)
           d == Minus(t, c)
<1>0. /\ HalfSpace \in Nat /\ HalfSpace >= 2 /\ WordValues = 2 * HalfSpace
      /\ a \in Nat /\ a < WordValues /\ b \in Nat /\ b < WordValues
  BY WordRange
<1>1. c \in {0, 1} /\ c \in Words /\ (carryIn <=> c = 0)
  BY <1>0 DEF CarryValue, Words
<1>2. /\ t \in Words
      /\ a >= b => t = a - b
      /\ a < b => t = a - b + WordValues
  BY MinusCases
<1>3. /\ d \in Words
      /\ t >= c => d = t - c
      /\ t < c => d = t - c + WordValues
  BY <1>1, <1>2, MinusCases
<1>4. SUFFICES d > a <=> /\ a < b + c
                         /\ ~(~carryIn /\ b = WordValues - 1)
  BY DEF isCarryC
<1> HIDE DEF c, t, d
<1> QED  BY <1>0, <1>1, <1>2, <1>3

-----------------------------------------------------------------------------
\* What the handlers leave in the flags

LEMMA PowerOfZero == 2^0 = 1
<1>1. IsFiniteSet({}) /\ Cardinality({}) = 0
  BY FS_EmptySet
<1> DEFINE E == {}
<1>2. IsFiniteSet(E) /\ Cardinality(E) = 0
  BY <1>1
<1>3. SUBSET E = {E}
  OBVIOUS
<1> HIDE DEF E
<1>4. Cardinality(SUBSET E) = 2^0
  BY <1>2, FS_SUBSET
<1>5. Cardinality({E}) = 1
  BY FS_Singleton
<1> QED BY <1>3, <1>4, <1>5

\* An operand shifted by nothing is the register, and leaves the carry alone.
LEMMA UnshiftedOperand ==
    ASSUME NEW b \in Words, NEW c
    PROVE  SecondOperand(Shifted(0), b, 0, c) = [value |-> b, carry |-> c]
<1>1. (b * 1) % WordValues = b
  BY WordRange DEF Words
<1>2. ShiftLeft(b, 0) = b
  BY <1>1, PowerOfZero DEF ShiftLeft
<1>3. applyLSL(b, 0, c) = [value |-> b, carry |-> c]
  BY <1>2 DEF applyLSL
<1> QED BY <1>3 DEF SecondOperand, Shifted, Apply, ShiftBy

LEMMA SettingEvaluates ==
    ASSUME flags \in FlagSets, NEW opcode, NEW a, NEW b \in Words
    PROVE  ARMSetting(opcode, a, b) = Evaluate(opcode, a, b, flags)
<1>1. [flags EXCEPT !.c = flags.c] = flags
  BY DEF FlagSets
<1> QED BY <1>1, UnshiftedOperand DEF ARMSetting, DataProcessing

\* What goes into a flag is a truth value.
LEMMA CarriesAreFlags ==
    ASSUME NEW a \in Words, NEW b \in Words, NEW sub \in BOOLEAN, NEW carryIn
    PROVE  /\ isCarry(a, b, sub) \in BOOLEAN /\ isOverflow(a, b, sub) \in BOOLEAN
           /\ isCarryC(a, b, carryIn, sub) \in BOOLEAN
           /\ isOverflowC(a, b, carryIn, sub) \in BOOLEAN
<1>1. a \in Int /\ b \in Int /\ WordValues \in Nat \ {0}
  BY WordRange
<1>2. \A x \in Int, y \in Int : Plus(x, y) \in Int /\ Minus(x, y) \in Int
  BY <1>1 DEF Plus, Minus
<1>3. CarryValue(carryIn) \in Int
  BY DEF CarryValue
<1> DEFINE sum == Plus(Plus(a, b), CarryValue(carryIn))
           difference == Minus(Minus(a, b), 1 - CarryValue(carryIn))
<1>4. sum \in Int /\ difference \in Int
  <2>1. Plus(a, b) \in Int /\ Minus(a, b) \in Int /\ 1 - CarryValue(carryIn) \in Int
    BY <1>1, <1>2, <1>3
  <2> QED BY <1>2, <1>3, <2>1
<1>5. isCarry(a, b, sub) = TRUE \/ isCarry(a, b, sub) = FALSE
  BY <1>1, <1>2 DEF isCarry
<1>6. isOverflow(a, b, sub) \in BOOLEAN
  BY DEF isOverflow
<1>7. isCarryC(a, b, carryIn, sub) = TRUE \/ isCarryC(a, b, carryIn, sub) = FALSE
  <2>1. isCarryC(a, b, carryIn, sub)
          = IF sub THEN difference > a ELSE IF a > b THEN sum < a ELSE sum < b
    BY DEF isCarryC
  <2> HIDE DEF sum, difference
  <2> QED BY <1>1, <1>4, <2>1
<1>8. isOverflowC(a, b, carryIn, sub) \in BOOLEAN
  BY DEF isOverflowC
<1> QED BY <1>5, <1>6, <1>7, <1>8

LEMMA HandledIsTyped ==
    ASSUME NEW x, NEW f \in FlagSets, NEW write
    PROVE  /\ Handled(x, f, write).result = x
           /\ Handled(x, f, write).flags \in FlagSets
<1>1. (x = 0) \in BOOLEAN /\ Sign(x) \in BOOLEAN
  BY DEF Sign
<1> QED BY <1>1 DEF Handled, ResultFlags, FlagSets

LEMMA AddSets ==
    ASSUME NEW a \in Words, NEW b \in Words, NEW f \in FlagSets, NEW write,
           NEW r, r = Add(a, b, f, write)
    PROVE  /\ r.result = Plus(a, b) /\ r.flags \in FlagSets
           /\ r.flags.c <=> a + b >= WordValues
<1>1. isCarry(a, b, FALSE) \in BOOLEAN /\ isOverflow(a, b, FALSE) \in BOOLEAN
  BY CarriesAreFlags
<1>2. (Plus(a, b) = 0) \in BOOLEAN /\ Sign(Plus(a, b)) \in BOOLEAN
  BY DEF Sign
<1> QED BY <1>1, <1>2, CarryOfAddition DEF Add, Handled, ResultFlags, WithCV, FlagSets

LEMMA SubtractSets ==
    ASSUME NEW a \in Words, NEW b \in Words, NEW f \in FlagSets, NEW write,
           NEW r, r = Subtract(a, b, f, write)
    PROVE  /\ r.result = Minus(a, b) /\ r.flags \in FlagSets
           /\ r.flags.c <=> a < b
           /\ r.flags.z <=> a = b
           /\ r.flags.n = r.flags.v <=> Signed(a) >= Signed(b)
<1>1. isCarry(a, b, TRUE) \in BOOLEAN /\ isOverflow(a, b, TRUE) \in BOOLEAN
  BY CarriesAreFlags
<1>2. (Minus(a, b) = 0) \in BOOLEAN /\ Sign(Minus(a, b)) \in BOOLEAN
  BY DEF Sign
<1>3. /\ r.result = Minus(a, b) /\ r.flags \in FlagSets
      /\ r.flags.c = isCarry(a, b, TRUE)
      /\ r.flags.z = (Minus(a, b) = 0)
      /\ r.flags.n = Sign(Minus(a, b))
      /\ r.flags.v = isOverflow(a, b, TRUE)
  BY <1>1, <1>2 DEF Subtract, Handled, ResultFlags, WithCV, FlagSets
<1>4. Minus(a, b) = 0 <=> a = b
  BY MinusCases, WordRange
<1>5. (Sign(Minus(a, b)) <=> isOverflow(a, b, TRUE)) <=> Signed(a) >= Signed(b)
  <2> DEFINE t == Minus(a, b)
             x == Signed(a)
             y == Signed(b)
  <2>0. SUFFICES (t >= HalfSpace <=> isOverflow(a, b, TRUE)) <=> x >= y
    BY DEF Sign
  <2>1. /\ t \in Words
        /\ a >= b => t = a - b
        /\ a < b => t = a - b + WordValues
    BY MinusCases
  <2>2. /\ a >= HalfSpace => x = a - WordValues
        /\ a < HalfSpace => x = a
        /\ b >= HalfSpace => y = b - WordValues
        /\ b < HalfSpace => y = b
    BY SignedCases
  <2>3. /\ HalfSpace \in Nat /\ HalfSpace >= 2 /\ WordValues = 2 * HalfSpace
        /\ a \in Nat /\ a < WordValues /\ b \in Nat /\ b < WordValues
        /\ t \in Nat /\ t < WordValues
    BY <2>1, WordRange
  <2>4. isOverflow(a, b, TRUE) <=> x - y \notin SignedRange
    BY OverflowOfSubtraction
  <2> HIDE DEF t, x, y
  <2>5. (t >= HalfSpace <=> ~(-HalfSpace <= x - y /\ x - y <= HalfSpace - 1)) <=> x >= y
    <3>1. CASE a >= b
      BY <2>1, <2>2, <2>3, <3>1
    <3>2. CASE a < b
      BY <2>1, <2>2, <2>3, <3>2
    <3> QED BY <2>3, <3>1, <3>2
  <2>6. isOverflow(a, b, TRUE) <=> ~(-HalfSpace <= x - y /\ x - y <= HalfSpace - 1)
    <3>1. x \in Int /\ y \in Int
      BY <2>2, <2>3
    <3>2. x - y \notin SignedRange <=> ~(-HalfSpace <= x - y /\ x - y <= HalfSpace - 1)
      BY <2>3, <3>1 DEF SignedRange
    <3> QED BY <2>4, <3>2, Zenon
  <2> QED BY <2>5, <2>6, Zenon
<1> QED BY <1>1, <1>2, <1>3, <1>4, <1>5, CarryOfSubtraction

LEMMA AddCarrySets ==
    ASSUME NEW a \in Words, NEW b \in Words, NEW f \in FlagSets
    PROVE  /\ AddCarry(a, b, f).result = Plus(Plus(a, b), CarryValue(f.c))
           /\ AddCarry(a, b, f).flags \in FlagSets
           /\ AddCarry(a, b, f).flags.c = isCarryC(a, b, f.c, FALSE)
<1>1. \A c : isCarryC(a, b, c, FALSE) \in BOOLEAN /\ isOverflowC(a, b, c, FALSE) \in BOOLEAN
  BY CarriesAreFlags
<1>2. \A x : (x = 0) \in BOOLEAN /\ Sign(x) \in BOOLEAN
  BY DEF Sign
<1> QED BY <1>1, <1>2 DEF AddCarry, Handled, ResultFlags, WithCV, FlagSets

LEMMA SubtractCarrySets ==
    ASSUME NEW a \in Words, NEW b \in Words, NEW f \in FlagSets
    PROVE  SubtractCarry(a, b, f).result = Minus(Minus(a, b), 1 - CarryValue(f.c))
           /\ SubtractCarry(a, b, f).flags \in FlagSets
<1>1. \A c : isCarryC(a, b, c, TRUE) \in BOOLEAN /\ isOverflowC(a, b, c, TRUE) \in BOOLEAN
  BY CarriesAreFlags
<1>2. \A x : (x = 0) \in BOOLEAN /\ Sign(x) \in BOOLEAN
  BY DEF Sign
<1> QED BY <1>1, <1>2 DEF SubtractCarry, Handled, ResultFlags, WithCV, FlagSets

-----------------------------------------------------------------------------
\* Programs that use the flags

\* The first instruction did what its opcode says, and until another sets the
\* flags they tell of its operands.
FirstSound ==
    first # Nil =>
        /\ first.isa \in {"ARM", "THUMB"} /\ first.opcode \in {"add", "sub", "cmp"}
        /\ first.a \in Words /\ first.b \in Words
        /\ first.result = IF first.opcode = "add" THEN Plus(first.a, first.b)
                          ELSE Minus(first.a, first.b)

FlagsTell ==
    first # Nil /\ second = Nil =>
        /\ first.opcode = "add" => (flags.c <=> LowCarries)
        /\ first.opcode # "add" =>
            /\ flags.c <=> first.a < first.b
            /\ flags.z <=> first.a = first.b
            /\ flags.n = flags.v <=> Signed(first.a) >= Signed(first.b)

\* The second instruction took its carry from them.
SecondSound ==
    second # Nil =>
        /\ first # Nil /\ first.opcode # "cmp" /\ second.a \in Words /\ second.b \in Words
        /\ Summed => first.opcode = "add"
        /\ Summed /\ (second.isa = "ARM" \/ LowCarries) =>
            /\ second.result = Plus(Plus(second.a, second.b), CarryValue(LowCarries))
            /\ flags.c <=> isCarryC(second.a, second.b, LowCarries, FALSE)
        /\ Subtracted =>
            /\ first.opcode # "add"
            /\ second.result = Minus(Minus(second.a, second.b),
                                     1 - CarryValue(first.a < first.b))

\* And so did the branch.
BranchSound ==
    branch # Nil =>
        /\ first # Nil /\ branch.taken \in BOOLEAN
        /\ branch.condition = "eq" => (branch.taken <=> first.a = first.b)
        /\ branch.condition = "ne" => (branch.taken <=> first.a # first.b)
        /\ branch.condition = "ge" => (branch.taken <=> Signed(first.a) >= Signed(first.b))
        /\ branch.condition = "lt" => (branch.taken <=> ~(Signed(first.a) >= Signed(first.b)))
        /\ branch.condition = "cs" => (branch.taken <=> first.a < first.b)
        /\ branch.condition = "cc" => (branch.taken <=> ~(first.a < first.b))

Sound == /\ flags \in FlagSets
         /\ FirstSound /\ FlagsTell /\ SecondSound /\ BranchSound

LEMMA InitIsSound ==
    ASSUME Init
    PROVE  Sound
BY DEF Init, Sound, FirstSound, FlagsTell, SecondSound, BranchSound

\* Without the S bit the flags come out as they went in.
LEMMA BetweenKeepsFlags ==
    ASSUME NEW opcode, NEW a, NEW b, NEW amount
    PROVE  DataProcessing([opcode |-> opcode, s |-> FALSE, operand |-> Shifted(amount)],
                          a, b, 0, flags).flags = flags
<1> DEFINE d == [opcode |-> opcode, s |-> FALSE, operand |-> Shifted(amount)]
           operand2  == SecondOperand(d.operand, b, 0, flags.c)
           evaluated == Evaluate(d.opcode, a, operand2.value, [flags EXCEPT !.c = operand2.carry])
<1>1. \A o, x, y, f : "flags" \in DOMAIN Evaluate(o, x, y, f)
  BY DEF Evaluate, Add, Subtract, AddCarry, SubtractCarry, Handled
<1>2. "flags" \in DOMAIN evaluated
  BY <1>1
<1>3. DataProcessing(d, a, b, 0, flags) = [evaluated EXCEPT !.flags = flags]
  BY DEF DataProcessing
<1> HIDE DEF evaluated, d
<1>4. DataProcessing(d, a, b, 0, flags).flags = flags
  BY <1>2, <1>3
<1> QED BY <1>4 DEF d

\* The first instruction, of either set.
LEMMA FirstKeepsSound ==
    ASSUME Sound, NEW isa \in {"ARM", "THUMB"}, NEW opcode \in {"add", "sub", "cmp"},
           NEW a \in Words, NEW b \in Words, NEW write, NEW outcome,
           outcome = IF opcode = "add" THEN Add(a, b, flags, write)
                     ELSE Subtract(a, b, flags, write),
           First(isa, opcode, a, b, outcome)
    PROVE  Sound'
<1>1. /\ first = Nil /\ second = Nil /\ branch = Nil
      /\ first' = [isa |-> isa, opcode |-> opcode, a |-> a, b |-> b,
                   result |-> outcome.result]
      /\ flags' = outcome.flags /\ second' = second /\ branch' = branch
      /\ flags \in FlagSets
  BY DEF First, Sound, SecondSound, BranchSound
<1>2. /\ outcome.flags \in FlagSets
      /\ outcome.result = IF opcode = "add" THEN Plus(a, b) ELSE Minus(a, b)
      /\ opcode = "add" => (outcome.flags.c <=> a + b >= WordValues)
      /\ opcode # "add" =>
            /\ outcome.flags.c <=> a < b
            /\ outcome.flags.z <=> a = b
            /\ outcome.flags.n = outcome.flags.v <=> Signed(a) >= Signed(b)
  <2>1. CASE opcode = "add"
    BY <1>1, <2>1, AddSets
  <2>2. CASE opcode # "add"
    BY <1>1, <2>2, SubtractSets
  <2> QED BY <2>1, <2>2
<1>3. FirstSound'
  BY <1>1, <1>2 DEF FirstSound
<1>4. FlagsTell'
  BY <1>1, <1>2 DEF FlagsTell, LowCarries
<1>5. SecondSound' /\ BranchSound'
  BY <1>1 DEF SecondSound, BranchSound
<1> QED BY <1>1, <1>2, <1>3, <1>4, <1>5 DEF Sound

LEMMA FirstARMKeepsSound ==
    ASSUME Sound, RunFirstARM
    PROVE  Sound'
<1>1. PICK opcode \in {"add", "sub", "cmp"}, a \in Words, b \in Words :
        First("ARM", opcode, a, b, ARMSetting(opcode, a, b))
  BY DEF RunFirstARM
<1>2. ARMSetting(opcode, a, b) = Evaluate(opcode, a, b, flags)
  BY SettingEvaluates DEF Sound
<1>3. Evaluate(opcode, a, b, flags)
        = IF opcode = "add" THEN Add(a, b, flags, opcode = "add")
          ELSE Subtract(a, b, flags, opcode = "sub")
  BY DEF Evaluate
<1>4. CASE opcode = "add"
  BY <1>1, <1>2, <1>3, <1>4, FirstKeepsSound
<1>5. CASE opcode # "add"
  BY <1>1, <1>2, <1>3, <1>5, FirstKeepsSound
<1> QED BY <1>4, <1>5

LEMMA FirstTHUMBKeepsSound ==
    ASSUME Sound, RunFirstTHUMB
    PROVE  Sound'
<1>1. CASE \E subtract \in BOOLEAN, a, b \in Words :
             First("THUMB", IF subtract THEN "sub" ELSE "add", a, b,
                   AddSubtract(subtract, a, b, flags))
  <2>1. PICK subtract \in BOOLEAN, a \in Words, b \in Words :
          First("THUMB", IF subtract THEN "sub" ELSE "add", a, b,
                AddSubtract(subtract, a, b, flags))
    BY <1>1
  <2>2. CASE subtract
    BY <2>1, <2>2, FirstKeepsSound DEF AddSubtract
  <2>3. CASE ~subtract
    BY <2>1, <2>3, FirstKeepsSound DEF AddSubtract
  <2> QED BY <2>2, <2>3
<1>2. CASE \E a, b \in Words : First("THUMB", "cmp", a, b, EvaluateALU("cmp", a, b, flags))
  <2>1. PICK a \in Words, b \in Words :
          First("THUMB", "cmp", a, b, EvaluateALU("cmp", a, b, flags))
    BY <1>2
  <2>2. EvaluateALU("cmp", a, b, flags) = Subtract(a, b, flags, FALSE)
    BY DEF EvaluateALU
  <2> QED BY <2>1, <2>2, FirstKeepsSound
<1> QED BY <1>1, <1>2 DEF RunFirstTHUMB

LEMMA BetweenKeepsSound ==
    ASSUME Sound, RunBetween
    PROVE  Sound'
<1>1. flags' = flags
  <2>1. CASE \E opcode \in BetweenOpcodes, a, b \in BetweenWords, amount \in BetweenAmounts :
               flags' = DataProcessing([opcode |-> opcode, s |-> FALSE,
                                        operand |-> Shifted(amount)], a, b, 0, flags).flags
    BY <2>1, BetweenKeepsFlags
  <2>2. CASE \E operation \in {"add", "mov"}, a, b \in BetweenWords :
               flags' = HighRegister(operation, a, b, flags).flags
    BY <2>2 DEF HighRegister
  <2> QED BY <2>1, <2>2 DEF RunBetween
<1>2. UNCHANGED <<first, second, branch>>
  BY DEF RunBetween
<1> QED BY <1>1, <1>2 DEF Sound, FirstSound, FlagsTell, SecondSound, BranchSound,
           Summed, Subtracted, LowCarries

\* The second instruction, of either set: adc with the carry of the first, or
\* any adc of the ARM set, and sbc.
LEMMA SecondKeepsSound ==
    ASSUME Sound, NEW isa \in {"ARM", "THUMB"}, ExpectsSecond(isa),
           NEW a \in Words, NEW b \in Words, NEW outcome,
           outcome.flags \in FlagSets, outcome.result \in Words,
           first.opcode = "add" /\ (isa = "ARM" \/ flags.c) => outcome = AddCarry(a, b, flags),
           first.opcode # "add" => outcome = SubtractCarry(a, b, flags),
           RunSecond(isa, a, b, outcome)
    PROVE  Sound'
<1>1. /\ first # Nil /\ second = Nil /\ first.opcode # "cmp" /\ branch' = branch
      /\ second' = [isa |-> isa, opcode |-> CarryOpcode(first.opcode), a |-> a, b |-> b,
                    result |-> outcome.result]
      /\ flags' = outcome.flags /\ first' = first /\ flags \in FlagSets
  BY DEF RunSecond, ExpectsSecond, Sound
<1>2. /\ first.opcode = "add" => (flags.c <=> LowCarries)
      /\ first.opcode # "add" => (flags.c <=> first.a < first.b)
  BY <1>1 DEF Sound, FlagsTell
<1>3. second' # Nil
  <2>1. first.opcode \in {"add", "sub", "cmp"}
    BY <1>1 DEF Sound, FirstSound
  <2>2. second' \in Runs
    BY <1>1, <2>1 DEF Runs, CarryOpcode
  <2> QED BY <2>2, NilAssumption
<1>4. FirstSound' /\ FlagsTell' /\ BranchSound'
  <2>1. FirstSound' /\ BranchSound'
    BY <1>1 DEF Sound, FirstSound, BranchSound
  <2>2. FlagsTell'
    BY <1>3 DEF FlagsTell
  <2> QED BY <2>1, <2>2
<1>5. SecondSound'
  <2>1. second' # Nil /\ first' # Nil /\ second'.a = a /\ second'.b = b
    BY <1>1, <1>3
  <2>2. second'.isa = isa /\ second'.result = outcome.result
        /\ second'.opcode = CarryOpcode(first.opcode)
    BY <1>1
  <2>3. Summed' <=> first.opcode = "add"
    BY <2>1, <2>2 DEF Summed, CarryOpcode
  <2>4. Subtracted' <=> first.opcode # "add"
    BY <2>1, <2>2 DEF Subtracted, CarryOpcode
  <2>5. LowCarries' = LowCarries
    BY <1>1 DEF LowCarries
  <2>6. ASSUME first.opcode = "add", isa = "ARM" \/ LowCarries
        PROVE  /\ outcome.result = Plus(Plus(a, b), CarryValue(LowCarries))
               /\ outcome.flags.c <=> isCarryC(a, b, LowCarries, FALSE)
    <3>1. outcome = AddCarry(a, b, flags)
      BY <1>2, <2>6
    <3>2. flags.c = LowCarries
      BY <1>1, <1>2, <2>6 DEF FlagSets, LowCarries
    <3>3. /\ outcome.result = Plus(Plus(a, b), CarryValue(flags.c))
          /\ outcome.flags.c = isCarryC(a, b, flags.c, FALSE)
      BY <1>1, <3>1, AddCarrySets
    <3> QED BY <3>2, <3>3
  <2>7. ASSUME first.opcode # "add"
        PROVE  outcome.result = Minus(Minus(a, b), 1 - CarryValue(first.a < first.b))
    <3>1. CarryValue(flags.c) = CarryValue(first.a < first.b)
      BY <1>2, <2>7 DEF CarryValue
    <3> QED BY <1>1, <2>7, <3>1, SubtractCarrySets
  <2>8. Summed' /\ (second'.isa = "ARM" \/ LowCarries')
          => /\ second'.result = Plus(Plus(second'.a, second'.b), CarryValue(LowCarries'))
             /\ flags'.c <=> isCarryC(second'.a, second'.b, LowCarries', FALSE)
    BY <1>1, <2>1, <2>2, <2>3, <2>5, <2>6
  <2>9. Subtracted'
          => /\ first'.opcode # "add"
             /\ second'.result = Minus(Minus(second'.a, second'.b),
                                       1 - CarryValue(first'.a < first'.b))
    BY <1>1, <2>1, <2>2, <2>4, <2>7
  <2> QED BY <1>1, <2>1, <2>3, <2>8, <2>9 DEF SecondSound
<1> QED BY <1>1, <1>4, <1>5 DEF Sound

\* Quotients of words are words.
LEMMA PowersArePositive ==
    ASSUME NEW n \in Nat
    PROVE  2^n \in Nat \ {0}
<1> DEFINE S == 1 .. n
<1>1. IsFiniteSet(S) /\ Cardinality(S) = n
  <2>1. IsFiniteSet(1 .. n) /\ Cardinality(1 .. n) = IF 1 > n THEN 0 ELSE n - 1 + 1
    BY FS_Interval
  <2> QED BY <2>1
<1> HIDE DEF S
<1>2. IsFiniteSet(SUBSET S) /\ Cardinality(SUBSET S) = 2^n
  BY <1>1, FS_SUBSET
<1>3. Cardinality(SUBSET S) \in Nat
  BY <1>2, FS_CardinalityType
<1>4. SUBSET S # {}
  OBVIOUS
<1>5. Cardinality(SUBSET S) # 0
  BY <1>2, <1>4, FS_EmptySet
<1> QED BY <1>2, <1>3, <1>5

LEMMA RightShiftsAreWords ==
    ASSUME NEW a \in Words, NEW n \in Nat
    PROVE  /\ ShiftRight(a, n) \in Words
           /\ ShiftRightArith(a, n) \in Words
<1>1. PICK k \in Nat \ {0} : k = 2^n
  BY PowersArePositive
<1>2. /\ WordValues \in Nat \ {0} /\ a \in Nat /\ a < WordValues
      /\ Signed(a) \in Int
  BY WordRange, SignedCases
<1>3. a \div k \in Words
  <2>1. a \div k \in Nat /\ a \div k <= a
    BY <1>1, <1>2
  <2> QED BY <1>2, <2>1 DEF Words
<1>4. (Signed(a) \div k) % WordValues \in Words
  <2>1. Signed(a) \div k \in Int
    BY <1>1, <1>2
  <2> QED BY <1>2, <2>1 DEF Words
<1> QED BY <1>1, <1>3, <1>4 DEF ShiftRight, ShiftRightArith

LEMMA CarriedResults ==
    ASSUME NEW a \in Words, NEW b \in Words, NEW f \in FlagSets
    PROVE  /\ AddCarry(a, b, f).result \in Words
           /\ SubtractCarry(a, b, f).result \in Words
<1>1. CarryValue(f.c) \in Words /\ 1 - CarryValue(f.c) \in Words
  BY WordRange DEF CarryValue, Words
<1>2. /\ Plus(Plus(a, b), CarryValue(f.c)) \in Words
      /\ Minus(Minus(a, b), 1 - CarryValue(f.c)) \in Words
  BY <1>1, PlusCases, MinusCases
<1> QED BY <1>2, AddCarrySets, SubtractCarrySets

LEMMA SecondARMKeepsSound ==
    ASSUME Sound, RunSecondARM
    PROVE  Sound'
<1>1. PICK a \in Words, b \in Words :
        RunSecond("ARM", a, b, ARMSetting(CarryOpcode(first.opcode), a, b))
  BY DEF RunSecondARM
<1>2. flags \in FlagSets /\ ExpectsSecond("ARM")
  BY DEF Sound, RunSecondARM
<1> DEFINE opcode == CarryOpcode(first.opcode)
           outcome == Evaluate(opcode, a, b, flags)
<1>3. ARMSetting(opcode, a, b) = outcome
  BY <1>2, SettingEvaluates
<1>4. /\ first.opcode = "add" => outcome = AddCarry(a, b, flags)
      /\ first.opcode # "add" => outcome = SubtractCarry(a, b, flags)
  BY DEF Evaluate, CarryOpcode
<1>5. outcome.flags \in FlagSets /\ outcome.result \in Words
  BY <1>2, <1>4, AddCarrySets, SubtractCarrySets, CarriedResults
<1>6. RunSecond("ARM", a, b, outcome)
  BY <1>1, <1>3
<1> HIDE DEF outcome, opcode
<1> QED BY <1>2, <1>4, <1>5, <1>6, SecondKeepsSound

LEMMA SecondTHUMBKeepsSound ==
    ASSUME Sound, RunSecondTHUMB
    PROVE  Sound'
<1> DEFINE opcode == CarryOpcode(first.opcode)
<1>1. PICK a \in Words, b \in Words : RunSecond("THUMB", a, b, EvaluateALU(opcode, a, b, flags))
  BY DEF RunSecondTHUMB
<1>2. flags \in FlagSets /\ ExpectsSecond("THUMB")
  BY DEF Sound, RunSecondTHUMB
<1> DEFINE outcome == EvaluateALU(opcode, a, b, flags)
           s == ArithRightALU(a, b, flags)
<1>3. /\ first.opcode = "add" /\ flags.c => outcome = AddCarry(a, b, flags)
      /\ first.opcode # "add" => outcome = SubtractCarry(a, b, flags)
      /\ first.opcode = "add" /\ ~flags.c
           => outcome = Handled(s.value, [flags EXCEPT !.c = s.carry], TRUE)
  BY DEF EvaluateALU, ALUShift, CarryOpcode
<1>4. s.value \in Words /\ s.carry \in BOOLEAN
  <2>1. AllOnes \in Words /\ 0 \in Words /\ b \in Nat
    BY WordRange DEF AllOnes, Words
  <2>2. \A n : Bit(a, n) \in BOOLEAN
    BY DEF Bit
  <2>3. ShiftRight(a, b) \in Words /\ ShiftRightArith(a, b) \in Words
    BY <2>1, RightShiftsAreWords
  <2>4. Sign(a) \in BOOLEAN /\ flags.c \in BOOLEAN
    BY <1>2 DEF Sign, FlagSets
  <2> QED BY <2>1, <2>2, <2>3, <2>4 DEF ArithRightALU, Kept
<1> HIDE DEF s
<1>5. outcome.flags \in FlagSets /\ outcome.result \in Words
  <2>1. CASE first.opcode = "add" /\ ~flags.c
    <3>1. [flags EXCEPT !.c = s.carry] \in FlagSets
      BY <1>2, <1>4 DEF FlagSets
    <3>2. outcome = Handled(s.value, [flags EXCEPT !.c = s.carry], TRUE)
      BY <1>3, <2>1
    <3> HIDE DEF outcome
    <3> QED BY <1>4, <3>1, <3>2, HandledIsTyped
  <2>2. CASE ~(first.opcode = "add" /\ ~flags.c)
    BY <1>2, <1>3, <2>2, AddCarrySets, SubtractCarrySets, CarriedResults
  <2> QED BY <2>1, <2>2
<1>6. RunSecond("THUMB", a, b, outcome)
  BY <1>1
<1> HIDE DEF outcome, opcode
<1>7. first.opcode = "add" /\ ("THUMB" = "ARM" \/ flags.c) => outcome = AddCarry(a, b, flags)
  BY <1>3
<1> QED BY <1>2, <1>3, <1>5, <1>6, <1>7, SecondKeepsSound

LEMMA BranchKeepsSound ==
    ASSUME Sound, RunBranch
    PROVE  Sound'
<1>1. PICK condition \in Conditions \ {"al", "nv"} :
        branch' = [condition |-> condition, taken |-> IsMet(condition, flags)]
  BY DEF RunBranch
<1>2. /\ first # Nil /\ first.opcode = "cmp"
      /\ flags' = flags /\ first' = first /\ second' = second /\ flags \in FlagSets
  BY DEF RunBranch, Sound
<1>3. second = Nil
  BY <1>2 DEF Sound, SecondSound
<1>4. /\ flags.c <=> first.a < first.b
      /\ flags.z <=> first.a = first.b
      /\ flags.n = flags.v <=> Signed(first.a) >= Signed(first.b)
  BY <1>2, <1>3 DEF Sound, FlagsTell
<1>5. BranchSound'
  <2>1. /\ flags.n \in BOOLEAN /\ flags.z \in BOOLEAN /\ flags.c \in BOOLEAN
        /\ flags.v \in BOOLEAN
    BY <1>2 DEF FlagSets
  <2>2. branch'.taken = IsMet(condition, flags) /\ branch'.condition = condition
    BY <1>1
  <2>3. IsMet(condition, flags) \in BOOLEAN
    BY <2>1 DEF IsMet, Conditions
  <2>4. /\ condition = "eq" => (IsMet(condition, flags) <=> flags.z)
        /\ condition = "ne" => (IsMet(condition, flags) <=> ~flags.z)
        /\ condition = "ge" => (IsMet(condition, flags) <=> flags.n = flags.v)
        /\ condition = "lt" => (IsMet(condition, flags) <=> flags.n # flags.v)
        /\ condition = "cs" => (IsMet(condition, flags) <=> flags.c)
        /\ condition = "cc" => (IsMet(condition, flags) <=> ~flags.c)
    BY <2>1 DEF IsMet
  <2> QED BY <1>2, <1>4, <2>1, <2>2, <2>3, <2>4 DEF BranchSound
<1> QED BY <1>2, <1>5 DEF Sound, FirstSound, FlagsTell, SecondSound, Summed, Subtracted,
           LowCarries

LEMMA StepsKeepSound ==
    ASSUME Sound, [Next]_vars
    PROVE  Sound'
<1>1. CASE UNCHANGED vars
  BY <1>1 DEF vars, Sound, FirstSound, FlagsTell, SecondSound, BranchSound,
     Summed, Subtracted, LowCarries
<1> QED BY <1>1, FirstARMKeepsSound, FirstTHUMBKeepsSound, BetweenKeepsSound,
       SecondARMKeepsSound, SecondTHUMBKeepsSound, BranchKeepsSound DEF Next

-----------------------------------------------------------------------------
\* Two-word numbers

\* A remainder of a number that is at most one modulus out of range.
LEMMA OneWrap ==
    ASSUME NEW m \in Nat \ {0}, NEW r \in Int, 0 <= r, r < m
    PROVE  r % m = r /\ (r + m) % m = r /\ (r - m) % m = r
<1>1. r % m = r
  OBVIOUS
<1>2. (r + m) % m = r
  OBVIOUS
<1>3. (r - m) % m = r
  OBVIOUS
<1> QED BY <1>1, <1>2, <1>3

LEMMA WideRange ==
    ASSUME NEW low \in Words, NEW high \in Words
    PROVE  /\ WideValues \in Nat \ {0} /\ WordValues \in Nat \ {0}
           /\ WordValues * high \in Nat /\ Wide(low, high) = low + WordValues * high
           /\ Wide(low, high) \in Nat /\ Wide(low, high) < WideValues
<1> DEFINE W == WordValues
<1>1. /\ W \in Nat \ {0} /\ low \in Nat /\ high \in Nat /\ low < W /\ high < W
  BY WordRange
<1>2. Wide(low, high) = low + W * high /\ WideValues = W * W
  BY DEF Wide, WideValues
<1> HIDE DEF W
<1>3. W * high \in Nat /\ W * W \in Nat \ {0} /\ W * (high + 1) = W * high + W
  BY <1>1
<1>4. W * (high + 1) <= W * W
  BY <1>1
<1> QED BY <1>1, <1>2, <1>3, <1>4 DEF W

LEMMA WideSum ==
    ASSUME NEW a \in Words, NEW b \in Words, NEW x \in Words, NEW y \in Words
    PROVE  LET c == a + b >= WordValues
               sum == Wide(a, x) + Wide(b, y)
           IN  /\ Wide(Plus(a, b), Plus(Plus(x, y), CarryValue(c))) = sum % WideValues
               /\ x + y + CarryValue(c) >= WordValues <=> sum >= WideValues
<1> DEFINE W == WordValues
           k == CarryValue(a + b >= WordValues)
           low == Plus(a, b)
           t == Plus(x, y)
           high == Plus(t, k)
           d == IF x + y + k >= W THEN 1 ELSE 0
           sum == Wide(a, x) + Wide(b, y)
<1>1. /\ W \in Nat /\ W >= 4 /\ a \in Nat /\ b \in Nat /\ x \in Nat /\ y \in Nat
      /\ a < W /\ b < W /\ x < W /\ y < W
  BY WordRange
<1>2. k \in {0, 1} /\ k \in Words /\ low = a + b - k * W /\ low \in Words
  <2>1. k = IF a + b >= W THEN 1 ELSE 0
    BY DEF CarryValue
  <2> QED BY <1>1, <2>1, PlusCases DEF Words
<1>3. /\ t \in Words
      /\ x + y < W => t = x + y
      /\ x + y >= W => t = x + y - W
  BY PlusCases
<1>4. /\ high \in Words
      /\ t + k < W => high = t + k
      /\ t + k >= W => high = t + k - W
  BY <1>2, <1>3, PlusCases
<1>5. t \in Nat /\ t < W /\ high \in Nat /\ high < W /\ low \in Nat
  BY <1>2, <1>3, <1>4, WordRange
<1> HIDE DEF W, k, low, t, high
<1>6. high = x + y + k - d * W /\ d \in {0, 1}
  BY <1>1, <1>2, <1>3, <1>4, <1>5
<1>7. W * high = W * x + W * y + k * W - d * (W * W)
  <2>1. W * x \in Int /\ W * y \in Int /\ W * W \in Int
    BY <1>1
  <2>2. CASE d = 0
    <3>1. high = x + y + k
      BY <1>1, <1>2, <1>6, <2>2
    <3> QED BY <1>1, <1>2, <2>1, <2>2, <3>1
  <2>3. CASE d = 1
    <3>1. high = x + y + k - W
      BY <1>1, <1>2, <1>6, <2>3
    <3> QED BY <1>1, <1>2, <2>1, <2>3, <3>1
  <2> QED BY <1>6, <2>2, <2>3
<1>8. /\ Wide(low, high) \in Nat /\ Wide(low, high) < WideValues /\ WideValues \in Nat \ {0}
      /\ Wide(low, high) = low + W * high
      /\ Wide(a, x) = a + W * x /\ Wide(b, y) = b + W * y
      /\ W * x \in Nat /\ W * y \in Nat /\ W * high \in Nat /\ WideValues = W * W
  BY <1>2, <1>4, WideRange DEF W, WideValues
<1>9. Wide(low, high) = sum - d * WideValues
  BY <1>1, <1>2, <1>5, <1>6, <1>7, <1>8
<1> HIDE DEF d
<1>10. sum % WideValues = Wide(low, high)
  <2>1. sum \in Int
    BY <1>1, <1>8
  <2> HIDE DEF sum
  <2>2. sum = Wide(low, high) \/ sum = Wide(low, high) + WideValues
    BY <1>6, <1>8, <1>9, <2>1
  <2> QED BY <1>8, <2>2, OneWrap
<1>11. d = 1 <=> sum >= WideValues
  <2>1. sum \in Int
    BY <1>1, <1>8
  <2> HIDE DEF sum
  <2> QED BY <1>6, <1>8, <1>9, <2>1
<1> QED BY <1>10, <1>11 DEF d, high, t, low, k, W

\* sbc after sub, where the first word is the smaller one or not.
LEMMA WideDifference ==
    ASSUME NEW a \in Words, NEW b \in Words, NEW x \in Words, NEW y \in Words
    PROVE  Wide(Minus(a, b), Minus(Minus(x, y), 1 - CarryValue(a < b)))
             = (Wide(a, x) - Wide(b, y) + (IF a < b THEN WordValues ELSE -WordValues))
                 % WideValues
<1> DEFINE W == WordValues
           k == CarryValue(a < b)
           low == Minus(a, b)
           t == Minus(x, y)
           high == Minus(t, 1 - k)
           d == IF x - y - 1 + k < 0 THEN 1 ELSE 0
           difference == Wide(a, x) - Wide(b, y) + (IF a < b THEN W ELSE -W)
<1>1. /\ W \in Nat /\ W >= 4 /\ a \in Nat /\ b \in Nat /\ x \in Nat /\ y \in Nat
      /\ a < W /\ b < W /\ x < W /\ y < W
  BY WordRange
<1>2. k \in {0, 1} /\ 1 - k \in Words /\ low = a - b + k * W /\ low \in Words
  <2>1. k = IF a < b THEN 1 ELSE 0
    BY DEF CarryValue
  <2>2. /\ low \in Words
        /\ a >= b => low = a - b
        /\ a < b => low = a - b + W
    BY MinusCases
  <2> HIDE DEF k, low
  <2>3. 1 - k \in Words
    BY <1>1, <2>1 DEF Words
  <2> HIDE DEF W
  <2> QED BY <1>1, <2>1, <2>2, <2>3
<1>3. /\ t \in Words
      /\ x >= y => t = x - y
      /\ x < y => t = x - y + W
  BY MinusCases
<1>4. /\ high \in Words
      /\ t >= 1 - k => high = t - (1 - k)
      /\ t < 1 - k => high = t - (1 - k) + W
  BY <1>2, <1>3, MinusCases
<1>5. t \in Nat /\ t < W /\ high \in Nat /\ high < W /\ low \in Nat
  BY <1>2, <1>3, <1>4, WordRange
<1>0. difference = Wide(a, x) - Wide(b, y) + (2 * k - 1) * W
  <2>1. k = IF a < b THEN 1 ELSE 0
    BY DEF CarryValue
  <2> HIDE DEF k
  <2>2. Wide(a, x) \in Int /\ Wide(b, y) \in Int
    BY WideRange
  <2> QED BY <1>1, <2>1, <2>2
<1> HIDE DEF W, k, low, t, high
<1>6. high = x - y - 1 + k + d * W /\ d \in {0, 1}
  BY <1>1, <1>2, <1>3, <1>4, <1>5
<1>7. W * high = W * x - W * y - W + k * W + d * (W * W)
  <2>1. W * x \in Int /\ W * y \in Int /\ W * W \in Int
    BY <1>1
  <2>2. CASE d = 0
    <3>1. high = x - y - 1 + k
      BY <1>1, <1>2, <1>6, <2>2
    <3> QED BY <1>1, <1>2, <2>1, <2>2, <3>1
  <2>3. CASE d = 1
    <3>1. high = x - y - 1 + k + W
      BY <1>1, <1>2, <1>6, <2>3
    <3> QED BY <1>1, <1>2, <2>1, <2>3, <3>1
  <2> QED BY <1>6, <2>2, <2>3
<1>8. /\ Wide(low, high) \in Nat /\ Wide(low, high) < WideValues /\ WideValues \in Nat \ {0}
      /\ Wide(low, high) = low + W * high
      /\ Wide(a, x) = a + W * x /\ Wide(b, y) = b + W * y
      /\ W * x \in Nat /\ W * y \in Nat /\ W * high \in Nat /\ WideValues = W * W
  BY <1>2, <1>4, WideRange DEF W, WideValues
<1> HIDE DEF difference
<1>9. Wide(low, high) = difference + d * WideValues /\ difference \in Int
  BY <1>0, <1>1, <1>2, <1>5, <1>6, <1>7, <1>8
<1> HIDE DEF d
<1>10. difference = Wide(low, high) \/ difference = Wide(low, high) - WideValues
  BY <1>6, <1>8, <1>9
<1>11. difference % WideValues = Wide(low, high)
  BY <1>8, <1>10, OneWrap
<1> QED BY <1>11 DEF difference, high, t, low, k, W

-----------------------------------------------------------------------------
\* The theorems

LEMMA ProgramsAreSound == Spec => []Sound
<1> USE InitIsSound, StepsKeepSound
<1> QED BY PTL DEF Spec

\* SumsOfTwoWords: add and adc add two-word numbers and set the carry when the
\* sum does not fit, for every word size and whatever runs in between.
THEOREM SumsAreExact == Spec => []SumsOfTwoWords
<1>1. ASSUME Sound PROVE SumsOfTwoWords
  <2> SUFFICES ASSUME Summed, second.isa = "ARM" \/ LowCarries
               PROVE  /\ WideResult = (WideA + WideB) % WideValues
                      /\ ~(second.a = AllOnes /\ second.b = AllOnes /\ LowCarries)
                            => flags.c = (WideA + WideB >= WideValues)
    BY DEF SumsOfTwoWords
  <2> DEFINE a == first.a
             b == first.b
             x == second.a
             y == second.b
  <2>1. second # Nil /\ first # Nil
    BY <1>1 DEF Sound, SecondSound, Summed
  <2>2. /\ a \in Words /\ b \in Words /\ x \in Words /\ y \in Words
        /\ first.opcode = "add" /\ first.result = Plus(a, b)
        /\ second.result = Plus(Plus(x, y), CarryValue(LowCarries))
        /\ flags.c <=> isCarryC(x, y, LowCarries, FALSE)
        /\ flags \in FlagSets
    BY <1>1, <2>1 DEF Sound, SecondSound, FirstSound
  <2>3. LowCarries = (a + b >= WordValues)
    BY DEF LowCarries
  <2> HIDE DEF a, b, x, y
  <2>4. WideResult = (Wide(a, x) + Wide(b, y)) % WideValues
    BY <2>2, <2>3, WideSum DEF WideResult
  <2>5. ASSUME ~(x = AllOnes /\ y = AllOnes /\ LowCarries)
        PROVE  flags.c <=> Wide(a, x) + Wide(b, y) >= WideValues
    <3>1. LowCarries \in BOOLEAN
      BY DEF LowCarries
    <3>2. isCarryC(x, y, LowCarries, FALSE) <=> x + y + CarryValue(LowCarries) >= WordValues
      BY <2>2, <2>5, <3>1, CarryInOfAddition DEF AllOnes
    <3>3. x + y + CarryValue(LowCarries) >= WordValues
            <=> Wide(a, x) + Wide(b, y) >= WideValues
      BY <2>2, <2>3, WideSum
    <3> QED BY <2>2, <3>2, <3>3
  <2> QED BY <2>2, <2>4, <2>5 DEF WideA, WideB, a, b, x, y, FlagSets
<1> QED BY <1>1, ProgramsAreSound, PTL

\* SignedBranches: after a cmp of either instruction set beq, bne, bge and blt
\* compare signed words, for every word size.
THEOREM BranchesCompareSigned == Spec => []SignedBranches
<1>1. ASSUME Sound PROVE SignedBranches
  <2> SUFFICES ASSUME branch # Nil, branch.condition \in {"eq", "ne", "ge", "lt"}
               PROVE  branch.taken = Relation(branch.condition, Signed(first.a), Signed(first.b))
    BY DEF SignedBranches
  <2>1. first # Nil /\ branch.taken \in BOOLEAN /\ first.a \in Words /\ first.b \in Words
    BY <1>1 DEF Sound, BranchSound, FirstSound
  <2>2. /\ Signed(first.a) \in Int /\ Signed(first.b) \in Int
        /\ Signed(first.a) = Signed(first.b) <=> first.a = first.b
    BY <2>1, WordRange, SignedCases
  <2> DEFINE x == Signed(first.a)
             y == Signed(first.b)
  <2>3. CASE branch.condition = "eq"
    <3>1. branch.taken = (x = y)
      BY <1>1, <2>1, <2>2, <2>3 DEF Sound, BranchSound
    <3> QED BY <2>3, <3>1 DEF Relation
  <2>4. CASE branch.condition = "ne"
    <3>1. branch.taken = (x # y)
      BY <1>1, <2>1, <2>2, <2>4 DEF Sound, BranchSound
    <3> QED BY <2>4, <3>1 DEF Relation
  <2>5. CASE branch.condition = "ge"
    <3>1. branch.taken <=> x >= y
      BY <1>1, <2>5 DEF Sound, BranchSound
    <3> HIDE DEF x, y
    <3>2. branch.taken = (x >= y)
      BY <2>1, <2>2, <3>1 DEF x, y
    <3> QED BY <2>5, <3>2 DEF Relation, x, y
  <2>6. CASE branch.condition = "lt"
    <3>1. branch.taken <=> ~(x >= y)
      BY <1>1, <2>6 DEF Sound, BranchSound
    <3> HIDE DEF x, y
    <3>2. branch.taken = (x < y)
      BY <2>1, <2>2, <3>1 DEF x, y
    <3> QED BY <2>6, <3>2 DEF Relation, x, y
  <2> QED BY <2>3, <2>4, <2>5, <2>6
<1> QED BY <1>1, ProgramsAreSound, PTL

\* BorrowBranches: after a cmp bcs is taken when the first word is the smaller
\* one, unsigned, and bcc when not.
THEOREM BranchesTellTheBorrow == Spec => []BorrowBranches
<1>1. ASSUME Sound PROVE BorrowBranches
  <2> SUFFICES ASSUME branch # Nil, branch.condition \in {"cs", "cc"}
               PROVE  branch.taken = (branch.condition = "cs" <=> first.a < first.b)
    BY DEF BorrowBranches
  <2>1. /\ branch.taken \in BOOLEAN
        /\ branch.condition = "cs" => (branch.taken <=> first.a < first.b)
        /\ branch.condition = "cc" => (branch.taken <=> ~(first.a < first.b))
    BY <1>1 DEF Sound, BranchSound
  <2> DEFINE smaller == first.a < first.b
  <2> HIDE DEF smaller
  <2>2. branch.taken <=> (branch.condition = "cs" <=> smaller)
    BY <2>1 DEF smaller
  <2> QED BY <2>1, <2>2 DEF smaller
<1> QED BY <1>1, ProgramsAreSound, PTL

\* DifferencesAreOffByOne: sub and sbc miss the two-word difference by one in
\* the high word, for every word size and all operands.
THEOREM DifferencesMiss == Spec => []DifferencesAreOffByOne
<1>1. ASSUME Sound PROVE DifferencesAreOffByOne
  <2> SUFFICES ASSUME Subtracted
               PROVE  WideResult
                        = (WideA - WideB + (IF first.a < first.b THEN WordValues
                                            ELSE -WordValues)) % WideValues
    BY DEF DifferencesAreOffByOne
  <2>1. second # Nil /\ first # Nil
    BY <1>1 DEF Sound, SecondSound, Subtracted
  <2>2. /\ first.a \in Words /\ first.b \in Words /\ second.a \in Words /\ second.b \in Words
        /\ first.result = Minus(first.a, first.b)
        /\ second.result = Minus(Minus(second.a, second.b), 1 - CarryValue(first.a < first.b))
    BY <1>1, <2>1 DEF Sound, SecondSound, FirstSound
  <2> QED BY <2>2, WideDifference DEF WideResult, WideA, WideB
<1> QED BY <1>1, ProgramsAreSound, PTL
=============================================================================
