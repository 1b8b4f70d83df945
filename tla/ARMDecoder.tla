----------------------------- MODULE ARMDecoder -----------------------------
(***************************************************************************)
(* ParseInstruction and the parse functions it calls (src/instruction.go), *)
(* on the 28 bits of a word below its condition, as an integer.  A parse   *)
(* yields the fields of the instruction with its format; "error" is the    *)
(* format of a word for which the code returns an error.                   *)
(***************************************************************************)
EXTENDS Integers

\* Bits high to low of a word, and one bit as a test.
Bits(raw, high, low) == (raw \div 2^low) % 2^(high - low + 1)
BitSet(raw, n)       == Bits(raw, n, n) = 1

\* Faulty variant: the amount is read also when a register gives it.
NewARMShiftWhole(shift) ==
    [useRegister |-> BitSet(shift, 0), shiftType |-> Bits(shift, 2, 1),
     register |-> IF BitSet(shift, 0) THEN Bits(shift, 7, 4) ELSE 0,
     amount |-> Bits(shift, 7, 3)]

\* NewARMShift, on bits 11 to 4 of the word.
NewARMShift(shift) ==
    LET useRegister == BitSet(shift, 0)
    IN  [useRegister |-> useRegister, shiftType |-> Bits(shift, 2, 1),
         register |-> IF useRegister THEN Bits(shift, 7, 4) ELSE 0,
         amount |-> IF useRegister THEN 0 ELSE Bits(shift, 7, 3)]

Undecodable == [format |-> "error"]

parseSoftwareInterrupt(raw) == [format |-> "swi", comment |-> Bits(raw, 23, 0)]

parseCoprocRegisterTransfer(raw) ==
    [format |-> "coprocRegister", rd |-> Bits(raw, 15, 12), load |-> BitSet(raw, 20),
     number |-> Bits(raw, 11, 8), opcode |-> Bits(raw, 23, 21),
     operand |-> Bits(raw, 7, 5), rm |-> Bits(raw, 3, 0), rn |-> Bits(raw, 19, 16)]

parseCoprocDataOperation(raw) ==
    [format |-> "coprocOperation", number |-> Bits(raw, 11, 8), rm |-> Bits(raw, 3, 0),
     rd |-> Bits(raw, 15, 12), rn |-> Bits(raw, 19, 16), opcode |-> Bits(raw, 23, 20),
     info |-> Bits(raw, 7, 5)]

parseCoprocDataTransfer(raw) ==
    [format |-> "coprocTransfer", load |-> BitSet(raw, 20), writeBack |-> BitSet(raw, 21),
     up |-> BitSet(raw, 23), preindex |-> BitSet(raw, 24), rn |-> Bits(raw, 19, 16),
     offset |-> Bits(raw, 7, 0), number |-> Bits(raw, 11, 8), rd |-> Bits(raw, 15, 12),
     long |-> BitSet(raw, 22)]

parseBranch(raw) ==
    [format |-> "branch", offset |-> Bits(raw, 23, 0), link |-> BitSet(raw, 24)]

parseBlockDataTransfer(raw) ==
    [format |-> "block", load |-> BitSet(raw, 20), writeBack |-> BitSet(raw, 21),
     up |-> BitSet(raw, 23), preindex |-> BitSet(raw, 24), list |-> Bits(raw, 15, 0),
     rn |-> Bits(raw, 19, 16), forceUser |-> BitSet(raw, 22)]

\* "Illegal shift": the comment in the code says that this does not happen.
parseSingleDataTransfer(raw) ==
    IF ~BitSet(raw, 25)
      THEN [format |-> "single", load |-> BitSet(raw, 20), writeBack |-> BitSet(raw, 21),
            up |-> BitSet(raw, 23), preindex |-> BitSet(raw, 24), byte |-> BitSet(raw, 22),
            rd |-> Bits(raw, 15, 12), rn |-> Bits(raw, 19, 16), isImmediate |-> TRUE,
            offset |-> Bits(raw, 11, 0)]
    ELSE IF NewARMShift(Bits(raw, 11, 4)).useRegister THEN [format |-> "illegalShift"]
    ELSE [format |-> "single", load |-> BitSet(raw, 20), writeBack |-> BitSet(raw, 21),
          up |-> BitSet(raw, 23), preindex |-> BitSet(raw, 24), byte |-> BitSet(raw, 22),
          rd |-> Bits(raw, 15, 12), rn |-> Bits(raw, 19, 16), isImmediate |-> FALSE,
          shift |-> NewARMShift(Bits(raw, 11, 4)), rm |-> Bits(raw, 3, 0)]

\* Faulty variant: the high nibble of the offset comes from the wrong place.
parseHalfwordDataTransferShifted(raw) ==
    [format |-> "halfword", load |-> BitSet(raw, 20), writeBack |-> BitSet(raw, 21),
     up |-> BitSet(raw, 23), preindex |-> BitSet(raw, 24), rd |-> Bits(raw, 15, 12),
     rn |-> Bits(raw, 19, 16),
     halfword |-> BitSet(raw, 5), signed |-> BitSet(raw, 6), isImmediate |-> BitSet(raw, 22),
     operand |-> Bits(raw, 3, 0) + (IF BitSet(raw, 22) THEN 16 * Bits(raw, 7, 4) ELSE 0)]

\* operand is the offset or the register.
parseHalfwordDataTransfer(raw) ==
    [format |-> "halfword", load |-> BitSet(raw, 20), writeBack |-> BitSet(raw, 21),
     up |-> BitSet(raw, 23), preindex |-> BitSet(raw, 24), rd |-> Bits(raw, 15, 12),
     rn |-> Bits(raw, 19, 16),
     halfword |-> BitSet(raw, 5), signed |-> BitSet(raw, 6), isImmediate |-> BitSet(raw, 22),
     operand |-> Bits(raw, 3, 0) + (IF BitSet(raw, 22) THEN 16 * Bits(raw, 11, 8) ELSE 0)]

parseBranchExchange(raw) == [format |-> "bx", rn |-> Bits(raw, 3, 0)]

parseSingleDataSwap(raw) ==
    [format |-> "swap", rm |-> Bits(raw, 3, 0), rd |-> Bits(raw, 15, 12),
     rn |-> Bits(raw, 19, 16), byte |-> BitSet(raw, 22)]

\* Rn is the low destination of a long multiply.
parseMultiply(raw) ==
    LET rm == Bits(raw, 3, 0)
        rs == Bits(raw, 11, 8)
        rn == Bits(raw, 15, 12)
        rd == Bits(raw, 19, 16)
        long       == BitSet(raw, 23)
        accumulate == BitSet(raw, 21)
    IN  IF \/ 15 \in {rm, rs, rd}
           \/ rd \in {rm, rs}
           \/ (long \/ accumulate) /\ (rn = 15 \/ rd = rn)
           \/ long /\ rn = rm
          THEN Undecodable
          ELSE [format |-> "multiply", long |-> long, rm |-> rm, rs |-> rs, rn |-> rn,
                rd |-> rd, s |-> BitSet(raw, 20), accumulate |-> accumulate,
                signed |-> long /\ BitSet(raw, 22)]

\* An immediate is read only where it may set the flags alone.
parsePSRTransfer(raw) ==
    IF ~BitSet(raw, 21)
      THEN [format |-> "psr", useCPSR |-> ~BitSet(raw, 22), write |-> FALSE,
            rd |-> Bits(raw, 15, 12)]
    ELSE IF ~BitSet(raw, 16) /\ BitSet(raw, 25)
      THEN [format |-> "psr", useCPSR |-> ~BitSet(raw, 22), write |-> TRUE, flagsOnly |-> TRUE,
            isImmediate |-> TRUE, rm |-> Bits(raw, 3, 0), immediate |-> Bits(raw, 7, 0),
            rotate |-> Bits(raw, 11, 8)]
    ELSE [format |-> "psr", useCPSR |-> ~BitSet(raw, 22), write |-> TRUE,
          flagsOnly |-> ~BitSet(raw, 16), isImmediate |-> FALSE, rm |-> Bits(raw, 3, 0)]

\* 0x0d980000 selects bits 27, 26, 24, 23, 20 and 19.
parseDataProcessing(raw) ==
    IF Bits(raw, 27, 26) = 0 /\ Bits(raw, 24, 23) = 2 /\ Bits(raw, 20, 19) = 1
      THEN parsePSRTransfer(raw)
    ELSE IF BitSet(raw, 25)
      THEN [format |-> "data", s |-> BitSet(raw, 20), rd |-> Bits(raw, 15, 12),
            rn |-> Bits(raw, 19, 16), opcode |-> Bits(raw, 24, 21), isImmediate |-> TRUE,
            immediate |-> Bits(raw, 7, 0), rotate |-> Bits(raw, 11, 8)]
    ELSE [format |-> "data", s |-> BitSet(raw, 20), rd |-> Bits(raw, 15, 12),
          rn |-> Bits(raw, 19, 16), opcode |-> Bits(raw, 24, 21), isImmediate |-> FALSE,
          rm |-> Bits(raw, 3, 0), shift |-> NewARMShift(Bits(raw, 11, 4))]

\* The first half of ParseInstruction: bit 27 set.
ParseHigh(raw) ==
    IF ~BitSet(raw, 26)
      THEN IF BitSet(raw, 25) THEN parseBranch(raw) ELSE parseBlockDataTransfer(raw)
    ELSE IF ~BitSet(raw, 25) THEN parseCoprocDataTransfer(raw)
    ELSE IF BitSet(raw, 24) THEN parseSoftwareInterrupt(raw)
    ELSE IF BitSet(raw, 4) THEN parseCoprocRegisterTransfer(raw)
    ELSE parseCoprocDataOperation(raw)

\* Faulty variant: the undefined instruction is not told apart.
ParseSingleUnguarded(raw) == parseSingleDataTransfer(raw)

\* Bits 27 and 26 are 01: the undefined instruction has bits 25 and 4 set.
ParseSingle(raw) ==
    IF BitSet(raw, 25) /\ BitSet(raw, 4) THEN Undecodable
    ELSE parseSingleDataTransfer(raw)

\* 0x0e400f90 selects bits 27 to 25, 22, 11 to 7 and 4; 0x0e400090 leaves bits 11
\* to 8 to an immediate.
IsHalfword(raw) ==
    /\ Bits(raw, 27, 25) = 0 /\ BitSet(raw, 7) /\ BitSet(raw, 4)
    /\ BitSet(raw, 22) \/ Bits(raw, 11, 8) = 0

\* 0x0fb00f00: bits 27 to 23, 21, 20 and 11 to 8.
IsSwap(raw) == Bits(raw, 27, 23) = 2 /\ Bits(raw, 21, 20) = 0 /\ Bits(raw, 11, 8) = 0

\* 0x012fff1 above the register; 65521 is 0xfff1.
IsBranchExchange(raw) == Bits(raw, 27, 20) = 18 /\ Bits(raw, 19, 4) = 65521

IsMultiply(raw) == Bits(raw, 27, 22) = 0 \/ Bits(raw, 27, 23) = 1

ParseInstruction(raw) ==
    IF BitSet(raw, 27) THEN ParseHigh(raw)
    ELSE IF BitSet(raw, 26) THEN ParseSingle(raw)
    ELSE IF IsBranchExchange(raw) THEN parseBranchExchange(raw)
    ELSE IF Bits(raw, 7, 4) = 9 /\ IsSwap(raw) THEN parseSingleDataSwap(raw)
    ELSE IF Bits(raw, 7, 4) = 9 /\ IsMultiply(raw) THEN parseMultiply(raw)
    ELSE IF IsHalfword(raw) THEN parseHalfwordDataTransfer(raw)
    ELSE parseDataProcessing(raw)
=============================================================================
