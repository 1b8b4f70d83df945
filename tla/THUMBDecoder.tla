---------------------------- MODULE THUMBDecoder ----------------------------
(***************************************************************************)
(* ParseTHUMBInstruction and the parse functions it calls                  *)
(* (src/instruction_thumb.go), on the 16 bits of a halfword.               *)
(***************************************************************************)
EXTENDS ARMDecoder

\* The low registers at bits 2 to 0, 5 to 3 and 8 to 6.
Low(raw)  == Bits(raw, 2, 0)
Mid(raw)  == Bits(raw, 5, 3)
High(raw) == Bits(raw, 8, 6)

parseMoveShiftedRegister(raw) ==
    [format |-> "moveShifted", rd |-> Low(raw), rs |-> Mid(raw),
     offset |-> Bits(raw, 10, 6), operation |-> Bits(raw, 12, 11)]

\* operand is the immediate or Rn, which are the same bits.
parseAddSubtract(raw) ==
    [format |-> "addSubtract", rd |-> Low(raw), rs |-> Mid(raw), operand |-> High(raw),
     subtract |-> BitSet(raw, 9), isImmediate |-> BitSet(raw, 10)]

parseMoveCompareAddSubtractImmediate(raw) ==
    [format |-> "immediate", immediate |-> Bits(raw, 7, 0), operation |-> Bits(raw, 12, 11),
     rd |-> Bits(raw, 10, 8)]

parseALUOperation(raw) ==
    [format |-> "alu", opcode |-> Bits(raw, 9, 6), rd |-> Low(raw), rs |-> Mid(raw)]

\* Faulty variant: a bit too many is taken for the low part of Rd.
parseHighRegisterOperationWide(raw) ==
    [format |-> "highRegister", operation |-> Bits(raw, 9, 8),
     highFlag1 |-> BitSet(raw, 7), highFlag2 |-> BitSet(raw, 6),
     rd |-> Bits(raw, 3, 0) + (IF BitSet(raw, 7) THEN 8 ELSE 0),
     rs |-> Mid(raw) + (IF BitSet(raw, 6) THEN 8 ELSE 0)]

parseHighRegisterOperation(raw) ==
    [format |-> "highRegister", operation |-> Bits(raw, 9, 8),
     highFlag1 |-> BitSet(raw, 7), highFlag2 |-> BitSet(raw, 6),
     rd |-> Low(raw) + (IF BitSet(raw, 7) THEN 8 ELSE 0),
     rs |-> Mid(raw) + (IF BitSet(raw, 6) THEN 8 ELSE 0)]

parsePCRelativeLoad(raw) ==
    [format |-> "pcRelative", offset |-> Bits(raw, 7, 0), rd |-> Bits(raw, 10, 8)]

parseLoadStoreRegisterOffset(raw) ==
    [format |-> "registerOffset", byte |-> BitSet(raw, 10), load |-> BitSet(raw, 11),
     rd |-> Low(raw), rb |-> Mid(raw), ro |-> High(raw)]

parseLoadStoreSignExtendedHalfword(raw) ==
    [format |-> "signExtended", rd |-> Low(raw), rb |-> Mid(raw), ro |-> High(raw),
     signExtend |-> BitSet(raw, 10), halfword |-> BitSet(raw, 11)]

parseLoadStoreImmediateOffset(raw) ==
    [format |-> "immediateOffset", rd |-> Low(raw), rb |-> Mid(raw),
     offset |-> Bits(raw, 10, 6), load |-> BitSet(raw, 11), byte |-> BitSet(raw, 12)]

parseLoadStoreHalfword(raw) ==
    [format |-> "halfwordOffset", rd |-> Low(raw), rb |-> Mid(raw),
     offset |-> Bits(raw, 10, 6), load |-> BitSet(raw, 11)]

parseSPRelativeLoadStore(raw) ==
    [format |-> "spRelative", offset |-> Bits(raw, 7, 0), rd |-> Bits(raw, 10, 8),
     load |-> BitSet(raw, 11)]

parseLoadAddress(raw) ==
    [format |-> "loadAddress", offset |-> Bits(raw, 7, 0), rd |-> Bits(raw, 10, 8),
     loadSP |-> BitSet(raw, 11)]

parseAddToStackPointer(raw) ==
    [format |-> "addToSp", offset |-> Bits(raw, 6, 0), negative |-> BitSet(raw, 7)]

\* Bits 10 and 9 are not looked at.
parsePushPopRegisters(raw) ==
    [format |-> "pushPop", list |-> Bits(raw, 7, 0), extra |-> BitSet(raw, 8),
     load |-> BitSet(raw, 11)]

parseMultipleLoadStore(raw) ==
    [format |-> "multiple", list |-> Bits(raw, 7, 0), rb |-> Bits(raw, 10, 8),
     load |-> BitSet(raw, 11)]

parseConditionalBranch(raw) ==
    IF Bits(raw, 11, 8) = 14 THEN Undecodable
    ELSE [format |-> "conditionalBranch", offset |-> Bits(raw, 7, 0),
          condition |-> Bits(raw, 11, 8)]

parseSoftwareInterruptTHUMB(raw) == [format |-> "swi", comment |-> Bits(raw, 7, 0)]

\* Bit 11 is not looked at.
parseUnconditionalBranch(raw) == [format |-> "branch", offset |-> Bits(raw, 10, 0)]

parseLongBranchAndLink(raw) ==
    [format |-> "branchAndLink", offset |-> Bits(raw, 10, 0), offsetLow |-> BitSet(raw, 11)]

\* Bits 15 and 14 are 11.
ParseControl(raw) ==
    CASE Bits(raw, 13, 12) = 3 -> parseLongBranchAndLink(raw)
      [] Bits(raw, 13, 12) = 2 -> parseUnconditionalBranch(raw)
      [] Bits(raw, 13, 12) = 1 -> IF Bits(raw, 11, 8) = 15
                                    THEN parseSoftwareInterruptTHUMB(raw)
                                    ELSE parseConditionalBranch(raw)
      [] Bits(raw, 13, 12) = 0 -> parseMultipleLoadStore(raw)

\* Bits 15 and 14 are 10.
ParseTransfer(raw) ==
    CASE Bits(raw, 13, 12) = 3 -> IF Bits(raw, 11, 8) # 0 THEN parsePushPopRegisters(raw)
                                  ELSE parseAddToStackPointer(raw)
      [] Bits(raw, 13, 12) = 2 -> parseLoadAddress(raw)
      [] Bits(raw, 13, 12) = 1 -> parseSPRelativeLoadStore(raw)
      [] Bits(raw, 13, 12) = 0 -> parseLoadStoreHalfword(raw)

\* Bits 15 and 14 are 00.
ParseOperation(raw) ==
    IF BitSet(raw, 13) THEN parseMoveCompareAddSubtractImmediate(raw)
    ELSE IF Bits(raw, 12, 11) = 3 THEN parseAddSubtract(raw)
    ELSE parseMoveShiftedRegister(raw)

\* Bits 15 and 14 are 01.
ParseMixed(raw) ==
    CASE BitSet(raw, 13) -> parseLoadStoreImmediateOffset(raw)
      [] Bits(raw, 13, 12) = 1 /\ ~BitSet(raw, 9) -> parseLoadStoreRegisterOffset(raw)
      [] Bits(raw, 13, 12) = 1 /\ BitSet(raw, 9)  -> parseLoadStoreSignExtendedHalfword(raw)
      [] Bits(raw, 13, 11) = 1 -> parsePCRelativeLoad(raw)
      [] Bits(raw, 13, 10) = 1 -> parseHighRegisterOperation(raw)
      [] Bits(raw, 13, 10) = 0 -> parseALUOperation(raw)

ParseTHUMBInstruction(raw) ==
    CASE Bits(raw, 15, 14) = 3 -> ParseControl(raw)
      [] Bits(raw, 15, 14) = 2 -> ParseTransfer(raw)
      [] Bits(raw, 15, 14) = 1 -> ParseMixed(raw)
      [] Bits(raw, 15, 14) = 0 -> ParseOperation(raw)
=============================================================================
