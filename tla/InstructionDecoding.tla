------------------------- MODULE InstructionDecoding -------------------------
(***************************************************************************)
(* The decoders against an assembler: the encodings of the architecture    *)
(* written the other way round, from the fields of an instruction to its   *)
(* word.  A decoder is a tree of tests whose order decides what a word     *)
(* that fits several formats means, and every format leaves bits it does   *)
(* not look at; the assembler has neither.                                 *)
(***************************************************************************)
EXTENDS THUMBDecoder

CONSTANTS ARMWords, THUMBWords

\* A word below its condition, and a halfword.
ASSUME DecodingAssumption ==
    ARMWords \subseteq 0 .. 2^28 - 1 /\ THUMBWords \subseteq 0 .. 2^16 - 1

\* "Decoding" in a name tells the state machine from that of the cache, which is
\* proved about in the same module.
VARIABLES
    thumb,    \* which decoder
    word,     \* the word
    decoded   \* what the decoder returns

decodingVars == <<thumb, word, decoded>>

NotYet == [format |-> "none"]

Bit(b) == IF b THEN 1 ELSE 0

Registers(d) == d.rn * 2^16 + d.rd * 2^12

Indexing(d) ==
    Bit(d.preindex) * 2^24 + Bit(d.up) * 2^23 + Bit(d.writeBack) * 2^21 + Bit(d.load) * 2^20

\* A register shifted by an amount or by a register.
ShiftedOperand(d) ==
    d.rm + d.shift.shiftType * 2^5 + Bit(d.shift.useRegister) * 2^4
    + IF d.shift.useRegister THEN d.shift.register * 2^8 ELSE d.shift.amount * 2^7

RotatedImmediate(d) == d.rotate * 2^8 + d.immediate

\* An msr with only the flags for its target, from an immediate; any other
\* msr names a register, and bit 16 tells its target.
PSROperand(d) ==
    IF ~d.write THEN d.rd * 2^12
    ELSE 2^21 + Bit(~d.flagsOnly) * 2^16
         + IF d.isImmediate THEN 2^25 + RotatedImmediate(d) ELSE d.rm

AssembleARM(d) ==
    CASE d.format = "swi" -> 15 * 2^24 + d.comment
      [] d.format = "branch" -> 5 * 2^25 + Bit(d.link) * 2^24 + d.offset
      [] d.format = "bx" -> 18 * 2^20 + 4095 * 2^8 + 2^4 + d.rn
      [] d.format = "coprocRegister" ->
            Registers(d) + 14 * 2^24 + d.opcode * 2^21 + Bit(d.load) * 2^20 + d.number * 2^8
            + d.operand * 2^5 + 2^4 + d.rm
      [] d.format = "coprocOperation" ->
            Registers(d) + 14 * 2^24 + d.opcode * 2^20 + d.number * 2^8 + d.info * 2^5 + d.rm
      [] d.format = "coprocTransfer" ->
            Registers(d) + Indexing(d) + 6 * 2^25 + Bit(d.long) * 2^22 + d.number * 2^8
            + d.offset
      [] d.format = "block" ->
            Indexing(d) + 4 * 2^25 + Bit(d.forceUser) * 2^22 + d.rn * 2^16 + d.list
      [] d.format = "single" ->
            Registers(d) + Indexing(d) + 2^26 + Bit(~d.isImmediate) * 2^25
            + Bit(d.byte) * 2^22 + IF d.isImmediate THEN d.offset ELSE ShiftedOperand(d)
      [] d.format = "halfword" ->
            Registers(d) + Indexing(d) + Bit(d.isImmediate) * 2^22
            + (d.operand \div 16) * 2^8 + 2^7 + Bit(d.signed) * 2^6 + Bit(d.halfword) * 2^5
            + 2^4 + (d.operand % 16)
      [] d.format = "swap" -> Registers(d) + 2^24 + Bit(d.byte) * 2^22 + 9 * 2^4 + d.rm
      [] d.format = "multiply" ->
            Bit(d.long) * 2^23 + Bit(d.signed) * 2^22 + Bit(d.accumulate) * 2^21
            + Bit(d.s) * 2^20 + d.rd * 2^16 + d.rn * 2^12 + d.rs * 2^8 + 9 * 2^4 + d.rm
      [] d.format = "psr" -> PSROperand(d) + 2^24 + Bit(~d.useCPSR) * 2^22 + 2^19
      [] d.format = "data" ->
            Registers(d) + Bit(d.isImmediate) * 2^25 + d.opcode * 2^21 + Bit(d.s) * 2^20
            + IF d.isImmediate THEN RotatedImmediate(d) ELSE ShiftedOperand(d)

LowRegisters(r0, r1, r2) == r0 + r1 * 2^3 + r2 * 2^6

AssembleTHUMB(d) ==
    CASE d.format = "moveShifted" ->
            LowRegisters(d.rd, d.rs, 0) + d.operation * 2^11 + d.offset * 2^6
      [] d.format = "addSubtract" ->
            LowRegisters(d.rd, d.rs, d.operand)
            + 3 * 2^11 + Bit(d.isImmediate) * 2^10 + Bit(d.subtract) * 2^9
      [] d.format = "immediate" -> 2^13 + d.operation * 2^11 + d.rd * 2^8 + d.immediate
      [] d.format = "alu" -> LowRegisters(d.rd, d.rs, 0) + 16 * 2^10 + d.opcode * 2^6
      [] d.format = "highRegister" ->
            LowRegisters(d.rd % 8, d.rs % 8, 0) + 17 * 2^10 + d.operation * 2^8
            + (d.rd \div 8) * 2^7 + (d.rs \div 8) * 2^6
      [] d.format = "pcRelative" -> 9 * 2^11 + d.rd * 2^8 + d.offset
      [] d.format = "registerOffset" ->
            LowRegisters(d.rd, d.rb, d.ro) + 5 * 2^12 + Bit(d.load) * 2^11 + Bit(d.byte) * 2^10
      [] d.format = "signExtended" ->
            LowRegisters(d.rd, d.rb, d.ro)
            + 5 * 2^12 + Bit(d.halfword) * 2^11 + Bit(d.signExtend) * 2^10 + 2^9
      [] d.format = "immediateOffset" ->
            LowRegisters(d.rd, d.rb, 0)
            + 3 * 2^13 + Bit(d.byte) * 2^12 + Bit(d.load) * 2^11 + d.offset * 2^6
      [] d.format = "halfwordOffset" ->
            LowRegisters(d.rd, d.rb, 0) + 8 * 2^12 + Bit(d.load) * 2^11 + d.offset * 2^6
      [] d.format = "spRelative" -> 9 * 2^12 + Bit(d.load) * 2^11 + d.rd * 2^8 + d.offset
      [] d.format = "loadAddress" -> 10 * 2^12 + Bit(d.loadSP) * 2^11 + d.rd * 2^8 + d.offset
      [] d.format = "addToSp" -> 11 * 2^12 + Bit(d.negative) * 2^7 + d.offset
      [] d.format = "pushPop" ->
            11 * 2^12 + Bit(d.load) * 2^11 + 2^10 + Bit(d.extra) * 2^8 + d.list
      [] d.format = "multiple" -> 12 * 2^12 + Bit(d.load) * 2^11 + d.rb * 2^8 + d.list
      [] d.format = "conditionalBranch" -> 13 * 2^12 + d.condition * 2^8 + d.offset
      [] d.format = "swi" -> 223 * 2^8 + d.comment
      [] d.format = "branch" -> 14 * 2^12 + d.offset
      [] d.format = "branchAndLink" -> 15 * 2^12 + Bit(d.offsetLow) * 2^11 + d.offset

\* The bits, high to low, that a format looks at: the decoded instruction tells
\* nothing of the others.
LookedAt(d) ==
    CASE thumb /\ d.format = "pushPop" -> {<<15, 11>>, <<8, 0>>}
      [] thumb /\ d.format = "branch"   -> {<<15, 12>>, <<10, 0>>}
      [] ~thumb /\ d.format = "data" /\ ~d.isImmediate /\ d.shift.useRegister ->
            {<<27, 8>>, <<6, 0>>}
      [] ~thumb /\ d.format = "psr" /\ ~d.write -> {<<27, 26>>, <<24, 19>>, <<15, 12>>}
      [] ~thumb /\ d.format = "psr" /\ d.write ->
            {<<27, 26>>, <<24, 19>>, <<16, 16>>, IF d.isImmediate THEN <<11, 0>> ELSE <<3, 0>>}
            \union IF d.flagsOnly THEN {<<25, 25>>} ELSE {}
      [] OTHER -> {<<27, 0>>}

ParseWord(w) == IF thumb THEN ParseTHUMBInstruction(w) ELSE ParseInstruction(w)
Assemble(d) == IF thumb THEN AssembleTHUMB(d) ELSE AssembleARM(d)

DecodingInit ==
    /\ \/ thumb = FALSE /\ word \in ARMWords
       \/ thumb = TRUE  /\ word \in THUMBWords
    /\ decoded = NotYet

DecodeARM ==
    /\ ~thumb /\ decoded = NotYet
    /\ decoded' = ParseInstruction(word)
    /\ UNCHANGED <<thumb, word>>

DecodeTHUMB ==
    /\ thumb /\ decoded = NotYet
    /\ decoded' = ParseTHUMBInstruction(word)
    /\ UNCHANGED <<thumb, word>>

DecodingNext == DecodeARM \/ DecodeTHUMB

DecodingSpec == DecodingInit /\ [][DecodingNext]_decodingVars
-----------------------------------------------------------------------------
Decoded == decoded # NotYet /\ decoded.format \notin {"error", "illegalShift"}

RegisterFields == {"rd", "rn", "rm", "rs", "rb", "ro"}

\* An ARM word names registers below 16, a THUMB word registers below 8 except
\* in an operation on high registers.
RegistersExist ==
    Decoded =>
        \A f \in RegisterFields \intersect DOMAIN decoded :
            decoded[f] \in 0 .. (IF thumb /\ decoded.format # "highRegister" THEN 7 ELSE 15)

\* Assembling what a word decodes to gives the word back, up to the bits its
\* format does not look at: no field of a parse function is read from the place
\* of another, none is lost, and no word of one format decodes as another
\* (ParseInstruction, ParseTHUMBInstruction and the parse functions).
FieldsRebuildTheWord ==
    Decoded => \A f \in LookedAt(decoded) :
                   Bits(Assemble(decoded), f[1], f[2]) = Bits(word, f[1], f[2])

\* A bit that a format does not look at changes nothing: the word with all of
\* these bits as the assembler writes them decodes to the same instruction,
\* whatever branch of the tree of tests it now takes.
IgnoredBitsAreIgnored ==
    Decoded => ParseWord(Assemble(decoded)) = decoded

\* What Emulate tests again but no word can bring about: a transfer with an
\* offset shifted by a register (the comment at src/instruction.go:613 and the
\* error at src/emulate.go:293), and a THUMB shift of a fourth type (the error
\* at src/emulate_thumb.go:43).
NoIllegalShift ==
    decoded # NotYet =>
        /\ decoded.format # "illegalShift"
        /\ ~thumb /\ decoded.format = "single" /\ ~decoded.isImmediate =>
               ~decoded.shift.useRegister
        /\ thumb /\ decoded.format = "moveShifted" => decoded.operation # 3
=============================================================================
