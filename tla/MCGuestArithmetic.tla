-------------------------- MODULE MCGuestArithmetic --------------------------
(***************************************************************************)
(* Instances of GuestArithmetic: words of five bits.  A register asks for  *)
(* up to 15 places, three words; the amounts it holds, up to 31, are cut   *)
(* to that.                                                                *)
(***************************************************************************)
EXTENDS GuestArithmetic

ARMForms(conditions, opcodes, sBits, rms, operands) ==
    [isa : {"ARM"}, condition : conditions, opcode : opcodes, s : sBits, rm : rms,
     operand : operands]

\* Every shift there is, by itself, also by a register that is r15.
MCShifts == ARMForms({"al"}, {"mov"}, {TRUE}, {0, 1},
                     ShiftedRegisters(ShiftTypes, 0 .. (WordBits - 1))
                         \union RegisterShifts(ShiftTypes, {1, 15}))

\* Every opcode on a shifted register and a rotated immediate, with and
\* without the S bit; a comparison without it is an mrs or msr if Rn is above 7.
MCOperands == ShiftedRegisters({"lsl"}, {1}) \union ShiftedRegisters({"ror"}, {0})
                \union Immediates({AllOnes}, {0, 1})

MCOpcodes == ARMForms({"al"}, ARMOpcodes \ Comparisons, BOOLEAN, {1}, MCOperands)
               \union ARMForms({"ge"}, Comparisons, BOOLEAN, {1}, MCOperands)

MCARM == MCShifts \union MCOpcodes

MCTHUMB == ALUInstructions(ALUOpcodes) \union MoveShiftedInstructions
             \union AddSubtractInstructions({0, 1, 3}) \union MoveCompareInstructions({0, 1, 5})
             \union HighRegisterInstructions
=============================================================================
