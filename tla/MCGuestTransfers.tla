-------------------------- MODULE MCGuestTransfers --------------------------
(***************************************************************************)
(* Instructions, processors and memory for model checking GuestTransfers:  *)
(* words of 8 bits (bytes of 2), pages of two words, and three pages on    *)
(* both sides of address 0.  The pc is in page 1, the bases in page 0.     *)
(***************************************************************************)
EXTENDS GuestTransfers

MCPages == {31, 0, 1}

\* Any pages of the data with that of the code, or nothing at all.
MCMappings == {{}, {1}, {0, 1}, {1, 31}, {0, 1, 31}}

MCCells == {248, 252, 0, 4, 8, 12}

\* No two words alike; every bit of a word varies.
MCMemories == {[c \in MCCells |-> (37 * (c + 3)) % WordSpace]}

\* User registers, and those of fiq mode.
MCWord(slot) ==
    LET user == <<0, 255, 130, 5, 3, 77, 80, 90, 100, 110, 120, 140, 150, 4, 200, 8>>
    IN  IF slot[1] = userMode THEN user[slot[2] + 1]
        ELSE IF slot = <<fiqMode, 5>> THEN 4 ELSE 60 + slot[2]

MCRegisters == [s \in Slots |-> MCWord(s)]

MCBoot(mode, thumb, carry) ==
    LET q == SetMode([NewARMProcessor EXCEPT !.regs = MCRegisters], mode).p
    IN  [q EXCEPT !.cpsr.thumb = thumb, !.cpsr.c = carry]

MCBoots == {MCBoot(userMode, FALSE, TRUE), MCBoot(fiqMode, FALSE, FALSE),
            MCBoot(userMode, TRUE, FALSE)}

\* Two coprocessors of one number.
MCDevices == {<<[number |-> 1, register |-> 255], [number |-> 1, register |-> 9]>>}

MCSingles ==
    [format : {"single"}, onCarry : {FALSE}, load : BOOLEAN, byte : BOOLEAN,
     rd : {0, 15}, rn : {0, 15}, immediate : {TRUE}, offset : {5},
     rm : {0}, shift : {"lsl"}, amount : {0}, byRegister : {FALSE},
     preindex : BOOLEAN, up : BOOLEAN, writeBack : BOOLEAN]
    \union
    [format : {"single"}, onCarry : BOOLEAN, load : BOOLEAN, byte : {TRUE},
     rd : {1}, rn : {0}, immediate : {FALSE}, offset : {0},
     rm : {3}, shift : {"lsl", "lsr", "asr", "ror"}, amount : {0, 1},
     byRegister : {FALSE}, preindex : {TRUE}, up : {TRUE}, writeBack : {TRUE}]
    \union
    [format : {"single"}, onCarry : {FALSE}, load : BOOLEAN, byte : {FALSE},
     rd : {1}, rn : {0}, immediate : {FALSE}, offset : {0},
     rm : {3, 15}, shift : {"lsl"}, amount : {0},
     byRegister : BOOLEAN, preindex : {FALSE}, up : {TRUE}, writeBack : {TRUE}]

MCHalfwords ==
    [format : {"halfword"}, onCarry : {FALSE}, load : BOOLEAN, halfword : BOOLEAN,
     signed : BOOLEAN, rd : {1, 15}, rn : {0}, immediate : BOOLEAN,
     offset : {3}, rm : {3}, preindex : BOOLEAN, up : BOOLEAN, writeBack : {TRUE}]

MCSwaps == [format : {"swap"}, byte : BOOLEAN, rd : {1, 2}, rm : {1}, rn : {0, 3, 8}]

MCBlocks ==
    [format : {"block"}, load : BOOLEAN, rn : {0},
     list : {{1, 2, 8}, {0, 3}, {1, 15}, {13, 14}},
     preindex : BOOLEAN, up : BOOLEAN, writeBack : BOOLEAN, forceUser : BOOLEAN]
    \union
    [format : {"block"}, load : BOOLEAN, rn : {13}, list : {{0, 3}, {13, 14}},
     preindex : BOOLEAN, up : BOOLEAN, writeBack : {TRUE}, forceUser : BOOLEAN]

MCMultiplies ==
    {t \in [format : {"multiply", "longMultiply"}, signed : BOOLEAN,
            accumulate : BOOLEAN, s : {TRUE}, rdHigh : {0, 5}, rdLow : {1, 2, 5},
            rm : {1, 2, 3}, rs : {1, 2}] : CanMultiply(t)}

MCCoprocs ==
    [format : {"coprocOperation"}, number : {1, 2}]
    \union
    [format : {"coprocTransfer"}, load : BOOLEAN, rn : {0}, number : {1, 2},
     offset : {1}, preindex : BOOLEAN, up : BOOLEAN, writeBack : BOOLEAN]
    \union
    [format : {"coprocRegister"}, load : BOOLEAN, rd : {1, 15}, number : {1, 2}]

MCARM == MCSingles \union MCHalfwords \union MCSwaps \union MCBlocks
            \union MCMultiplies \union MCCoprocs

MCTHUMB ==
    [format : {"pcRelative"}, rd : {1}, offset : {0, 60}]
    \union
    [format : {"registerOffset"}, load : BOOLEAN, byte : BOOLEAN, rd : {1, 3},
     rb : {0}, ro : {3, 7}]
    \union
    [format : {"signExtended"}, signExtend : BOOLEAN, halfword : BOOLEAN,
     rd : {1, 3}, rb : {0}, ro : {3}]
    \union
    [format : {"immediateOffset"}, load : BOOLEAN, byte : BOOLEAN, rd : {1},
     rb : {0}, offset : {0, 1, 2}]
    \union
    [format : {"halfwordOffset"}, load : BOOLEAN, rd : {1}, rb : {0}, offset : {0, 3, 5}]
    \union
    [format : {"spRelative"}, load : BOOLEAN, rd : {1}, offset : {0, 1, 62}]
    \union
    [format : {"loadAddress"}, loadSP : BOOLEAN, rd : {1}, offset : {0, 2}]
    \union
    [format : {"addToSP"}, negative : BOOLEAN, offset : {1}]
    \union
    [format : {"pushPop"}, load : BOOLEAN, list : {{}, {0}, {1, 2}}, extra : BOOLEAN]
    \union
    [format : {"multiple"}, load : BOOLEAN, rb : {0, 4}, list : {{1}, {0, 2}, {1, 4, 5}}]
    \union
    [format : {"branchHigh", "branchLow"}, offset : {0, 3, 7}]
=============================================================================
