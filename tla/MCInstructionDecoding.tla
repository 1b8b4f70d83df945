----------------------- MODULE MCInstructionDecoding -----------------------
(***************************************************************************)
(* Words for InstructionDecoding: every THUMB halfword, and the ARM words  *)
(* below their condition with every value of the bits the decoder tests    *)
(* (27 to 20 and 7 to 4) and a few of the other nibbles.                   *)
(***************************************************************************)
EXTENDS InstructionDecoding

MCARMWords ==
    {2^20 * top + 2^16 * n + 2^12 * d + 2^8 * s + 16 * middle + m :
        top \in 0 .. 255, n \in {1, 6, 15}, d \in {2, 15}, s \in {0, 15},
        middle \in 0 .. 15, m \in {3, 15}}

MCTHUMBWords == 0 .. (2^16 - 1)
=============================================================================
