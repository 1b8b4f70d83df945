------------------------- MODULE MCInstructionCache -------------------------
(***************************************************************************)
(* The cache with the code's hash functions and its 64 sets, and a program *)
(* of real instruction words that collide.                                 *)
(***************************************************************************)
EXTENDS InstructionCache, InstructionHash, Integers

\* Four ARM words of set 17, one of which (a umulleq whose destination is its
\* operand, 0x00810191) does not decode, and one of set 2; among the first is
\* 0x08000010, whose top bits the hash folds in.  Four THUMB words, three of
\* them in set 0.
MCUndecodable == 8454545
MCRaw == [isa \in ISAs |->
            IF isa = "arm"
              THEN {8388625, 8388689, 134217744, MCUndecodable, 8388610}
              ELSE {0, 64, 257, 7}]

MCSetIndices == 0 .. (cacheSets - 1)

MCHash(isa, raw) == IF isa = "arm" THEN hashARMInstruction(raw)
                                   ELSE hashTHUMBInstruction(raw)

MCParse(isa, raw) == IF isa = "arm" /\ raw = MCUndecodable THEN Nil
                     ELSE [raw |-> raw, isa |-> isa]
=============================================================================
