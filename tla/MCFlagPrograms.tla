--------------------------- MODULE MCFlagPrograms ---------------------------
(***************************************************************************)
(* Instances of FlagPrograms: three-bit words, all pairs of them.          *)
(***************************************************************************)
EXTENDS FlagPrograms

MCBetweenOpcodes == ARMOpcodes \ Comparisons
MCBetweenWords == {0, 1, AllOnes}
=============================================================================
