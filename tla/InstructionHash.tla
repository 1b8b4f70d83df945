-------------------------- MODULE InstructionHash ---------------------------
(***************************************************************************)
(* The hash functions of src/lru_cache.go on instruction words.            *)
(***************************************************************************)
LOCAL INSTANCE Integers
LOCAL INSTANCE Bitwise

cacheSets == 64

hashARMInstruction(raw) == (raw ^^ (raw \div 2^27)) % cacheSets

hashTHUMBInstruction(raw) == (raw ^^ (raw \div 2^8)) % cacheSets
=============================================================================
