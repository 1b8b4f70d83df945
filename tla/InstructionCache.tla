-------------------------- MODULE InstructionCache --------------------------
(***************************************************************************)
(* The two-way set-associative instruction cache (src/lru_cache.go) and    *)
(* its users getARMInstruction and getTHUMBInstruction                     *)
(* (src/processor.go), which decode an instruction on a miss.  The ARM and *)
(* THUMB halves of the code are copies of each other for two instruction   *)
(* sets, so one set of operators serves both, with the isa in the set's    *)
(* index.                                                                  *)
(***************************************************************************)
CONSTANTS
    Raw,                \* Raw[isa]: the instruction words the program fetches
    SetIndices,         \* 0 .. cacheSets - 1
    Hash(_, _),         \* hashARMInstruction, hashTHUMBInstruction
    Parse(_, _),        \* the instruction ParseInstruction returns, or Nil
    Nil                 \* Go's nil

ISAs == {"arm", "thumb"}

Instruction == [raw : UNION {Raw[isa] : isa \in ISAs}, isa : ISAs]

\* Every parse function stores the word it was given (toReturn.raw = raw), and
\* what it returns is not nil.
ASSUME CacheAssumption ==
    /\ Raw \in [ISAs -> SUBSET UNION {Raw[isa] : isa \in ISAs}]
    /\ \E isa \in ISAs : Raw[isa] # {}
    /\ Nil \notin Instruction
    /\ \A isa \in ISAs : \A raw \in Raw[isa] :
          /\ Hash(isa, raw) \in SetIndices
          /\ Parse(isa, raw) \in {Nil, [raw |-> raw, isa |-> isa]}

VARIABLES
    cache,              \* the sets of both halves
    answer              \* what the last lookup returned: an instruction, or
                        \* Nil for a decoding error

vars == <<cache, answer>>

Sets == ISAs \X SetIndices

CacheSet == [first : Instruction \union {Nil}, second : Instruction \union {Nil},
             firstUsedLast : BOOLEAN]

Init ==
    /\ cache = [s \in Sets |->
                  [first |-> Nil, second |-> Nil, firstUsedLast |-> FALSE]]
    /\ answer = Nil

\* getARMInstruction and getTHUMBInstruction of the cache: the set afterwards
\* and the instruction found, Nil on a miss.
Get(set, raw) ==
    IF set.first = Nil THEN [set |-> set, found |-> Nil]
    ELSE IF set.first.raw = raw
      THEN [set |-> [set EXCEPT !.firstUsedLast = TRUE], found |-> set.first]
    ELSE IF set.second = Nil \/ set.second.raw # raw
      THEN [set |-> set, found |-> Nil]
    ELSE [set |-> [set EXCEPT !.firstUsedLast = FALSE], found |-> set.second]

\* Faulty variant: a full set always loses its second way.
StoreSecondOnly(set, n) ==
    IF set.first = Nil THEN [set EXCEPT !.first = n, !.firstUsedLast = TRUE]
    ELSE [set EXCEPT !.second = n, !.firstUsedLast = FALSE]

\* storeARMInstruction and storeTHUMBInstruction: fill an empty way, else
\* replace the one that was not used last.
Store(set, n) ==
    IF set.first = Nil THEN [set EXCEPT !.first = n, !.firstUsedLast = TRUE]
    ELSE IF set.second = Nil
      THEN [set EXCEPT !.second = n, !.firstUsedLast = FALSE]
    ELSE IF set.firstUsedLast
      THEN [set EXCEPT !.second = n, !.firstUsedLast = FALSE]
    ELSE [set EXCEPT !.first = n, !.firstUsedLast = TRUE]

\* Faulty variant: an instruction found in the cache is stored once more.
LookupStoringHits(isa, raw) ==
    LET s      == <<isa, Hash(isa, raw)>>
        parsed == Parse(isa, raw)
    IN  /\ answer' = parsed
        /\ IF parsed = Nil THEN UNCHANGED cache
           ELSE cache' = [cache EXCEPT ![s] = Store(Get(@, raw).set, parsed)]

\* getARMInstruction and getTHUMBInstruction of the processor, for a fetch or
\* for PendingInstructionString: an instruction that cannot be decoded is not
\* stored.
Lookup(isa, raw) ==
    LET s      == <<isa, Hash(isa, raw)>>
        hit    == Get(cache[s], raw)
        parsed == Parse(isa, raw)
    IN  IF hit.found # Nil
          THEN /\ cache' = [cache EXCEPT ![s] = hit.set]
               /\ answer' = hit.found
        ELSE IF parsed = Nil
          THEN answer' = Nil /\ UNCHANGED cache
        ELSE /\ cache' = [cache EXCEPT ![s] = Store(hit.set, parsed)]
             /\ answer' = parsed

Next == \E isa \in ISAs : \E raw \in Raw[isa] : Lookup(isa, raw)

Spec == Init /\ [][Next]_vars

-----------------------------------------------------------------------------
\* Properties

TypeOK == cache \in [Sets -> CacheSet] /\ answer \in Instruction \union {Nil}

\* The ways of a set hold what decoding their word would give, in the order
\* they are filled, and never the same instruction twice: the early returns of
\* Get rely on an empty first way meaning an empty set, and a second copy of an
\* instruction would waste the way another one needs.
WaysHold(s, n) ==
    n # Nil => /\ n.isa = s[1] /\ n.raw \in Raw[n.isa]
               /\ Hash(n.isa, n.raw) = s[2]
               /\ Parse(n.isa, n.raw) = n

WaysSound ==
    \A s \in Sets :
        LET set == cache[s]
        IN  /\ WaysHold(s, set.first) /\ WaysHold(s, set.second)
            /\ set.first = Nil => set.second = Nil
            /\ set.first # Nil => set.first # set.second

\* The keys of the abstract cache are the words of both instruction sets.
Keys == {k \in ISAs \X UNION {Raw[isa] : isa \in ISAs} : k[2] \in Raw[k[1]]}

KeySet(k)   == <<k[1], Hash(k[1], k[2])>>
KeyValue(k) == Parse(k[1], k[2])

HeldIn(set) == {<<n.isa, n.raw>> : n \in {set.first, set.second} \ {Nil}}

\* With nothing held, any key will do.
LatestIn(set) ==
    LET n == IF set.firstUsedLast \/ set.second = Nil THEN set.first ELSE set.second
    IN  IF n = Nil THEN CHOOSE k \in Keys : TRUE ELSE <<n.isa, n.raw>>

Held   == [s \in Sets |-> HeldIn(cache[s])]
Latest == [s \in Sets |-> LatestIn(cache[s])]

LRU == INSTANCE RecentPairs
         WITH SetOf <- KeySet, Value <- KeyValue, NoValue <- Nil,
              held <- Held, latest <- Latest

\* The cache is transparent, every lookup being answered as ParseInstruction
\* would, and what it evicts is the instruction used less recently, so that
\* two colliding instructions of a loop both stay.
CachesTheRecentPair == LRU!Spec
=============================================================================
