-------------------------- MODULE InstructionProofs --------------------------
(***************************************************************************)
(* Proofs about the way from a word to its instruction.  The instruction   *)
(* cache is transparent and keeps the two most recently used instructions  *)
(* of each set, for any instruction words, any hash functions and any      *)
(* number of sets.  The decoders take every word apart without loss: the   *)
(* assembler of InstructionDecoding gives back every bit that the format   *)
(* looks at, for all words below 2^28 and all halfwords.                   *)
(***************************************************************************)
EXTENDS InstructionCache, InstructionDecoding, TLAPS

Inv == TypeOK /\ WaysSound

\* What Init and the lookups keep about one set.
SetSound(s, set) ==
    /\ set \in CacheSet
    /\ WaysHold(s, set.first) /\ WaysHold(s, set.second)
    /\ set.first = Nil => set.second = Nil
    /\ set.first # Nil => set.first # set.second

\* The instruction of a word and what Parse makes of it.
LEMMA ParseFacts ==
    ASSUME NEW isa \in ISAs, NEW raw \in Raw[isa]
    PROVE  /\ <<isa, Hash(isa, raw)>> \in Sets
           /\ [raw |-> raw, isa |-> isa] \in Instruction
           /\ Parse(isa, raw) # Nil =>
                /\ Parse(isa, raw) = [raw |-> raw, isa |-> isa]
                /\ WaysHold(<<isa, Hash(isa, raw)>>, Parse(isa, raw))
<1>1. Hash(isa, raw) \in SetIndices
      /\ Parse(isa, raw) \in {Nil, [raw |-> raw, isa |-> isa]}
  BY CacheAssumption
<1>2. [raw |-> raw, isa |-> isa] \in Instruction
  BY DEF Instruction
<1> QED BY <1>1, <1>2 DEF Sets, WaysHold

\* An instruction a sound set holds is the one its word decodes to.
LEMMA HeldIsParsed ==
    ASSUME NEW s \in Sets, NEW n \in Instruction, WaysHold(s, n)
    PROVE  n = [raw |-> n.raw, isa |-> s[1]] /\ n = Parse(s[1], n.raw)
           /\ n.raw \in Raw[s[1]] /\ s = <<s[1], Hash(s[1], n.raw)>>
<1>1. n # Nil
  BY CacheAssumption
<1> QED BY <1>1 DEF WaysHold, Sets, Instruction

\* Get changes nothing but the recency bit, and finds the instruction if and
\* only if one of the ways holds it.
GetOutcome(isa, raw, set, r) ==
    /\ r.set \in CacheSet
    /\ r.set.first = set.first /\ r.set.second = set.second
    /\ r.found \in {set.first, set.second, Nil}
    /\ r.found # Nil => /\ r.found = [raw |-> raw, isa |-> isa]
                        /\ r.found = Parse(isa, raw)
                        /\ r.set.firstUsedLast <=> r.found = set.first
    /\ r.found = Nil => /\ r.set = set
                        /\ [raw |-> raw, isa |-> isa]
                              \notin {set.first, set.second}

LEMMA GetFacts ==
    ASSUME NEW isa \in ISAs, NEW raw \in Raw[isa], NEW set,
           SetSound(<<isa, Hash(isa, raw)>>, set)
    PROVE  GetOutcome(isa, raw, set, Get(set, raw))
<1> DEFINE s == <<isa, Hash(isa, raw)>>
           n == [raw |-> raw, isa |-> isa]
<1>1. s \in Sets /\ s[1] = isa /\ n \in Instruction /\ n.raw = raw /\ n # Nil
  BY ParseFacts, CacheAssumption
<1>2. set \in CacheSet /\ set.first \in Instruction \union {Nil}
      /\ set.second \in Instruction \union {Nil}
  BY DEF SetSound, CacheSet
<1>3. ASSUME NEW w \in {set.first, set.second}, w # Nil, w.raw = raw
      PROVE  w = n /\ w = Parse(isa, raw)
  BY <1>1, <1>2, <1>3, HeldIsParsed DEF SetSound
<1>4. CASE set.first = Nil
  BY <1>1, <1>2, <1>4 DEF Get, SetSound, GetOutcome
<1>5. CASE set.first # Nil /\ set.first.raw = raw
  BY <1>1, <1>2, <1>3, <1>5 DEF Get, CacheSet, GetOutcome
<1>6. CASE set.first # Nil /\ set.first.raw # raw
           /\ (set.second = Nil \/ set.second.raw # raw)
  BY <1>1, <1>2, <1>6 DEF Get, GetOutcome
<1>7. CASE set.first # Nil /\ set.first.raw # raw
           /\ set.second # Nil /\ set.second.raw = raw
  BY <1>1, <1>2, <1>3, <1>7 DEF Get, CacheSet, SetSound, GetOutcome
<1> QED BY <1>4, <1>5, <1>6, <1>7

\* Store puts the instruction in one way and, when both are taken, leaves the
\* one used last alone.
LEMMA StoreFacts ==
    ASSUME NEW set \in CacheSet, NEW n \in Instruction, n # Nil,
           set.first = Nil => set.second = Nil
    PROVE  LET r == Store(set, n) IN
           /\ r \in CacheSet
           /\ \/ /\ set.first = Nil
                 /\ r.first = n /\ r.second = Nil /\ r.firstUsedLast
              \/ /\ set.first # Nil /\ (set.second = Nil \/ set.firstUsedLast)
                 /\ r.first = set.first /\ r.second = n /\ ~r.firstUsedLast
              \/ /\ set.first # Nil /\ set.second # Nil /\ ~set.firstUsedLast
                 /\ r.first = n /\ r.second = set.second /\ r.firstUsedLast
BY DEF Store, CacheSet

\* A lookup keeps its set sound.
LEMMA LookupSound ==
    ASSUME NEW isa \in ISAs, NEW raw \in Raw[isa], NEW set,
           SetSound(<<isa, Hash(isa, raw)>>, set)
    PROVE  LET s == <<isa, Hash(isa, raw)>>
               hit == Get(set, raw)
           IN  /\ SetSound(s, hit.set)
               /\ hit.found = Nil /\ Parse(isa, raw) # Nil
                     => SetSound(s, Store(hit.set, Parse(isa, raw)))
<1> DEFINE s == <<isa, Hash(isa, raw)>>
           hit == Get(set, raw)
           n == Parse(isa, raw)
<1>0. SetSound(s, set)
  OBVIOUS
<1>1. SetSound(s, hit.set)
  <2>1. hit.set \in CacheSet /\ hit.set.first = set.first
        /\ hit.set.second = set.second
    <3>1. GetOutcome(isa, raw, set, hit)
      BY GetFacts
    <3> HIDE DEF hit
    <3> QED BY <3>1 DEF GetOutcome
  <2> HIDE DEF hit, s
  <2> QED BY <1>0, <2>1 DEF SetSound
<1>2. ASSUME hit.found = Nil, n # Nil PROVE SetSound(s, Store(hit.set, n))
  <2>1. n = [raw |-> raw, isa |-> isa] /\ n \in Instruction /\ WaysHold(s, n)
    BY <1>2, ParseFacts
  <2>2. hit.set = set /\ n \notin {set.first, set.second}
    <3>1. GetOutcome(isa, raw, set, hit)
      BY GetFacts
    <3> HIDE DEF hit, n
    <3> QED BY <1>2, <2>1, <3>1 DEF GetOutcome
  <2> DEFINE r == Store(set, n)
  <2>3. /\ r \in CacheSet
        /\ \/ r.first = n /\ r.second = Nil
           \/ set.first # Nil /\ r.first = set.first /\ r.second = n
           \/ set.second # Nil /\ r.first = n /\ r.second = set.second
    BY <1>2, <2>1, StoreFacts DEF SetSound
  <2>4. WaysHold(s, Nil)
    BY DEF WaysHold
  <2> HIDE DEF r, n, s
  <2>5. SetSound(s, r)
    BY <1>0, <1>2, <2>1, <2>2, <2>3, <2>4 DEF SetSound
  <2> QED BY <2>2, <2>5 DEF r
<1> QED BY <1>1, <1>2

-----------------------------------------------------------------------------
\* The invariant

LEMMA InvIsSetSound == Inv <=> /\ cache \in [Sets -> CacheSet]
                               /\ answer \in Instruction \union {Nil}
                               /\ \A s \in Sets : SetSound(s, cache[s])
BY DEF Inv, TypeOK, WaysSound, SetSound

LEMMA LookupKeepsInv ==
    ASSUME Inv, NEW isa \in ISAs, NEW raw \in Raw[isa], Lookup(isa, raw)
    PROVE  Inv'
<1> DEFINE s == <<isa, Hash(isa, raw)>>
           hit == Get(cache[s], raw)
           n == Parse(isa, raw)
<1>1. s \in Sets /\ (n # Nil => n \in Instruction)
  BY ParseFacts
<1>2. SetSound(s, cache[s]) /\ cache \in [Sets -> CacheSet]
  BY <1>1, InvIsSetSound
<1>3. /\ SetSound(s, hit.set)
      /\ hit.found = Nil /\ n # Nil => SetSound(s, Store(hit.set, n))
      /\ hit.found \in Instruction \union {Nil}
  <2>1. hit.found \in {cache[s].first, cache[s].second, Nil}
    <3>1. GetOutcome(isa, raw, cache[s], hit)
      BY <1>2, GetFacts
    <3> HIDE DEF hit
    <3> QED BY <3>1 DEF GetOutcome
  <2>2. {cache[s].first, cache[s].second} \subseteq Instruction \union {Nil}
    BY <1>2 DEF SetSound, CacheSet
  <2> QED BY <1>2, <2>1, <2>2, LookupSound
<1>4. \/ cache' = cache
      \/ \E new : SetSound(s, new) /\ cache' = [cache EXCEPT ![s] = new]
  <2> HIDE DEF s, hit, n
  <2>1. \/ cache' = cache
        \/ cache' = [cache EXCEPT ![s] = hit.set]
        \/ hit.found = Nil /\ n # Nil
           /\ cache' = [cache EXCEPT ![s] = Store(hit.set, n)]
    BY DEF Lookup, s, hit, n
  <2> QED BY <1>3, <2>1
<1>5. answer' \in Instruction \union {Nil}
  <2> HIDE DEF s, hit
  <2> QED BY <1>1, <1>3 DEF Lookup, s, hit
<1> HIDE DEF s, hit, n
<1>6. cache' \in [Sets -> CacheSet] /\ \A t \in Sets : SetSound(t, cache'[t])
  BY <1>1, <1>2, <1>4, InvIsSetSound DEF SetSound
<1> QED BY <1>5, <1>6 DEF Inv, TypeOK, WaysSound, SetSound

LEMMA Invariance == Spec => []Inv
<1>1. Init => Inv
  BY DEF Init, Inv, TypeOK, WaysSound, WaysHold, CacheSet
<1>2. Inv /\ [Next]_vars => Inv'
  <2> SUFFICES ASSUME Inv, [Next]_vars PROVE Inv'
    OBVIOUS
  <2>1. CASE Next
    BY <2>1, LookupKeepsInv DEF Next
  <2>2. CASE UNCHANGED vars
    BY <2>2 DEF vars, Inv, TypeOK, WaysSound
  <2> QED BY <2>1, <2>2
<1> QED BY <1>1, <1>2, PTL DEF Spec

\* The ways of every set hold instructions or nil.
THEOREM TypeCorrect == Spec => []TypeOK
BY Invariance, PTL DEF Inv

\* Both ways of a set are filled in order, with decoded instructions of that
\* set, never twice with the same one.
THEOREM WaysAlwaysSound == Spec => []WaysSound
BY Invariance, PTL DEF Inv

-----------------------------------------------------------------------------
\* The refinement

LEMMA KeyFacts ==
    ASSUME NEW isa \in ISAs, NEW raw \in Raw[isa]
    PROVE  /\ <<isa, raw>> \in Keys
           /\ KeySet(<<isa, raw>>) = <<isa, Hash(isa, raw)>>
           /\ KeyValue(<<isa, raw>>) = Parse(isa, raw)
BY DEF Keys, KeySet, KeyValue

\* Distinct instructions have distinct keys.
LEMMA KeysAreInstructions ==
    ASSUME NEW n \in Instruction, NEW isa, NEW raw
    PROVE  <<n.isa, n.raw>> = <<isa, raw>> <=> n = [raw |-> raw, isa |-> isa]
BY DEF Instruction

\* A hit leaves what is held and makes its key the latest one.
LEMMA HitIsUse ==
    ASSUME NEW isa \in ISAs, NEW raw \in Raw[isa], NEW set,
           SetSound(<<isa, Hash(isa, raw)>>, set),
           Get(set, raw).found # Nil
    PROVE  /\ HeldIn(Get(set, raw).set) = HeldIn(set)
           /\ <<isa, raw>> \in HeldIn(set)
           /\ LatestIn(Get(set, raw).set) = <<isa, raw>>
<1> DEFINE r == Get(set, raw)
           n == [raw |-> raw, isa |-> isa]
<1>1. GetOutcome(isa, raw, set, r)
  BY GetFacts
<1>2. n.raw = raw /\ n.isa = isa /\ n # Nil
  BY ParseFacts, CacheAssumption
<1> HIDE DEF r, n
<1>3. r.found = n /\ n \in {set.first, set.second}
      /\ r.set.first = set.first /\ r.set.second = set.second
      /\ (r.set.firstUsedLast <=> n = set.first)
  BY <1>1 DEF GetOutcome, r, n
<1>4. HeldIn(r.set) = HeldIn(set)
  BY <1>3 DEF HeldIn
<1>5. <<isa, raw>> \in HeldIn(set)
  BY <1>2, <1>3 DEF HeldIn
<1>6. LatestIn(r.set) = <<isa, raw>>
  BY <1>2, <1>3 DEF LatestIn
<1> QED BY <1>4, <1>5, <1>6 DEF r

\* A miss means that the key is not held.
LEMMA MissIsNotHeld ==
    ASSUME NEW isa \in ISAs, NEW raw \in Raw[isa], NEW set,
           SetSound(<<isa, Hash(isa, raw)>>, set),
           Get(set, raw).found = Nil
    PROVE  Get(set, raw).set = set /\ <<isa, raw>> \notin HeldIn(set)
<1>1. GetOutcome(isa, raw, set, Get(set, raw))
  BY GetFacts
<1>2. Get(set, raw).set = set
      /\ [raw |-> raw, isa |-> isa] \notin {set.first, set.second}
  BY <1>1 DEF GetOutcome
<1>3. set.first \in Instruction \union {Nil} /\ set.second \in Instruction \union {Nil}
  BY DEF SetSound, CacheSet
<1> QED BY <1>2, <1>3, KeysAreInstructions DEF HeldIn

\* Storing keeps the latest key and the new one.
LEMMA StoreIsUse ==
    ASSUME NEW isa \in ISAs, NEW raw \in Raw[isa], NEW set,
           SetSound(<<isa, Hash(isa, raw)>>, set), Parse(isa, raw) # Nil,
           Get(set, raw).found = Nil
    PROVE  /\ HeldIn(Store(set, Parse(isa, raw)))
                 = {<<isa, raw>>} \union (HeldIn(set) \intersect {LatestIn(set)})
           /\ LatestIn(Store(set, Parse(isa, raw))) = <<isa, raw>>
<1> DEFINE n == Parse(isa, raw)
           r == Store(set, n)
<1>1. n \in Instruction /\ n # Nil /\ <<n.isa, n.raw>> = <<isa, raw>>
  <2>1. n = [raw |-> raw, isa |-> isa] /\ n \in Instruction /\ n # Nil
    BY ParseFacts
  <2> HIDE DEF n
  <2> QED BY <2>1
<1>2. /\ set \in CacheSet
      /\ set.first = Nil => set.second = Nil
      /\ set.first # Nil => set.first # set.second
      /\ set.first \in Instruction \union {Nil}
      /\ set.second \in Instruction \union {Nil}
  BY DEF SetSound, CacheSet
<1>3. \/ /\ set.first = Nil
         /\ r.first = n /\ r.second = Nil /\ r.firstUsedLast
      \/ /\ set.first # Nil /\ (set.second = Nil \/ set.firstUsedLast)
         /\ r.first = set.first /\ r.second = n /\ ~r.firstUsedLast
      \/ /\ set.first # Nil /\ set.second # Nil /\ ~set.firstUsedLast
         /\ r.first = n /\ r.second = set.second /\ r.firstUsedLast
  BY <1>1, <1>2, StoreFacts
<1> HIDE DEF n, r
<1>4. LatestIn(r) = <<isa, raw>>
  BY <1>1, <1>3 DEF LatestIn
<1>5. HeldIn(r) = {<<isa, raw>>} \union (HeldIn(set) \intersect {LatestIn(set)})
  <2>1. CASE set.first = Nil
    BY <1>1, <1>2, <1>3, <2>1 DEF HeldIn
  <2>2. CASE set.first # Nil /\ (set.second = Nil \/ set.firstUsedLast)
    <3>1. HeldIn(r) = {<<set.first.isa, set.first.raw>>, <<isa, raw>>}
      BY <1>1, <1>2, <1>3, <2>2 DEF HeldIn
    <3>2. LatestIn(set) = <<set.first.isa, set.first.raw>>
          /\ LatestIn(set) \in HeldIn(set)
      BY <2>2 DEF LatestIn, HeldIn
    <3> QED BY <3>1, <3>2
  <2>3. CASE set.first # Nil /\ set.second # Nil /\ ~set.firstUsedLast
    <3>1. HeldIn(r) = {<<set.second.isa, set.second.raw>>, <<isa, raw>>}
      BY <1>1, <1>2, <1>3, <2>3 DEF HeldIn
    <3>2. LatestIn(set) = <<set.second.isa, set.second.raw>>
          /\ LatestIn(set) \in HeldIn(set)
      BY <2>3 DEF LatestIn, HeldIn
    <3> QED BY <3>1, <3>2
  <2> QED BY <2>1, <2>2, <2>3
<1> QED BY <1>4, <1>5 DEF r, n

\* A lookup is one use of its key in the abstract cache.
LEMMA LookupIsUse ==
    ASSUME Inv, NEW isa \in ISAs, NEW raw \in Raw[isa], Lookup(isa, raw)
    PROVE  LRU!Use(<<isa, raw>>)
<1> DEFINE k == <<isa, raw>>
           s == <<isa, Hash(isa, raw)>>
           hit == Get(cache[s], raw)
           n == Parse(isa, raw)
<1>1. s \in Sets /\ KeySet(k) = s /\ KeyValue(k) = n
  BY ParseFacts, KeyFacts
<1>2. SetSound(s, cache[s]) /\ cache \in [Sets -> CacheSet]
  BY <1>1, InvIsSetSound
<1>3. ASSUME NEW new, cache' = [cache EXCEPT ![s] = new]
      PROVE  /\ Held' = [Held EXCEPT ![s] = HeldIn(new)]
             /\ Latest' = [Latest EXCEPT ![s] = LatestIn(new)]
  <2> HIDE DEF s
  <2> QED BY <1>1, <1>2, <1>3 DEF Held, Latest
<1>4. Held[s] = HeldIn(cache[s]) /\ Latest[s] = LatestIn(cache[s])
      /\ Held = [Held EXCEPT ![s] = Held[s]]
  <2> HIDE DEF s
  <2> QED BY <1>1 DEF Held, Latest
<1>5. CASE hit.found # Nil
  <2>1. /\ HeldIn(hit.set) = HeldIn(cache[s])
        /\ k \in HeldIn(cache[s])
        /\ LatestIn(hit.set) = k
    BY <1>2, <1>5, HitIsUse
  <2>2. GetOutcome(isa, raw, cache[s], hit)
    BY <1>2, GetFacts
  <2>3. answer' = n /\ cache' = [cache EXCEPT ![s] = hit.set]
    <3>1. answer' = hit.found /\ cache' = [cache EXCEPT ![s] = hit.set]
      BY <1>5 DEF Lookup
    <3>2. hit.found = n
      <4> HIDE DEF hit, n, s
      <4> QED BY <1>5, <2>2 DEF GetOutcome, n
    <3> QED BY <3>1, <3>2
  <2>4. Held' = Held /\ Latest' = [Latest EXCEPT ![s] = k]
    <3> HIDE DEF hit, n, s, k
    <3> QED BY <1>3, <1>4, <2>1, <2>3
  <2> HIDE DEF hit, n, s, k
  <2> QED BY <1>1, <1>4, <2>1, <2>3, <2>4 DEF LRU!Use, k
<1>6. CASE hit.found = Nil /\ n = Nil
  <2>1. answer' = Nil /\ cache' = cache
    BY <1>6 DEF Lookup
  <2>2. k \notin HeldIn(cache[s])
    BY <1>2, <1>6, MissIsNotHeld
  <2>3. Held' = Held /\ Latest' = Latest
    BY <2>1 DEF Held, Latest
  <2> HIDE DEF hit, n, s, k
  <2> QED BY <1>1, <1>4, <1>6, <2>1, <2>2, <2>3 DEF LRU!Use, k
<1>7. CASE hit.found = Nil /\ n # Nil
  <2>1. hit.set = cache[s] /\ k \notin HeldIn(cache[s])
    BY <1>2, <1>7, MissIsNotHeld
  <2>2. answer' = n /\ cache' = [cache EXCEPT ![s] = Store(cache[s], n)]
    BY <1>7, <2>1 DEF Lookup
  <2>3. /\ HeldIn(Store(cache[s], n))
              = {k} \union (HeldIn(cache[s]) \intersect {LatestIn(cache[s])})
        /\ LatestIn(Store(cache[s], n)) = k
    BY <1>2, <1>7, StoreIsUse
  <2> HIDE DEF hit, n, s, k
  <2>4. /\ Held' = [Held EXCEPT ![s] = {k} \union (Held[s] \intersect {Latest[s]})]
        /\ Latest' = [Latest EXCEPT ![s] = k]
    BY <1>3, <1>4, <2>2, <2>3
  <2> QED BY <1>1, <1>4, <1>7, <2>1, <2>2, <2>4 DEF LRU!Use, k
<1> QED BY <1>5, <1>6, <1>7

\* The cache is invisible but for what it keeps: lookups are answered as
\* decoding would, and a set holds the last two instructions used.
THEOREM CacheIsTransparentLRU == Spec => CachesTheRecentPair
<1>1. Init => LRU!Init
  <2> SUFFICES ASSUME Init PROVE LRU!Init
    OBVIOUS
  <2>1. PICK isa \in ISAs : Raw[isa] # {}
    BY CacheAssumption
  <2>2. Keys # {}
    BY <2>1, KeyFacts
  <2>3. Latest \in [Sets -> Keys]
    BY <2>2 DEF Init, Latest, LatestIn
  <2>4. Held = [s \in Sets |-> {}]
    BY DEF Init, Held, HeldIn
  <2> QED BY <2>3, <2>4 DEF Init, LRU!Init
<1>2. Inv /\ [Next]_vars => [LRU!Next]_<<Held, Latest, answer>>
  <2> SUFFICES ASSUME Inv, [Next]_vars
               PROVE  [LRU!Next]_<<Held, Latest, answer>>
    OBVIOUS
  <2>1. CASE Next
    <3>1. PICK isa \in ISAs : \E raw \in Raw[isa] : Lookup(isa, raw)
      BY <2>1 DEF Next
    <3>2. PICK raw \in Raw[isa] : Lookup(isa, raw)
      BY <3>1
    <3>3. LRU!Use(<<isa, raw>>) /\ <<isa, raw>> \in Keys
      BY <3>2, LookupIsUse, KeyFacts
    <3> QED BY <3>3 DEF LRU!Next
  <2>2. CASE UNCHANGED vars
    BY <2>2 DEF vars, Held, Latest
  <2> QED BY <2>1, <2>2
<1> QED BY <1>1, <1>2, Invariance, PTL DEF Spec, CachesTheRecentPair, LRU!Spec

-----------------------------------------------------------------------------
\* The decoders: words and their fields

ARMWord == 0 .. 2^28 - 1
THUMBWord == 0 .. 2^16 - 1

\* A word without its n lowest bits.
Up(w, n) == w \div 2^n

\* For each format there are two lemmas: a word is the sum of the fields of the
\* format (...Sum), and the assembler adds up again what the parse function has
\* taken apart (...Rebuilds).

LEMMA BitValues ==
    ASSUME NEW w \in Nat
    PROVE  /\ Bit(BitSet(w, 27)) = Bits(w, 27, 27) /\ Bits(w, 27, 27) \in 0 .. 1
           /\ Bit(BitSet(w, 26)) = Bits(w, 26, 26) /\ Bits(w, 26, 26) \in 0 .. 1
           /\ Bit(BitSet(w, 25)) = Bits(w, 25, 25) /\ Bits(w, 25, 25) \in 0 .. 1
           /\ Bit(BitSet(w, 24)) = Bits(w, 24, 24) /\ Bits(w, 24, 24) \in 0 .. 1
           /\ Bit(BitSet(w, 23)) = Bits(w, 23, 23) /\ Bits(w, 23, 23) \in 0 .. 1
           /\ Bit(BitSet(w, 22)) = Bits(w, 22, 22) /\ Bits(w, 22, 22) \in 0 .. 1
           /\ Bit(BitSet(w, 21)) = Bits(w, 21, 21) /\ Bits(w, 21, 21) \in 0 .. 1
           /\ Bit(BitSet(w, 20)) = Bits(w, 20, 20) /\ Bits(w, 20, 20) \in 0 .. 1
           /\ Bit(BitSet(w, 19)) = Bits(w, 19, 19) /\ Bits(w, 19, 19) \in 0 .. 1
           /\ Bit(BitSet(w, 18)) = Bits(w, 18, 18) /\ Bits(w, 18, 18) \in 0 .. 1
           /\ Bit(BitSet(w, 17)) = Bits(w, 17, 17) /\ Bits(w, 17, 17) \in 0 .. 1
           /\ Bit(BitSet(w, 16)) = Bits(w, 16, 16) /\ Bits(w, 16, 16) \in 0 .. 1
           /\ Bit(BitSet(w, 15)) = Bits(w, 15, 15) /\ Bits(w, 15, 15) \in 0 .. 1
           /\ Bit(BitSet(w, 14)) = Bits(w, 14, 14) /\ Bits(w, 14, 14) \in 0 .. 1
           /\ Bit(BitSet(w, 13)) = Bits(w, 13, 13) /\ Bits(w, 13, 13) \in 0 .. 1
           /\ Bit(BitSet(w, 12)) = Bits(w, 12, 12) /\ Bits(w, 12, 12) \in 0 .. 1
           /\ Bit(BitSet(w, 11)) = Bits(w, 11, 11) /\ Bits(w, 11, 11) \in 0 .. 1
           /\ Bit(BitSet(w, 10)) = Bits(w, 10, 10) /\ Bits(w, 10, 10) \in 0 .. 1
           /\ Bit(BitSet(w, 9)) = Bits(w, 9, 9) /\ Bits(w, 9, 9) \in 0 .. 1
           /\ Bit(BitSet(w, 8)) = Bits(w, 8, 8) /\ Bits(w, 8, 8) \in 0 .. 1
           /\ Bit(BitSet(w, 7)) = Bits(w, 7, 7) /\ Bits(w, 7, 7) \in 0 .. 1
           /\ Bit(BitSet(w, 6)) = Bits(w, 6, 6) /\ Bits(w, 6, 6) \in 0 .. 1
           /\ Bit(BitSet(w, 5)) = Bits(w, 5, 5) /\ Bits(w, 5, 5) \in 0 .. 1
           /\ Bit(BitSet(w, 4)) = Bits(w, 4, 4) /\ Bits(w, 4, 4) \in 0 .. 1
           /\ Bit(BitSet(w, 3)) = Bits(w, 3, 3) /\ Bits(w, 3, 3) \in 0 .. 1
           /\ Bit(BitSet(w, 2)) = Bits(w, 2, 2) /\ Bits(w, 2, 2) \in 0 .. 1
           /\ Bit(BitSet(w, 1)) = Bits(w, 1, 1) /\ Bits(w, 1, 1) \in 0 .. 1
           /\ Bit(BitSet(w, 0)) = Bits(w, 0, 0) /\ Bits(w, 0, 0) \in 0 .. 1
<1>1. Bit(BitSet(w, 27)) = Bits(w, 27, 27) /\ Bits(w, 27, 27) \in 0 .. 1
  BY DEF Bit, BitSet, Bits
<1>2. Bit(BitSet(w, 26)) = Bits(w, 26, 26) /\ Bits(w, 26, 26) \in 0 .. 1
  BY DEF Bit, BitSet, Bits
<1>3. Bit(BitSet(w, 25)) = Bits(w, 25, 25) /\ Bits(w, 25, 25) \in 0 .. 1
  BY DEF Bit, BitSet, Bits
<1>4. Bit(BitSet(w, 24)) = Bits(w, 24, 24) /\ Bits(w, 24, 24) \in 0 .. 1
  BY DEF Bit, BitSet, Bits
<1>5. Bit(BitSet(w, 23)) = Bits(w, 23, 23) /\ Bits(w, 23, 23) \in 0 .. 1
  BY DEF Bit, BitSet, Bits
<1>6. Bit(BitSet(w, 22)) = Bits(w, 22, 22) /\ Bits(w, 22, 22) \in 0 .. 1
  BY DEF Bit, BitSet, Bits
<1>7. Bit(BitSet(w, 21)) = Bits(w, 21, 21) /\ Bits(w, 21, 21) \in 0 .. 1
  BY DEF Bit, BitSet, Bits
<1>8. Bit(BitSet(w, 20)) = Bits(w, 20, 20) /\ Bits(w, 20, 20) \in 0 .. 1
  BY DEF Bit, BitSet, Bits
<1>9. Bit(BitSet(w, 19)) = Bits(w, 19, 19) /\ Bits(w, 19, 19) \in 0 .. 1
  BY DEF Bit, BitSet, Bits
<1>10. Bit(BitSet(w, 18)) = Bits(w, 18, 18) /\ Bits(w, 18, 18) \in 0 .. 1
  BY DEF Bit, BitSet, Bits
<1>11. Bit(BitSet(w, 17)) = Bits(w, 17, 17) /\ Bits(w, 17, 17) \in 0 .. 1
  BY DEF Bit, BitSet, Bits
<1>12. Bit(BitSet(w, 16)) = Bits(w, 16, 16) /\ Bits(w, 16, 16) \in 0 .. 1
  BY DEF Bit, BitSet, Bits
<1>13. Bit(BitSet(w, 15)) = Bits(w, 15, 15) /\ Bits(w, 15, 15) \in 0 .. 1
  BY DEF Bit, BitSet, Bits
<1>14. Bit(BitSet(w, 14)) = Bits(w, 14, 14) /\ Bits(w, 14, 14) \in 0 .. 1
  BY DEF Bit, BitSet, Bits
<1>15. Bit(BitSet(w, 13)) = Bits(w, 13, 13) /\ Bits(w, 13, 13) \in 0 .. 1
  BY DEF Bit, BitSet, Bits
<1>16. Bit(BitSet(w, 12)) = Bits(w, 12, 12) /\ Bits(w, 12, 12) \in 0 .. 1
  BY DEF Bit, BitSet, Bits
<1>17. Bit(BitSet(w, 11)) = Bits(w, 11, 11) /\ Bits(w, 11, 11) \in 0 .. 1
  BY DEF Bit, BitSet, Bits
<1>18. Bit(BitSet(w, 10)) = Bits(w, 10, 10) /\ Bits(w, 10, 10) \in 0 .. 1
  BY DEF Bit, BitSet, Bits
<1>19. Bit(BitSet(w, 9)) = Bits(w, 9, 9) /\ Bits(w, 9, 9) \in 0 .. 1
  BY DEF Bit, BitSet, Bits
<1>20. Bit(BitSet(w, 8)) = Bits(w, 8, 8) /\ Bits(w, 8, 8) \in 0 .. 1
  BY DEF Bit, BitSet, Bits
<1>21. Bit(BitSet(w, 7)) = Bits(w, 7, 7) /\ Bits(w, 7, 7) \in 0 .. 1
  BY DEF Bit, BitSet, Bits
<1>22. Bit(BitSet(w, 6)) = Bits(w, 6, 6) /\ Bits(w, 6, 6) \in 0 .. 1
  BY DEF Bit, BitSet, Bits
<1>23. Bit(BitSet(w, 5)) = Bits(w, 5, 5) /\ Bits(w, 5, 5) \in 0 .. 1
  BY DEF Bit, BitSet, Bits
<1>24. Bit(BitSet(w, 4)) = Bits(w, 4, 4) /\ Bits(w, 4, 4) \in 0 .. 1
  BY DEF Bit, BitSet, Bits
<1>25. Bit(BitSet(w, 3)) = Bits(w, 3, 3) /\ Bits(w, 3, 3) \in 0 .. 1
  BY DEF Bit, BitSet, Bits
<1>26. Bit(BitSet(w, 2)) = Bits(w, 2, 2) /\ Bits(w, 2, 2) \in 0 .. 1
  BY DEF Bit, BitSet, Bits
<1>27. Bit(BitSet(w, 1)) = Bits(w, 1, 1) /\ Bits(w, 1, 1) \in 0 .. 1
  BY DEF Bit, BitSet, Bits
<1>28. Bit(BitSet(w, 0)) = Bits(w, 0, 0) /\ Bits(w, 0, 0) \in 0 .. 1
  BY DEF Bit, BitSet, Bits
<1> QED BY <1>1, <1>2, <1>3, <1>4, <1>5, <1>6, <1>7, <1>8, <1>9, <1>10, <1>11, <1>12, <1>13,
          <1>14, <1>15, <1>16, <1>17, <1>18, <1>19, <1>20, <1>21, <1>22, <1>23, <1>24, <1>25,
          <1>26, <1>27, <1>28

LEMMA SoftwareInterruptSum ==
    ASSUME NEW w \in ARMWord
    PROVE  /\ w = Bits(w, 27, 24) * 2^24 + Bits(w, 23, 0)
           /\ Bits(w, 27, 24) \in Nat /\ Bits(w, 23, 0) \in Nat
<1>1. w \in Nat /\ Up(w, 0) = w /\ Up(w, 28) = 0
  BY DEF ARMWord, Up
<1>2. /\ Bits(w, 27, 24) \in Nat /\ Bits(w, 23, 0) \in Nat
      /\ Up(w, 24) \in Nat /\ Up(w, 0) \in Nat
  BY <1>1 DEF Bits, Up
<1>3. Up(w, 24) = Bits(w, 27, 24) + 2^4 * Up(w, 28)
  BY <1>1 DEF Bits, Up
<1>4. Up(w, 0) = Bits(w, 23, 0) + 2^24 * Up(w, 24)
  BY <1>1 DEF Bits, Up
<1>5. Up(w, 0) = Bits(w, 27, 24) * 2^24 + Bits(w, 23, 0)
  BY <1>1, <1>2, <1>3, <1>4
<1> QED BY <1>1, <1>2, <1>5

LEMMA SoftwareInterruptRebuilds ==
    ASSUME NEW w \in ARMWord, Bits(w, 27, 24) = 15
    PROVE  AssembleARM(parseSoftwareInterrupt(w)) = w
<1> DEFINE d == parseSoftwareInterrupt(w)
<1>1. /\ d.format = "swi"
      /\ d.comment = Bits(w, 23, 0)
  BY BitValues DEF ARMWord, parseSoftwareInterrupt
<1> HIDE DEF d
<1>2. AssembleARM(d) = 15 * 2^24 + d.comment
  BY <1>1 DEF AssembleARM
<1> QED BY <1>1, <1>2, SoftwareInterruptSum DEF d

LEMMA BranchSum ==
    ASSUME NEW w \in ARMWord
    PROVE  /\ w = Bits(w, 27, 25) * 2^25 + Bits(w, 24, 24) * 2^24 + Bits(w, 23, 0)
           /\ Bits(w, 27, 25) \in Nat /\ Bits(w, 24, 24) \in Nat /\ Bits(w, 23, 0) \in Nat
<1>1. w \in Nat /\ Up(w, 0) = w /\ Up(w, 28) = 0
  BY DEF ARMWord, Up
<1>2. /\ Bits(w, 27, 25) \in Nat /\ Bits(w, 24, 24) \in Nat /\ Bits(w, 23, 0) \in Nat
      /\ Up(w, 25) \in Nat /\ Up(w, 24) \in Nat /\ Up(w, 0) \in Nat
  BY <1>1 DEF Bits, Up
<1>3. Up(w, 25) = Bits(w, 27, 25) + 2^3 * Up(w, 28)
  BY <1>1 DEF Bits, Up
<1>4. Up(w, 24) = Bits(w, 24, 24) + 2^1 * Up(w, 25)
  BY <1>1 DEF Bits, Up
<1>5. Up(w, 0) = Bits(w, 23, 0) + 2^24 * Up(w, 24)
  BY <1>1 DEF Bits, Up
<1>6. Up(w, 0) = Bits(w, 27, 25) * 2^25 + Bits(w, 24, 24) * 2^24 + Bits(w, 23, 0)
  BY <1>1, <1>2, <1>3, <1>4, <1>5
<1> QED BY <1>1, <1>2, <1>6

LEMMA BranchRebuilds ==
    ASSUME NEW w \in ARMWord, Bits(w, 27, 25) = 5
    PROVE  AssembleARM(parseBranch(w)) = w
<1> DEFINE d == parseBranch(w)
<1>1. /\ d.format = "branch"
      /\ Bit(d.link) = Bits(w, 24, 24) /\ d.offset = Bits(w, 23, 0)
  BY BitValues DEF ARMWord, parseBranch
<1> HIDE DEF d
<1>2. AssembleARM(d) = 5 * 2^25 + Bit(d.link) * 2^24 + d.offset
  BY <1>1 DEF AssembleARM
<1> QED BY <1>1, <1>2, BranchSum DEF d

LEMMA BranchExchangeSum ==
    ASSUME NEW w \in ARMWord
    PROVE  /\ w = Bits(w, 27, 20) * 2^20 + Bits(w, 19, 4) * 2^4 + Bits(w, 3, 0)
           /\ Bits(w, 27, 20) \in Nat /\ Bits(w, 19, 4) \in Nat /\ Bits(w, 3, 0) \in Nat
<1>1. w \in Nat /\ Up(w, 0) = w /\ Up(w, 28) = 0
  BY DEF ARMWord, Up
<1>2. /\ Bits(w, 27, 20) \in Nat /\ Bits(w, 19, 4) \in Nat /\ Bits(w, 3, 0) \in Nat
      /\ Up(w, 20) \in Nat /\ Up(w, 4) \in Nat /\ Up(w, 0) \in Nat
  BY <1>1 DEF Bits, Up
<1>3. Up(w, 20) = Bits(w, 27, 20) + 2^8 * Up(w, 28)
  BY <1>1 DEF Bits, Up
<1>4. Up(w, 4) = Bits(w, 19, 4) + 2^16 * Up(w, 20)
  BY <1>1 DEF Bits, Up
<1>5. Up(w, 0) = Bits(w, 3, 0) + 2^4 * Up(w, 4)
  BY <1>1 DEF Bits, Up
<1>6. Up(w, 0) = Bits(w, 27, 20) * 2^20 + Bits(w, 19, 4) * 2^4 + Bits(w, 3, 0)
  BY <1>1, <1>2, <1>3, <1>4, <1>5
<1> QED BY <1>1, <1>2, <1>6

LEMMA BranchExchangeRebuilds ==
    ASSUME NEW w \in ARMWord, IsBranchExchange(w)
    PROVE  AssembleARM(parseBranchExchange(w)) = w
<1> DEFINE d == parseBranchExchange(w)
<1>1. /\ d.format = "bx"
      /\ d.rn = Bits(w, 3, 0)
  BY BitValues DEF ARMWord, parseBranchExchange
<1> HIDE DEF d
<1>2. AssembleARM(d) = 18 * 2^20 + 4095 * 2^8 + 2^4 + d.rn
  BY <1>1 DEF AssembleARM
<1> QED BY <1>1, <1>2, BranchExchangeSum DEF d, IsBranchExchange

LEMMA CoprocRegisterSum ==
    ASSUME NEW w \in ARMWord
    PROVE  /\ w = Bits(w, 27, 24) * 2^24 + Bits(w, 23, 21) * 2^21 + Bits(w, 20, 20) * 2^20
              + Bits(w, 19, 16) * 2^16 + Bits(w, 15, 12) * 2^12 + Bits(w, 11, 8) * 2^8
              + Bits(w, 7, 5) * 2^5 + Bits(w, 4, 4) * 2^4 + Bits(w, 3, 0)
           /\ Bits(w, 27, 24) \in Nat /\ Bits(w, 23, 21) \in Nat /\ Bits(w, 20, 20) \in Nat
              /\ Bits(w, 19, 16) \in Nat /\ Bits(w, 15, 12) \in Nat
              /\ Bits(w, 11, 8) \in Nat /\ Bits(w, 7, 5) \in Nat /\ Bits(w, 4, 4) \in Nat
              /\ Bits(w, 3, 0) \in Nat
<1>1. w \in Nat /\ Up(w, 0) = w /\ Up(w, 28) = 0
  BY DEF ARMWord, Up
<1>2. /\ Bits(w, 27, 24) \in Nat /\ Bits(w, 23, 21) \in Nat /\ Bits(w, 20, 20) \in Nat
         /\ Bits(w, 19, 16) \in Nat /\ Bits(w, 15, 12) \in Nat /\ Bits(w, 11, 8) \in Nat
         /\ Bits(w, 7, 5) \in Nat /\ Bits(w, 4, 4) \in Nat /\ Bits(w, 3, 0) \in Nat
      /\ Up(w, 24) \in Nat /\ Up(w, 21) \in Nat /\ Up(w, 20) \in Nat /\ Up(w, 16) \in Nat
         /\ Up(w, 12) \in Nat /\ Up(w, 8) \in Nat /\ Up(w, 5) \in Nat /\ Up(w, 4) \in Nat
         /\ Up(w, 0) \in Nat
  BY <1>1 DEF Bits, Up
<1>3. Up(w, 24) = Bits(w, 27, 24) + 2^4 * Up(w, 28)
  BY <1>1 DEF Bits, Up
<1>4. Up(w, 21) = Bits(w, 23, 21) + 2^3 * Up(w, 24)
  BY <1>1 DEF Bits, Up
<1>5. Up(w, 20) = Bits(w, 20, 20) + 2^1 * Up(w, 21)
  BY <1>1 DEF Bits, Up
<1>6. Up(w, 20) = Bits(w, 27, 24) * 2^4 + Bits(w, 23, 21) * 2^1 + Bits(w, 20, 20)
  BY <1>1, <1>2, <1>3, <1>4, <1>5
<1>7. Up(w, 16) = Bits(w, 19, 16) + 2^4 * Up(w, 20)
  BY <1>1 DEF Bits, Up
<1>8. Up(w, 12) = Bits(w, 15, 12) + 2^4 * Up(w, 16)
  BY <1>1 DEF Bits, Up
<1>9. Up(w, 8) = Bits(w, 11, 8) + 2^4 * Up(w, 12)
  BY <1>1 DEF Bits, Up
<1>10. Up(w, 8) = Bits(w, 27, 24) * 2^16 + Bits(w, 23, 21) * 2^13 + Bits(w, 20, 20) * 2^12
                + Bits(w, 19, 16) * 2^8 + Bits(w, 15, 12) * 2^4 + Bits(w, 11, 8)
  BY <1>1, <1>2, <1>6, <1>7, <1>8, <1>9
<1>11. Up(w, 5) = Bits(w, 7, 5) + 2^3 * Up(w, 8)
  BY <1>1 DEF Bits, Up
<1>12. Up(w, 4) = Bits(w, 4, 4) + 2^1 * Up(w, 5)
  BY <1>1 DEF Bits, Up
<1>13. Up(w, 4) = Up(w, 8) * 2^4 + Bits(w, 7, 5) * 2^1 + Bits(w, 4, 4)
  BY <1>1, <1>2, <1>11, <1>12
<1>14. Up(w, 0) = Bits(w, 3, 0) + 2^4 * Up(w, 4)
  BY <1>1 DEF Bits, Up
<1>15. Up(w, 0) = Up(w, 8) * 2^8 + Bits(w, 7, 5) * 2^5 + Bits(w, 4, 4) * 2^4 + Bits(w, 3, 0)
  BY <1>1, <1>2, <1>13, <1>14
<1> QED BY <1>1, <1>2, <1>10, <1>15

LEMMA CoprocRegisterRebuilds ==
    ASSUME NEW w \in ARMWord, Bits(w, 27, 24) = 14, BitSet(w, 4)
    PROVE  AssembleARM(parseCoprocRegisterTransfer(w)) = w
<1> DEFINE d == parseCoprocRegisterTransfer(w)
<1>1. /\ d.format = "coprocRegister"
      /\ d.rn = Bits(w, 19, 16) /\ d.rd = Bits(w, 15, 12) /\ d.opcode = Bits(w, 23, 21)
         /\ Bit(d.load) = Bits(w, 20, 20) /\ d.number = Bits(w, 11, 8)
         /\ d.operand = Bits(w, 7, 5) /\ d.rm = Bits(w, 3, 0)
  BY BitValues DEF ARMWord, parseCoprocRegisterTransfer
<1> HIDE DEF d
<1>2. AssembleARM(d) = Registers(d) + 14 * 2^24 + d.opcode * 2^21 + Bit(d.load) * 2^20
                     + d.number * 2^8 + d.operand * 2^5 + 2^4 + d.rm
  BY <1>1 DEF AssembleARM
<1>3. Registers(d) = Bits(w, 19, 16) * 2^16 + Bits(w, 15, 12) * 2^12
  BY <1>1 DEF Registers
<1> QED BY <1>1, <1>2, <1>3, CoprocRegisterSum DEF d, BitSet

LEMMA CoprocOperationSum ==
    ASSUME NEW w \in ARMWord
    PROVE  /\ w = Bits(w, 27, 24) * 2^24 + Bits(w, 23, 20) * 2^20 + Bits(w, 19, 16) * 2^16
              + Bits(w, 15, 12) * 2^12 + Bits(w, 11, 8) * 2^8 + Bits(w, 7, 5) * 2^5
              + Bits(w, 4, 4) * 2^4 + Bits(w, 3, 0)
           /\ Bits(w, 27, 24) \in Nat /\ Bits(w, 23, 20) \in Nat /\ Bits(w, 19, 16) \in Nat
              /\ Bits(w, 15, 12) \in Nat /\ Bits(w, 11, 8) \in Nat /\ Bits(w, 7, 5) \in Nat
              /\ Bits(w, 4, 4) \in Nat /\ Bits(w, 3, 0) \in Nat
<1>1. w \in Nat /\ Up(w, 0) = w /\ Up(w, 28) = 0
  BY DEF ARMWord, Up
<1>2. /\ Bits(w, 27, 24) \in Nat /\ Bits(w, 23, 20) \in Nat /\ Bits(w, 19, 16) \in Nat
         /\ Bits(w, 15, 12) \in Nat /\ Bits(w, 11, 8) \in Nat /\ Bits(w, 7, 5) \in Nat
         /\ Bits(w, 4, 4) \in Nat /\ Bits(w, 3, 0) \in Nat
      /\ Up(w, 24) \in Nat /\ Up(w, 20) \in Nat /\ Up(w, 16) \in Nat /\ Up(w, 12) \in Nat
         /\ Up(w, 8) \in Nat /\ Up(w, 5) \in Nat /\ Up(w, 4) \in Nat /\ Up(w, 0) \in Nat
  BY <1>1 DEF Bits, Up
<1>3. Up(w, 24) = Bits(w, 27, 24) + 2^4 * Up(w, 28)
  BY <1>1 DEF Bits, Up
<1>4. Up(w, 20) = Bits(w, 23, 20) + 2^4 * Up(w, 24)
  BY <1>1 DEF Bits, Up
<1>5. Up(w, 16) = Bits(w, 19, 16) + 2^4 * Up(w, 20)
  BY <1>1 DEF Bits, Up
<1>6. Up(w, 16) = Bits(w, 27, 24) * 2^8 + Bits(w, 23, 20) * 2^4 + Bits(w, 19, 16)
  BY <1>1, <1>2, <1>3, <1>4, <1>5
<1>7. Up(w, 12) = Bits(w, 15, 12) + 2^4 * Up(w, 16)
  BY <1>1 DEF Bits, Up
<1>8. Up(w, 8) = Bits(w, 11, 8) + 2^4 * Up(w, 12)
  BY <1>1 DEF Bits, Up
<1>9. Up(w, 5) = Bits(w, 7, 5) + 2^3 * Up(w, 8)
  BY <1>1 DEF Bits, Up
<1>10. Up(w, 5) = Bits(w, 27, 24) * 2^19 + Bits(w, 23, 20) * 2^15 + Bits(w, 19, 16) * 2^11
                + Bits(w, 15, 12) * 2^7 + Bits(w, 11, 8) * 2^3 + Bits(w, 7, 5)
  BY <1>1, <1>2, <1>6, <1>7, <1>8, <1>9
<1>11. Up(w, 4) = Bits(w, 4, 4) + 2^1 * Up(w, 5)
  BY <1>1 DEF Bits, Up
<1>12. Up(w, 0) = Bits(w, 3, 0) + 2^4 * Up(w, 4)
  BY <1>1 DEF Bits, Up
<1>13. Up(w, 0) = Bits(w, 27, 24) * 2^24 + Bits(w, 23, 20) * 2^20 + Bits(w, 19, 16) * 2^16
                + Bits(w, 15, 12) * 2^12 + Bits(w, 11, 8) * 2^8 + Bits(w, 7, 5) * 2^5
                + Bits(w, 4, 4) * 2^4 + Bits(w, 3, 0)
  BY <1>1, <1>2, <1>10, <1>11, <1>12
<1> QED BY <1>1, <1>2, <1>13

LEMMA CoprocOperationRebuilds ==
    ASSUME NEW w \in ARMWord, Bits(w, 27, 24) = 14, ~BitSet(w, 4)
    PROVE  AssembleARM(parseCoprocDataOperation(w)) = w
<1> DEFINE d == parseCoprocDataOperation(w)
<1>1. /\ d.format = "coprocOperation"
      /\ d.rn = Bits(w, 19, 16) /\ d.rd = Bits(w, 15, 12) /\ d.opcode = Bits(w, 23, 20)
         /\ d.number = Bits(w, 11, 8) /\ d.info = Bits(w, 7, 5) /\ d.rm = Bits(w, 3, 0)
  BY BitValues DEF ARMWord, parseCoprocDataOperation
<1> HIDE DEF d
<1>2. AssembleARM(d) = Registers(d) + 14 * 2^24 + d.opcode * 2^20 + d.number * 2^8
                     + d.info * 2^5 + d.rm
  BY <1>1 DEF AssembleARM
<1>3. Registers(d) = Bits(w, 19, 16) * 2^16 + Bits(w, 15, 12) * 2^12
  BY <1>1 DEF Registers
<1>4. Bits(w, 4, 4) = 0
  BY BitValues DEF ARMWord, BitSet
<1> QED BY <1>1, <1>2, <1>3, <1>4, CoprocOperationSum DEF d

LEMMA CoprocTransferSum ==
    ASSUME NEW w \in ARMWord
    PROVE  /\ w = Bits(w, 27, 25) * 2^25 + Bits(w, 24, 24) * 2^24 + Bits(w, 23, 23) * 2^23
              + Bits(w, 22, 22) * 2^22 + Bits(w, 21, 21) * 2^21 + Bits(w, 20, 20) * 2^20
              + Bits(w, 19, 16) * 2^16 + Bits(w, 15, 12) * 2^12 + Bits(w, 11, 8) * 2^8
              + Bits(w, 7, 0)
           /\ Bits(w, 27, 25) \in Nat /\ Bits(w, 24, 24) \in Nat /\ Bits(w, 23, 23) \in Nat
              /\ Bits(w, 22, 22) \in Nat /\ Bits(w, 21, 21) \in Nat
              /\ Bits(w, 20, 20) \in Nat /\ Bits(w, 19, 16) \in Nat
              /\ Bits(w, 15, 12) \in Nat /\ Bits(w, 11, 8) \in Nat /\ Bits(w, 7, 0) \in Nat
<1>1. w \in Nat /\ Up(w, 0) = w /\ Up(w, 28) = 0
  BY DEF ARMWord, Up
<1>2. /\ Bits(w, 27, 25) \in Nat /\ Bits(w, 24, 24) \in Nat /\ Bits(w, 23, 23) \in Nat
         /\ Bits(w, 22, 22) \in Nat /\ Bits(w, 21, 21) \in Nat /\ Bits(w, 20, 20) \in Nat
         /\ Bits(w, 19, 16) \in Nat /\ Bits(w, 15, 12) \in Nat /\ Bits(w, 11, 8) \in Nat
         /\ Bits(w, 7, 0) \in Nat
      /\ Up(w, 25) \in Nat /\ Up(w, 24) \in Nat /\ Up(w, 23) \in Nat /\ Up(w, 22) \in Nat
         /\ Up(w, 21) \in Nat /\ Up(w, 20) \in Nat /\ Up(w, 16) \in Nat /\ Up(w, 12) \in Nat
         /\ Up(w, 8) \in Nat /\ Up(w, 0) \in Nat
  BY <1>1 DEF Bits, Up
<1>3. Up(w, 25) = Bits(w, 27, 25) + 2^3 * Up(w, 28)
  BY <1>1 DEF Bits, Up
<1>4. Up(w, 24) = Bits(w, 24, 24) + 2^1 * Up(w, 25)
  BY <1>1 DEF Bits, Up
<1>5. Up(w, 23) = Bits(w, 23, 23) + 2^1 * Up(w, 24)
  BY <1>1 DEF Bits, Up
<1>6. Up(w, 23) = Bits(w, 27, 25) * 2^2 + Bits(w, 24, 24) * 2^1 + Bits(w, 23, 23)
  BY <1>1, <1>2, <1>3, <1>4, <1>5
<1>7. Up(w, 22) = Bits(w, 22, 22) + 2^1 * Up(w, 23)
  BY <1>1 DEF Bits, Up
<1>8. Up(w, 21) = Bits(w, 21, 21) + 2^1 * Up(w, 22)
  BY <1>1 DEF Bits, Up
<1>9. Up(w, 20) = Bits(w, 20, 20) + 2^1 * Up(w, 21)
  BY <1>1 DEF Bits, Up
<1>10. Up(w, 20) = Bits(w, 27, 25) * 2^5 + Bits(w, 24, 24) * 2^4 + Bits(w, 23, 23) * 2^3
                + Bits(w, 22, 22) * 2^2 + Bits(w, 21, 21) * 2^1 + Bits(w, 20, 20)
  BY <1>1, <1>2, <1>6, <1>7, <1>8, <1>9
<1>11. Up(w, 16) = Bits(w, 19, 16) + 2^4 * Up(w, 20)
  BY <1>1 DEF Bits, Up
<1>12. Up(w, 12) = Bits(w, 15, 12) + 2^4 * Up(w, 16)
  BY <1>1 DEF Bits, Up
<1>13. Up(w, 12) = Up(w, 20) * 2^8 + Bits(w, 19, 16) * 2^4 + Bits(w, 15, 12)
  BY <1>1, <1>2, <1>11, <1>12
<1>14. Up(w, 8) = Bits(w, 11, 8) + 2^4 * Up(w, 12)
  BY <1>1 DEF Bits, Up
<1>15. Up(w, 0) = Bits(w, 7, 0) + 2^8 * Up(w, 8)
  BY <1>1 DEF Bits, Up
<1>16. Up(w, 0) = Up(w, 20) * 2^20 + Bits(w, 19, 16) * 2^16 + Bits(w, 15, 12) * 2^12
                + Bits(w, 11, 8) * 2^8 + Bits(w, 7, 0)
  BY <1>1, <1>2, <1>13, <1>14, <1>15
<1> QED BY <1>1, <1>2, <1>10, <1>16

LEMMA CoprocTransferRebuilds ==
    ASSUME NEW w \in ARMWord, Bits(w, 27, 25) = 6
    PROVE  AssembleARM(parseCoprocDataTransfer(w)) = w
<1> DEFINE d == parseCoprocDataTransfer(w)
<1>1. /\ d.format = "coprocTransfer"
      /\ d.rn = Bits(w, 19, 16) /\ d.rd = Bits(w, 15, 12)
         /\ Bit(d.preindex) = Bits(w, 24, 24) /\ Bit(d.up) = Bits(w, 23, 23)
         /\ Bit(d.writeBack) = Bits(w, 21, 21) /\ Bit(d.load) = Bits(w, 20, 20)
         /\ Bit(d.long) = Bits(w, 22, 22) /\ d.number = Bits(w, 11, 8)
         /\ d.offset = Bits(w, 7, 0)
  BY BitValues DEF ARMWord, parseCoprocDataTransfer
<1> HIDE DEF d
<1>2. AssembleARM(d) = Registers(d) + Indexing(d) + 6 * 2^25 + Bit(d.long) * 2^22
                     + d.number * 2^8 + d.offset
  BY <1>1 DEF AssembleARM
<1>3. Registers(d) = Bits(w, 19, 16) * 2^16 + Bits(w, 15, 12) * 2^12
  BY <1>1 DEF Registers
<1>4. Indexing(d) = Bits(w, 24, 24) * 2^24 + Bits(w, 23, 23) * 2^23 + Bits(w, 21, 21) * 2^21
         + Bits(w, 20, 20) * 2^20
  BY <1>1 DEF Indexing
<1> QED BY <1>1, <1>2, <1>3, <1>4, CoprocTransferSum DEF d

LEMMA BlockSum ==
    ASSUME NEW w \in ARMWord
    PROVE  /\ w = Bits(w, 27, 25) * 2^25 + Bits(w, 24, 24) * 2^24 + Bits(w, 23, 23) * 2^23
              + Bits(w, 22, 22) * 2^22 + Bits(w, 21, 21) * 2^21 + Bits(w, 20, 20) * 2^20
              + Bits(w, 19, 16) * 2^16 + Bits(w, 15, 0)
           /\ Bits(w, 27, 25) \in Nat /\ Bits(w, 24, 24) \in Nat /\ Bits(w, 23, 23) \in Nat
              /\ Bits(w, 22, 22) \in Nat /\ Bits(w, 21, 21) \in Nat
              /\ Bits(w, 20, 20) \in Nat /\ Bits(w, 19, 16) \in Nat
              /\ Bits(w, 15, 0) \in Nat
<1>1. w \in Nat /\ Up(w, 0) = w /\ Up(w, 28) = 0
  BY DEF ARMWord, Up
<1>2. /\ Bits(w, 27, 25) \in Nat /\ Bits(w, 24, 24) \in Nat /\ Bits(w, 23, 23) \in Nat
         /\ Bits(w, 22, 22) \in Nat /\ Bits(w, 21, 21) \in Nat /\ Bits(w, 20, 20) \in Nat
         /\ Bits(w, 19, 16) \in Nat /\ Bits(w, 15, 0) \in Nat
      /\ Up(w, 25) \in Nat /\ Up(w, 24) \in Nat /\ Up(w, 23) \in Nat /\ Up(w, 22) \in Nat
         /\ Up(w, 21) \in Nat /\ Up(w, 20) \in Nat /\ Up(w, 16) \in Nat /\ Up(w, 0) \in Nat
  BY <1>1 DEF Bits, Up
<1>3. Up(w, 25) = Bits(w, 27, 25) + 2^3 * Up(w, 28)
  BY <1>1 DEF Bits, Up
<1>4. Up(w, 24) = Bits(w, 24, 24) + 2^1 * Up(w, 25)
  BY <1>1 DEF Bits, Up
<1>5. Up(w, 23) = Bits(w, 23, 23) + 2^1 * Up(w, 24)
  BY <1>1 DEF Bits, Up
<1>6. Up(w, 23) = Bits(w, 27, 25) * 2^2 + Bits(w, 24, 24) * 2^1 + Bits(w, 23, 23)
  BY <1>1, <1>2, <1>3, <1>4, <1>5
<1>7. Up(w, 22) = Bits(w, 22, 22) + 2^1 * Up(w, 23)
  BY <1>1 DEF Bits, Up
<1>8. Up(w, 21) = Bits(w, 21, 21) + 2^1 * Up(w, 22)
  BY <1>1 DEF Bits, Up
<1>9. Up(w, 20) = Bits(w, 20, 20) + 2^1 * Up(w, 21)
  BY <1>1 DEF Bits, Up
<1>10. Up(w, 20) = Bits(w, 27, 25) * 2^5 + Bits(w, 24, 24) * 2^4 + Bits(w, 23, 23) * 2^3
                + Bits(w, 22, 22) * 2^2 + Bits(w, 21, 21) * 2^1 + Bits(w, 20, 20)
  BY <1>1, <1>2, <1>6, <1>7, <1>8, <1>9
<1>11. Up(w, 16) = Bits(w, 19, 16) + 2^4 * Up(w, 20)
  BY <1>1 DEF Bits, Up
<1>12. Up(w, 0) = Bits(w, 15, 0) + 2^16 * Up(w, 16)
  BY <1>1 DEF Bits, Up
<1>13. Up(w, 0) = Bits(w, 27, 25) * 2^25 + Bits(w, 24, 24) * 2^24 + Bits(w, 23, 23) * 2^23
                + Bits(w, 22, 22) * 2^22 + Bits(w, 21, 21) * 2^21 + Bits(w, 20, 20) * 2^20
                + Bits(w, 19, 16) * 2^16 + Bits(w, 15, 0)
  BY <1>1, <1>2, <1>10, <1>11, <1>12
<1> QED BY <1>1, <1>2, <1>13

LEMMA BlockRebuilds ==
    ASSUME NEW w \in ARMWord, Bits(w, 27, 25) = 4
    PROVE  AssembleARM(parseBlockDataTransfer(w)) = w
<1> DEFINE d == parseBlockDataTransfer(w)
<1>1. /\ d.format = "block"
      /\ Bit(d.preindex) = Bits(w, 24, 24) /\ Bit(d.up) = Bits(w, 23, 23)
         /\ Bit(d.writeBack) = Bits(w, 21, 21) /\ Bit(d.load) = Bits(w, 20, 20)
         /\ Bit(d.forceUser) = Bits(w, 22, 22) /\ d.rn = Bits(w, 19, 16)
         /\ d.list = Bits(w, 15, 0)
  BY BitValues DEF ARMWord, parseBlockDataTransfer
<1> HIDE DEF d
<1>2. AssembleARM(d) = Indexing(d) + 4 * 2^25 + Bit(d.forceUser) * 2^22 + d.rn * 2^16 + d.list
  BY <1>1 DEF AssembleARM
<1>3. Indexing(d) = Bits(w, 24, 24) * 2^24 + Bits(w, 23, 23) * 2^23 + Bits(w, 21, 21) * 2^21
         + Bits(w, 20, 20) * 2^20
  BY <1>1 DEF Indexing
<1> QED BY <1>1, <1>2, <1>3, BlockSum DEF d

LEMMA SwapSum ==
    ASSUME NEW w \in ARMWord
    PROVE  /\ w = Bits(w, 27, 23) * 2^23 + Bits(w, 22, 22) * 2^22 + Bits(w, 21, 20) * 2^20
              + Bits(w, 19, 16) * 2^16 + Bits(w, 15, 12) * 2^12 + Bits(w, 11, 8) * 2^8
              + Bits(w, 7, 4) * 2^4 + Bits(w, 3, 0)
           /\ Bits(w, 27, 23) \in Nat /\ Bits(w, 22, 22) \in Nat /\ Bits(w, 21, 20) \in Nat
              /\ Bits(w, 19, 16) \in Nat /\ Bits(w, 15, 12) \in Nat
              /\ Bits(w, 11, 8) \in Nat /\ Bits(w, 7, 4) \in Nat /\ Bits(w, 3, 0) \in Nat
<1>1. w \in Nat /\ Up(w, 0) = w /\ Up(w, 28) = 0
  BY DEF ARMWord, Up
<1>2. /\ Bits(w, 27, 23) \in Nat /\ Bits(w, 22, 22) \in Nat /\ Bits(w, 21, 20) \in Nat
         /\ Bits(w, 19, 16) \in Nat /\ Bits(w, 15, 12) \in Nat /\ Bits(w, 11, 8) \in Nat
         /\ Bits(w, 7, 4) \in Nat /\ Bits(w, 3, 0) \in Nat
      /\ Up(w, 23) \in Nat /\ Up(w, 22) \in Nat /\ Up(w, 20) \in Nat /\ Up(w, 16) \in Nat
         /\ Up(w, 12) \in Nat /\ Up(w, 8) \in Nat /\ Up(w, 4) \in Nat /\ Up(w, 0) \in Nat
  BY <1>1 DEF Bits, Up
<1>3. Up(w, 23) = Bits(w, 27, 23) + 2^5 * Up(w, 28)
  BY <1>1 DEF Bits, Up
<1>4. Up(w, 22) = Bits(w, 22, 22) + 2^1 * Up(w, 23)
  BY <1>1 DEF Bits, Up
<1>5. Up(w, 20) = Bits(w, 21, 20) + 2^2 * Up(w, 22)
  BY <1>1 DEF Bits, Up
<1>6. Up(w, 20) = Bits(w, 27, 23) * 2^3 + Bits(w, 22, 22) * 2^2 + Bits(w, 21, 20)
  BY <1>1, <1>2, <1>3, <1>4, <1>5
<1>7. Up(w, 16) = Bits(w, 19, 16) + 2^4 * Up(w, 20)
  BY <1>1 DEF Bits, Up
<1>8. Up(w, 12) = Bits(w, 15, 12) + 2^4 * Up(w, 16)
  BY <1>1 DEF Bits, Up
<1>9. Up(w, 8) = Bits(w, 11, 8) + 2^4 * Up(w, 12)
  BY <1>1 DEF Bits, Up
<1>10. Up(w, 8) = Bits(w, 27, 23) * 2^15 + Bits(w, 22, 22) * 2^14 + Bits(w, 21, 20) * 2^12
                + Bits(w, 19, 16) * 2^8 + Bits(w, 15, 12) * 2^4 + Bits(w, 11, 8)
  BY <1>1, <1>2, <1>6, <1>7, <1>8, <1>9
<1>11. Up(w, 4) = Bits(w, 7, 4) + 2^4 * Up(w, 8)
  BY <1>1 DEF Bits, Up
<1>12. Up(w, 0) = Bits(w, 3, 0) + 2^4 * Up(w, 4)
  BY <1>1 DEF Bits, Up
<1>13. Up(w, 0) = Bits(w, 27, 23) * 2^23 + Bits(w, 22, 22) * 2^22 + Bits(w, 21, 20) * 2^20
                + Bits(w, 19, 16) * 2^16 + Bits(w, 15, 12) * 2^12 + Bits(w, 11, 8) * 2^8
                + Bits(w, 7, 4) * 2^4 + Bits(w, 3, 0)
  BY <1>1, <1>2, <1>10, <1>11, <1>12
<1> QED BY <1>1, <1>2, <1>13

LEMMA SwapRebuilds ==
    ASSUME NEW w \in ARMWord, IsSwap(w), Bits(w, 7, 4) = 9
    PROVE  AssembleARM(parseSingleDataSwap(w)) = w
<1> DEFINE d == parseSingleDataSwap(w)
<1>1. /\ d.format = "swap"
      /\ d.rn = Bits(w, 19, 16) /\ d.rd = Bits(w, 15, 12) /\ Bit(d.byte) = Bits(w, 22, 22)
         /\ d.rm = Bits(w, 3, 0)
  BY BitValues DEF ARMWord, parseSingleDataSwap
<1> HIDE DEF d
<1>2. AssembleARM(d) = Registers(d) + 2^24 + Bit(d.byte) * 2^22 + 9 * 2^4 + d.rm
  BY <1>1 DEF AssembleARM
<1>3. Registers(d) = Bits(w, 19, 16) * 2^16 + Bits(w, 15, 12) * 2^12
  BY <1>1 DEF Registers
<1> QED BY <1>1, <1>2, <1>3, SwapSum DEF d, IsSwap

LEMMA MoveShiftedSum ==
    ASSUME NEW w \in THUMBWord
    PROVE  /\ w = Bits(w, 15, 14) * 2^14 + Bits(w, 13, 13) * 2^13 + Bits(w, 12, 11) * 2^11
              + Bits(w, 10, 6) * 2^6 + Bits(w, 5, 3) * 2^3 + Bits(w, 2, 0)
           /\ Bits(w, 15, 14) \in Nat /\ Bits(w, 13, 13) \in Nat /\ Bits(w, 12, 11) \in Nat
              /\ Bits(w, 10, 6) \in Nat /\ Bits(w, 5, 3) \in Nat /\ Bits(w, 2, 0) \in Nat
<1>1. w \in Nat /\ Up(w, 0) = w /\ Up(w, 16) = 0
  BY DEF THUMBWord, Up
<1>2. /\ Bits(w, 15, 14) \in Nat /\ Bits(w, 13, 13) \in Nat /\ Bits(w, 12, 11) \in Nat
         /\ Bits(w, 10, 6) \in Nat /\ Bits(w, 5, 3) \in Nat /\ Bits(w, 2, 0) \in Nat
      /\ Up(w, 14) \in Nat /\ Up(w, 13) \in Nat /\ Up(w, 11) \in Nat /\ Up(w, 6) \in Nat
         /\ Up(w, 3) \in Nat /\ Up(w, 0) \in Nat
  BY <1>1 DEF Bits, Up
<1>3. Up(w, 14) = Bits(w, 15, 14) + 2^2 * Up(w, 16)
  BY <1>1 DEF Bits, Up
<1>4. Up(w, 13) = Bits(w, 13, 13) + 2^1 * Up(w, 14)
  BY <1>1 DEF Bits, Up
<1>5. Up(w, 11) = Bits(w, 12, 11) + 2^2 * Up(w, 13)
  BY <1>1 DEF Bits, Up
<1>6. Up(w, 11) = Bits(w, 15, 14) * 2^3 + Bits(w, 13, 13) * 2^2 + Bits(w, 12, 11)
  BY <1>1, <1>2, <1>3, <1>4, <1>5
<1>7. Up(w, 6) = Bits(w, 10, 6) + 2^5 * Up(w, 11)
  BY <1>1 DEF Bits, Up
<1>8. Up(w, 3) = Bits(w, 5, 3) + 2^3 * Up(w, 6)
  BY <1>1 DEF Bits, Up
<1>9. Up(w, 0) = Bits(w, 2, 0) + 2^3 * Up(w, 3)
  BY <1>1 DEF Bits, Up
<1>10. Up(w, 0) = Bits(w, 15, 14) * 2^14 + Bits(w, 13, 13) * 2^13 + Bits(w, 12, 11) * 2^11
                + Bits(w, 10, 6) * 2^6 + Bits(w, 5, 3) * 2^3 + Bits(w, 2, 0)
  BY <1>1, <1>2, <1>6, <1>7, <1>8, <1>9
<1> QED BY <1>1, <1>2, <1>10

LEMMA MoveShiftedRebuilds ==
    ASSUME NEW w \in THUMBWord, Bits(w, 15, 14) = 0, ~BitSet(w, 13)
    PROVE  AssembleTHUMB(parseMoveShiftedRegister(w)) = w
<1> DEFINE d == parseMoveShiftedRegister(w)
<1>1. /\ d.format = "moveShifted"
      /\ d.rd = Bits(w, 2, 0) /\ d.rs = Bits(w, 5, 3) /\ d.offset = Bits(w, 10, 6)
         /\ d.operation = Bits(w, 12, 11)
  BY BitValues DEF THUMBWord, parseMoveShiftedRegister, Low, Mid, High
<1> HIDE DEF d
<1>2. AssembleTHUMB(d) = LowRegisters(d.rd, d.rs, 0) + d.operation * 2^11 + d.offset * 2^6
  BY <1>1 DEF AssembleTHUMB
<1>3. LowRegisters(d.rd, d.rs, 0) = Bits(w, 2, 0) + Bits(w, 5, 3) * 2^3 + 0 * 2^6
  BY <1>1 DEF LowRegisters
<1>4. Bits(w, 13, 13) = 0
  BY BitValues DEF THUMBWord, BitSet
<1> QED BY <1>1, <1>2, <1>3, <1>4, MoveShiftedSum DEF d

LEMMA AddSubtractSum ==
    ASSUME NEW w \in THUMBWord
    PROVE  /\ w = Bits(w, 15, 14) * 2^14 + Bits(w, 13, 13) * 2^13 + Bits(w, 12, 11) * 2^11
              + Bits(w, 10, 10) * 2^10 + Bits(w, 9, 9) * 2^9 + Bits(w, 8, 6) * 2^6
              + Bits(w, 5, 3) * 2^3 + Bits(w, 2, 0)
           /\ Bits(w, 15, 14) \in Nat /\ Bits(w, 13, 13) \in Nat /\ Bits(w, 12, 11) \in Nat
              /\ Bits(w, 10, 10) \in Nat /\ Bits(w, 9, 9) \in Nat /\ Bits(w, 8, 6) \in Nat
              /\ Bits(w, 5, 3) \in Nat /\ Bits(w, 2, 0) \in Nat
<1>1. w \in Nat /\ Up(w, 0) = w /\ Up(w, 16) = 0
  BY DEF THUMBWord, Up
<1>2. /\ Bits(w, 15, 14) \in Nat /\ Bits(w, 13, 13) \in Nat /\ Bits(w, 12, 11) \in Nat
         /\ Bits(w, 10, 10) \in Nat /\ Bits(w, 9, 9) \in Nat /\ Bits(w, 8, 6) \in Nat
         /\ Bits(w, 5, 3) \in Nat /\ Bits(w, 2, 0) \in Nat
      /\ Up(w, 14) \in Nat /\ Up(w, 13) \in Nat /\ Up(w, 11) \in Nat /\ Up(w, 10) \in Nat
         /\ Up(w, 9) \in Nat /\ Up(w, 6) \in Nat /\ Up(w, 3) \in Nat /\ Up(w, 0) \in Nat
  BY <1>1 DEF Bits, Up
<1>3. Up(w, 14) = Bits(w, 15, 14) + 2^2 * Up(w, 16)
  BY <1>1 DEF Bits, Up
<1>4. Up(w, 13) = Bits(w, 13, 13) + 2^1 * Up(w, 14)
  BY <1>1 DEF Bits, Up
<1>5. Up(w, 11) = Bits(w, 12, 11) + 2^2 * Up(w, 13)
  BY <1>1 DEF Bits, Up
<1>6. Up(w, 11) = Bits(w, 15, 14) * 2^3 + Bits(w, 13, 13) * 2^2 + Bits(w, 12, 11)
  BY <1>1, <1>2, <1>3, <1>4, <1>5
<1>7. Up(w, 10) = Bits(w, 10, 10) + 2^1 * Up(w, 11)
  BY <1>1 DEF Bits, Up
<1>8. Up(w, 9) = Bits(w, 9, 9) + 2^1 * Up(w, 10)
  BY <1>1 DEF Bits, Up
<1>9. Up(w, 6) = Bits(w, 8, 6) + 2^3 * Up(w, 9)
  BY <1>1 DEF Bits, Up
<1>10. Up(w, 6) = Bits(w, 15, 14) * 2^8 + Bits(w, 13, 13) * 2^7 + Bits(w, 12, 11) * 2^5
                + Bits(w, 10, 10) * 2^4 + Bits(w, 9, 9) * 2^3 + Bits(w, 8, 6)
  BY <1>1, <1>2, <1>6, <1>7, <1>8, <1>9
<1>11. Up(w, 3) = Bits(w, 5, 3) + 2^3 * Up(w, 6)
  BY <1>1 DEF Bits, Up
<1>12. Up(w, 0) = Bits(w, 2, 0) + 2^3 * Up(w, 3)
  BY <1>1 DEF Bits, Up
<1>13. Up(w, 0) = Bits(w, 15, 14) * 2^14 + Bits(w, 13, 13) * 2^13 + Bits(w, 12, 11) * 2^11
                + Bits(w, 10, 10) * 2^10 + Bits(w, 9, 9) * 2^9 + Bits(w, 8, 6) * 2^6
                + Bits(w, 5, 3) * 2^3 + Bits(w, 2, 0)
  BY <1>1, <1>2, <1>10, <1>11, <1>12
<1> QED BY <1>1, <1>2, <1>13

LEMMA AddSubtractRebuilds ==
    ASSUME NEW w \in THUMBWord, Bits(w, 15, 14) = 0, ~BitSet(w, 13), Bits(w, 12, 11) = 3
    PROVE  AssembleTHUMB(parseAddSubtract(w)) = w
<1> DEFINE d == parseAddSubtract(w)
<1>1. /\ d.format = "addSubtract"
      /\ d.rd = Bits(w, 2, 0) /\ d.rs = Bits(w, 5, 3) /\ d.operand = Bits(w, 8, 6)
         /\ Bit(d.subtract) = Bits(w, 9, 9) /\ Bit(d.isImmediate) = Bits(w, 10, 10)
  BY BitValues DEF THUMBWord, parseAddSubtract, Low, Mid, High
<1> HIDE DEF d
<1>2. AssembleTHUMB(d) = LowRegisters(d.rd, d.rs, d.operand) + 3 * 2^11
                       + Bit(d.isImmediate) * 2^10 + Bit(d.subtract) * 2^9
  BY <1>1 DEF AssembleTHUMB
<1>3. LowRegisters(d.rd, d.rs, d.operand)
        = Bits(w, 2, 0) + Bits(w, 5, 3) * 2^3 + Bits(w, 8, 6) * 2^6
  BY <1>1 DEF LowRegisters
<1>4. Bits(w, 13, 13) = 0
  BY BitValues DEF THUMBWord, BitSet
<1>5. AssembleTHUMB(d) = Bits(w, 2, 0) + Bits(w, 5, 3) * 2^3 + Bits(w, 8, 6) * 2^6
                       + 3 * 2^11 + Bits(w, 10, 10) * 2^10 + Bits(w, 9, 9) * 2^9
  BY <1>1, <1>2, <1>3, AddSubtractSum
<1>6. w = 3 * 2^11 + Bits(w, 10, 10) * 2^10 + Bits(w, 9, 9) * 2^9 + Bits(w, 8, 6) * 2^6
          + Bits(w, 5, 3) * 2^3 + Bits(w, 2, 0)
  BY <1>4, AddSubtractSum
<1>7. AssembleTHUMB(d) = w
  BY <1>5, <1>6, AddSubtractSum
<1> QED BY <1>7, AddSubtractSum DEF d

LEMMA ImmediateSum ==
    ASSUME NEW w \in THUMBWord
    PROVE  /\ w = Bits(w, 15, 14) * 2^14 + Bits(w, 13, 13) * 2^13 + Bits(w, 12, 11) * 2^11
              + Bits(w, 10, 8) * 2^8 + Bits(w, 7, 0)
           /\ Bits(w, 15, 14) \in Nat /\ Bits(w, 13, 13) \in Nat /\ Bits(w, 12, 11) \in Nat
              /\ Bits(w, 10, 8) \in Nat /\ Bits(w, 7, 0) \in Nat
<1>1. w \in Nat /\ Up(w, 0) = w /\ Up(w, 16) = 0
  BY DEF THUMBWord, Up
<1>2. /\ Bits(w, 15, 14) \in Nat /\ Bits(w, 13, 13) \in Nat /\ Bits(w, 12, 11) \in Nat
         /\ Bits(w, 10, 8) \in Nat /\ Bits(w, 7, 0) \in Nat
      /\ Up(w, 14) \in Nat /\ Up(w, 13) \in Nat /\ Up(w, 11) \in Nat /\ Up(w, 8) \in Nat
         /\ Up(w, 0) \in Nat
  BY <1>1 DEF Bits, Up
<1>3. Up(w, 14) = Bits(w, 15, 14) + 2^2 * Up(w, 16)
  BY <1>1 DEF Bits, Up
<1>4. Up(w, 13) = Bits(w, 13, 13) + 2^1 * Up(w, 14)
  BY <1>1 DEF Bits, Up
<1>5. Up(w, 11) = Bits(w, 12, 11) + 2^2 * Up(w, 13)
  BY <1>1 DEF Bits, Up
<1>6. Up(w, 11) = Bits(w, 15, 14) * 2^3 + Bits(w, 13, 13) * 2^2 + Bits(w, 12, 11)
  BY <1>1, <1>2, <1>3, <1>4, <1>5
<1>7. Up(w, 8) = Bits(w, 10, 8) + 2^3 * Up(w, 11)
  BY <1>1 DEF Bits, Up
<1>8. Up(w, 0) = Bits(w, 7, 0) + 2^8 * Up(w, 8)
  BY <1>1 DEF Bits, Up
<1>9. Up(w, 0) = Bits(w, 15, 14) * 2^14 + Bits(w, 13, 13) * 2^13 + Bits(w, 12, 11) * 2^11
                + Bits(w, 10, 8) * 2^8 + Bits(w, 7, 0)
  BY <1>1, <1>2, <1>6, <1>7, <1>8
<1> QED BY <1>1, <1>2, <1>9

LEMMA ImmediateRebuilds ==
    ASSUME NEW w \in THUMBWord, Bits(w, 15, 14) = 0, BitSet(w, 13)
    PROVE  AssembleTHUMB(parseMoveCompareAddSubtractImmediate(w)) = w
<1> DEFINE d == parseMoveCompareAddSubtractImmediate(w)
<1>1. /\ d.format = "immediate"
      /\ d.immediate = Bits(w, 7, 0) /\ d.operation = Bits(w, 12, 11)
         /\ d.rd = Bits(w, 10, 8)
  BY BitValues DEF THUMBWord, parseMoveCompareAddSubtractImmediate, Low, Mid, High
<1> HIDE DEF d
<1>2. AssembleTHUMB(d) = 2^13 + d.operation * 2^11 + d.rd * 2^8 + d.immediate
  BY <1>1 DEF AssembleTHUMB
<1> QED BY <1>1, <1>2, ImmediateSum DEF d, BitSet

LEMMA ALUSum ==
    ASSUME NEW w \in THUMBWord
    PROVE  /\ w = Bits(w, 15, 14) * 2^14 + Bits(w, 13, 10) * 2^10 + Bits(w, 9, 6) * 2^6
              + Bits(w, 5, 3) * 2^3 + Bits(w, 2, 0)
           /\ Bits(w, 15, 14) \in Nat /\ Bits(w, 13, 10) \in Nat /\ Bits(w, 9, 6) \in Nat
              /\ Bits(w, 5, 3) \in Nat /\ Bits(w, 2, 0) \in Nat
<1>1. w \in Nat /\ Up(w, 0) = w /\ Up(w, 16) = 0
  BY DEF THUMBWord, Up
<1>2. /\ Bits(w, 15, 14) \in Nat /\ Bits(w, 13, 10) \in Nat /\ Bits(w, 9, 6) \in Nat
         /\ Bits(w, 5, 3) \in Nat /\ Bits(w, 2, 0) \in Nat
      /\ Up(w, 14) \in Nat /\ Up(w, 10) \in Nat /\ Up(w, 6) \in Nat /\ Up(w, 3) \in Nat
         /\ Up(w, 0) \in Nat
  BY <1>1 DEF Bits, Up
<1>3. Up(w, 14) = Bits(w, 15, 14) + 2^2 * Up(w, 16)
  BY <1>1 DEF Bits, Up
<1>4. Up(w, 10) = Bits(w, 13, 10) + 2^4 * Up(w, 14)
  BY <1>1 DEF Bits, Up
<1>5. Up(w, 6) = Bits(w, 9, 6) + 2^4 * Up(w, 10)
  BY <1>1 DEF Bits, Up
<1>6. Up(w, 6) = Bits(w, 15, 14) * 2^8 + Bits(w, 13, 10) * 2^4 + Bits(w, 9, 6)
  BY <1>1, <1>2, <1>3, <1>4, <1>5
<1>7. Up(w, 3) = Bits(w, 5, 3) + 2^3 * Up(w, 6)
  BY <1>1 DEF Bits, Up
<1>8. Up(w, 0) = Bits(w, 2, 0) + 2^3 * Up(w, 3)
  BY <1>1 DEF Bits, Up
<1>9. Up(w, 0) = Bits(w, 15, 14) * 2^14 + Bits(w, 13, 10) * 2^10 + Bits(w, 9, 6) * 2^6
                + Bits(w, 5, 3) * 2^3 + Bits(w, 2, 0)
  BY <1>1, <1>2, <1>6, <1>7, <1>8
<1> QED BY <1>1, <1>2, <1>9

LEMMA ALURebuilds ==
    ASSUME NEW w \in THUMBWord, Bits(w, 15, 14) = 1, Bits(w, 13, 10) = 0
    PROVE  AssembleTHUMB(parseALUOperation(w)) = w
<1> DEFINE d == parseALUOperation(w)
<1>1. /\ d.format = "alu"
      /\ d.rd = Bits(w, 2, 0) /\ d.rs = Bits(w, 5, 3) /\ d.opcode = Bits(w, 9, 6)
  BY BitValues DEF THUMBWord, parseALUOperation, Low, Mid, High
<1> HIDE DEF d
<1>2. AssembleTHUMB(d) = LowRegisters(d.rd, d.rs, 0) + 16 * 2^10 + d.opcode * 2^6
  BY <1>1 DEF AssembleTHUMB
<1>3. LowRegisters(d.rd, d.rs, 0) = Bits(w, 2, 0) + Bits(w, 5, 3) * 2^3 + 0 * 2^6
  BY <1>1 DEF LowRegisters
<1> QED BY <1>1, <1>2, <1>3, ALUSum DEF d

LEMMA PCRelativeSum ==
    ASSUME NEW w \in THUMBWord
    PROVE  /\ w = Bits(w, 15, 14) * 2^14 + Bits(w, 13, 11) * 2^11 + Bits(w, 10, 8) * 2^8
              + Bits(w, 7, 0)
           /\ Bits(w, 15, 14) \in Nat /\ Bits(w, 13, 11) \in Nat /\ Bits(w, 10, 8) \in Nat
              /\ Bits(w, 7, 0) \in Nat
<1>1. w \in Nat /\ Up(w, 0) = w /\ Up(w, 16) = 0
  BY DEF THUMBWord, Up
<1>2. /\ Bits(w, 15, 14) \in Nat /\ Bits(w, 13, 11) \in Nat /\ Bits(w, 10, 8) \in Nat
         /\ Bits(w, 7, 0) \in Nat
      /\ Up(w, 14) \in Nat /\ Up(w, 11) \in Nat /\ Up(w, 8) \in Nat /\ Up(w, 0) \in Nat
  BY <1>1 DEF Bits, Up
<1>3. Up(w, 14) = Bits(w, 15, 14) + 2^2 * Up(w, 16)
  BY <1>1 DEF Bits, Up
<1>4. Up(w, 11) = Bits(w, 13, 11) + 2^3 * Up(w, 14)
  BY <1>1 DEF Bits, Up
<1>5. Up(w, 8) = Bits(w, 10, 8) + 2^3 * Up(w, 11)
  BY <1>1 DEF Bits, Up
<1>6. Up(w, 8) = Bits(w, 15, 14) * 2^6 + Bits(w, 13, 11) * 2^3 + Bits(w, 10, 8)
  BY <1>1, <1>2, <1>3, <1>4, <1>5
<1>7. Up(w, 0) = Bits(w, 7, 0) + 2^8 * Up(w, 8)
  BY <1>1 DEF Bits, Up
<1>8. Up(w, 0) = Bits(w, 15, 14) * 2^14 + Bits(w, 13, 11) * 2^11 + Bits(w, 10, 8) * 2^8
                + Bits(w, 7, 0)
  BY <1>1, <1>2, <1>6, <1>7
<1> QED BY <1>1, <1>2, <1>8

LEMMA PCRelativeRebuilds ==
    ASSUME NEW w \in THUMBWord, Bits(w, 15, 14) = 1, Bits(w, 13, 11) = 1
    PROVE  AssembleTHUMB(parsePCRelativeLoad(w)) = w
<1> DEFINE d == parsePCRelativeLoad(w)
<1>1. /\ d.format = "pcRelative"
      /\ d.rd = Bits(w, 10, 8) /\ d.offset = Bits(w, 7, 0)
  BY BitValues DEF THUMBWord, parsePCRelativeLoad, Low, Mid, High
<1> HIDE DEF d
<1>2. AssembleTHUMB(d) = 9 * 2^11 + d.rd * 2^8 + d.offset
  BY <1>1 DEF AssembleTHUMB
<1> QED BY <1>1, <1>2, PCRelativeSum DEF d

LEMMA RegisterOffsetSum ==
    ASSUME NEW w \in THUMBWord
    PROVE  /\ w = Bits(w, 15, 14) * 2^14 + Bits(w, 13, 12) * 2^12 + Bits(w, 11, 11) * 2^11
              + Bits(w, 10, 10) * 2^10 + Bits(w, 9, 9) * 2^9 + Bits(w, 8, 6) * 2^6
              + Bits(w, 5, 3) * 2^3 + Bits(w, 2, 0)
           /\ Bits(w, 15, 14) \in Nat /\ Bits(w, 13, 12) \in Nat /\ Bits(w, 11, 11) \in Nat
              /\ Bits(w, 10, 10) \in Nat /\ Bits(w, 9, 9) \in Nat /\ Bits(w, 8, 6) \in Nat
              /\ Bits(w, 5, 3) \in Nat /\ Bits(w, 2, 0) \in Nat
<1>1. w \in Nat /\ Up(w, 0) = w /\ Up(w, 16) = 0
  BY DEF THUMBWord, Up
<1>2. /\ Bits(w, 15, 14) \in Nat /\ Bits(w, 13, 12) \in Nat /\ Bits(w, 11, 11) \in Nat
         /\ Bits(w, 10, 10) \in Nat /\ Bits(w, 9, 9) \in Nat /\ Bits(w, 8, 6) \in Nat
         /\ Bits(w, 5, 3) \in Nat /\ Bits(w, 2, 0) \in Nat
      /\ Up(w, 14) \in Nat /\ Up(w, 12) \in Nat /\ Up(w, 11) \in Nat /\ Up(w, 10) \in Nat
         /\ Up(w, 9) \in Nat /\ Up(w, 6) \in Nat /\ Up(w, 3) \in Nat /\ Up(w, 0) \in Nat
  BY <1>1 DEF Bits, Up
<1>3. Up(w, 14) = Bits(w, 15, 14) + 2^2 * Up(w, 16)
  BY <1>1 DEF Bits, Up
<1>4. Up(w, 12) = Bits(w, 13, 12) + 2^2 * Up(w, 14)
  BY <1>1 DEF Bits, Up
<1>5. Up(w, 11) = Bits(w, 11, 11) + 2^1 * Up(w, 12)
  BY <1>1 DEF Bits, Up
<1>6. Up(w, 11) = Bits(w, 15, 14) * 2^3 + Bits(w, 13, 12) * 2^1 + Bits(w, 11, 11)
  BY <1>1, <1>2, <1>3, <1>4, <1>5
<1>7. Up(w, 10) = Bits(w, 10, 10) + 2^1 * Up(w, 11)
  BY <1>1 DEF Bits, Up
<1>8. Up(w, 9) = Bits(w, 9, 9) + 2^1 * Up(w, 10)
  BY <1>1 DEF Bits, Up
<1>9. Up(w, 6) = Bits(w, 8, 6) + 2^3 * Up(w, 9)
  BY <1>1 DEF Bits, Up
<1>10. Up(w, 6) = Bits(w, 15, 14) * 2^8 + Bits(w, 13, 12) * 2^6 + Bits(w, 11, 11) * 2^5
                + Bits(w, 10, 10) * 2^4 + Bits(w, 9, 9) * 2^3 + Bits(w, 8, 6)
  BY <1>1, <1>2, <1>6, <1>7, <1>8, <1>9
<1>11. Up(w, 3) = Bits(w, 5, 3) + 2^3 * Up(w, 6)
  BY <1>1 DEF Bits, Up
<1>12. Up(w, 0) = Bits(w, 2, 0) + 2^3 * Up(w, 3)
  BY <1>1 DEF Bits, Up
<1>13. Up(w, 0) = Bits(w, 15, 14) * 2^14 + Bits(w, 13, 12) * 2^12 + Bits(w, 11, 11) * 2^11
                + Bits(w, 10, 10) * 2^10 + Bits(w, 9, 9) * 2^9 + Bits(w, 8, 6) * 2^6
                + Bits(w, 5, 3) * 2^3 + Bits(w, 2, 0)
  BY <1>1, <1>2, <1>10, <1>11, <1>12
<1> QED BY <1>1, <1>2, <1>13

LEMMA RegisterOffsetRebuilds ==
    ASSUME NEW w \in THUMBWord, Bits(w, 15, 14) = 1, Bits(w, 13, 12) = 1, ~BitSet(w, 9)
    PROVE  AssembleTHUMB(parseLoadStoreRegisterOffset(w)) = w
<1> DEFINE d == parseLoadStoreRegisterOffset(w)
<1>1. /\ d.format = "registerOffset"
      /\ d.rd = Bits(w, 2, 0) /\ d.rb = Bits(w, 5, 3) /\ d.ro = Bits(w, 8, 6)
         /\ Bit(d.byte) = Bits(w, 10, 10) /\ Bit(d.load) = Bits(w, 11, 11)
  BY BitValues DEF THUMBWord, parseLoadStoreRegisterOffset, Low, Mid, High
<1> HIDE DEF d
<1>2. AssembleTHUMB(d) = LowRegisters(d.rd, d.rb, d.ro) + 5 * 2^12 + Bit(d.load) * 2^11
                       + Bit(d.byte) * 2^10
  BY <1>1 DEF AssembleTHUMB
<1>3. LowRegisters(d.rd, d.rb, d.ro)
        = Bits(w, 2, 0) + Bits(w, 5, 3) * 2^3 + Bits(w, 8, 6) * 2^6
  BY <1>1 DEF LowRegisters
<1>4. Bits(w, 9, 9) = 0
  BY BitValues DEF THUMBWord, BitSet
<1> QED BY <1>1, <1>2, <1>3, <1>4, RegisterOffsetSum DEF d

LEMMA SignExtendedSum ==
    ASSUME NEW w \in THUMBWord
    PROVE  /\ w = Bits(w, 15, 14) * 2^14 + Bits(w, 13, 12) * 2^12 + Bits(w, 11, 11) * 2^11
              + Bits(w, 10, 10) * 2^10 + Bits(w, 9, 9) * 2^9 + Bits(w, 8, 6) * 2^6
              + Bits(w, 5, 3) * 2^3 + Bits(w, 2, 0)
           /\ Bits(w, 15, 14) \in Nat /\ Bits(w, 13, 12) \in Nat /\ Bits(w, 11, 11) \in Nat
              /\ Bits(w, 10, 10) \in Nat /\ Bits(w, 9, 9) \in Nat /\ Bits(w, 8, 6) \in Nat
              /\ Bits(w, 5, 3) \in Nat /\ Bits(w, 2, 0) \in Nat
<1>1. w \in Nat /\ Up(w, 0) = w /\ Up(w, 16) = 0
  BY DEF THUMBWord, Up
<1>2. /\ Bits(w, 15, 14) \in Nat /\ Bits(w, 13, 12) \in Nat /\ Bits(w, 11, 11) \in Nat
         /\ Bits(w, 10, 10) \in Nat /\ Bits(w, 9, 9) \in Nat /\ Bits(w, 8, 6) \in Nat
         /\ Bits(w, 5, 3) \in Nat /\ Bits(w, 2, 0) \in Nat
      /\ Up(w, 14) \in Nat /\ Up(w, 12) \in Nat /\ Up(w, 11) \in Nat /\ Up(w, 10) \in Nat
         /\ Up(w, 9) \in Nat /\ Up(w, 6) \in Nat /\ Up(w, 3) \in Nat /\ Up(w, 0) \in Nat
  BY <1>1 DEF Bits, Up
<1>3. Up(w, 14) = Bits(w, 15, 14) + 2^2 * Up(w, 16)
  BY <1>1 DEF Bits, Up
<1>4. Up(w, 12) = Bits(w, 13, 12) + 2^2 * Up(w, 14)
  BY <1>1 DEF Bits, Up
<1>5. Up(w, 11) = Bits(w, 11, 11) + 2^1 * Up(w, 12)
  BY <1>1 DEF Bits, Up
<1>6. Up(w, 11) = Bits(w, 15, 14) * 2^3 + Bits(w, 13, 12) * 2^1 + Bits(w, 11, 11)
  BY <1>1, <1>2, <1>3, <1>4, <1>5
<1>7. Up(w, 10) = Bits(w, 10, 10) + 2^1 * Up(w, 11)
  BY <1>1 DEF Bits, Up
<1>8. Up(w, 9) = Bits(w, 9, 9) + 2^1 * Up(w, 10)
  BY <1>1 DEF Bits, Up
<1>9. Up(w, 6) = Bits(w, 8, 6) + 2^3 * Up(w, 9)
  BY <1>1 DEF Bits, Up
<1>10. Up(w, 6) = Bits(w, 15, 14) * 2^8 + Bits(w, 13, 12) * 2^6 + Bits(w, 11, 11) * 2^5
                + Bits(w, 10, 10) * 2^4 + Bits(w, 9, 9) * 2^3 + Bits(w, 8, 6)
  BY <1>1, <1>2, <1>6, <1>7, <1>8, <1>9
<1>11. Up(w, 3) = Bits(w, 5, 3) + 2^3 * Up(w, 6)
  BY <1>1 DEF Bits, Up
<1>12. Up(w, 0) = Bits(w, 2, 0) + 2^3 * Up(w, 3)
  BY <1>1 DEF Bits, Up
<1>13. Up(w, 0) = Bits(w, 15, 14) * 2^14 + Bits(w, 13, 12) * 2^12 + Bits(w, 11, 11) * 2^11
                + Bits(w, 10, 10) * 2^10 + Bits(w, 9, 9) * 2^9 + Bits(w, 8, 6) * 2^6
                + Bits(w, 5, 3) * 2^3 + Bits(w, 2, 0)
  BY <1>1, <1>2, <1>10, <1>11, <1>12
<1> QED BY <1>1, <1>2, <1>13

LEMMA SignExtendedRebuilds ==
    ASSUME NEW w \in THUMBWord, Bits(w, 15, 14) = 1, Bits(w, 13, 12) = 1, BitSet(w, 9)
    PROVE  AssembleTHUMB(parseLoadStoreSignExtendedHalfword(w)) = w
<1> DEFINE d == parseLoadStoreSignExtendedHalfword(w)
<1>1. /\ d.format = "signExtended"
      /\ d.rd = Bits(w, 2, 0) /\ d.rb = Bits(w, 5, 3) /\ d.ro = Bits(w, 8, 6)
         /\ Bit(d.signExtend) = Bits(w, 10, 10) /\ Bit(d.halfword) = Bits(w, 11, 11)
  BY BitValues DEF THUMBWord, parseLoadStoreSignExtendedHalfword, Low, Mid, High
<1> HIDE DEF d
<1>2. AssembleTHUMB(d) = LowRegisters(d.rd, d.rb, d.ro) + 5 * 2^12 + Bit(d.halfword) * 2^11
                       + Bit(d.signExtend) * 2^10 + 2^9
  BY <1>1 DEF AssembleTHUMB
<1>3. LowRegisters(d.rd, d.rb, d.ro)
        = Bits(w, 2, 0) + Bits(w, 5, 3) * 2^3 + Bits(w, 8, 6) * 2^6
  BY <1>1 DEF LowRegisters
<1> QED BY <1>1, <1>2, <1>3, SignExtendedSum DEF d, BitSet

LEMMA ImmediateOffsetSum ==
    ASSUME NEW w \in THUMBWord
    PROVE  /\ w = Bits(w, 15, 14) * 2^14 + Bits(w, 13, 13) * 2^13 + Bits(w, 12, 12) * 2^12
              + Bits(w, 11, 11) * 2^11 + Bits(w, 10, 6) * 2^6 + Bits(w, 5, 3) * 2^3
              + Bits(w, 2, 0)
           /\ Bits(w, 15, 14) \in Nat /\ Bits(w, 13, 13) \in Nat /\ Bits(w, 12, 12) \in Nat
              /\ Bits(w, 11, 11) \in Nat /\ Bits(w, 10, 6) \in Nat /\ Bits(w, 5, 3) \in Nat
              /\ Bits(w, 2, 0) \in Nat
<1>1. w \in Nat /\ Up(w, 0) = w /\ Up(w, 16) = 0
  BY DEF THUMBWord, Up
<1>2. /\ Bits(w, 15, 14) \in Nat /\ Bits(w, 13, 13) \in Nat /\ Bits(w, 12, 12) \in Nat
         /\ Bits(w, 11, 11) \in Nat /\ Bits(w, 10, 6) \in Nat /\ Bits(w, 5, 3) \in Nat
         /\ Bits(w, 2, 0) \in Nat
      /\ Up(w, 14) \in Nat /\ Up(w, 13) \in Nat /\ Up(w, 12) \in Nat /\ Up(w, 11) \in Nat
         /\ Up(w, 6) \in Nat /\ Up(w, 3) \in Nat /\ Up(w, 0) \in Nat
  BY <1>1 DEF Bits, Up
<1>3. Up(w, 14) = Bits(w, 15, 14) + 2^2 * Up(w, 16)
  BY <1>1 DEF Bits, Up
<1>4. Up(w, 13) = Bits(w, 13, 13) + 2^1 * Up(w, 14)
  BY <1>1 DEF Bits, Up
<1>5. Up(w, 12) = Bits(w, 12, 12) + 2^1 * Up(w, 13)
  BY <1>1 DEF Bits, Up
<1>6. Up(w, 12) = Bits(w, 15, 14) * 2^2 + Bits(w, 13, 13) * 2^1 + Bits(w, 12, 12)
  BY <1>1, <1>2, <1>3, <1>4, <1>5
<1>7. Up(w, 11) = Bits(w, 11, 11) + 2^1 * Up(w, 12)
  BY <1>1 DEF Bits, Up
<1>8. Up(w, 6) = Bits(w, 10, 6) + 2^5 * Up(w, 11)
  BY <1>1 DEF Bits, Up
<1>9. Up(w, 3) = Bits(w, 5, 3) + 2^3 * Up(w, 6)
  BY <1>1 DEF Bits, Up
<1>10. Up(w, 3) = Bits(w, 15, 14) * 2^11 + Bits(w, 13, 13) * 2^10 + Bits(w, 12, 12) * 2^9
                + Bits(w, 11, 11) * 2^8 + Bits(w, 10, 6) * 2^3 + Bits(w, 5, 3)
  BY <1>1, <1>2, <1>6, <1>7, <1>8, <1>9
<1>11. Up(w, 0) = Bits(w, 2, 0) + 2^3 * Up(w, 3)
  BY <1>1 DEF Bits, Up
<1>12. Up(w, 0) = Bits(w, 15, 14) * 2^14 + Bits(w, 13, 13) * 2^13 + Bits(w, 12, 12) * 2^12
                + Bits(w, 11, 11) * 2^11 + Bits(w, 10, 6) * 2^6 + Bits(w, 5, 3) * 2^3
                + Bits(w, 2, 0)
  BY <1>1, <1>2, <1>10, <1>11
<1> QED BY <1>1, <1>2, <1>12

LEMMA ImmediateOffsetRebuilds ==
    ASSUME NEW w \in THUMBWord, Bits(w, 15, 14) = 1, BitSet(w, 13)
    PROVE  AssembleTHUMB(parseLoadStoreImmediateOffset(w)) = w
<1> DEFINE d == parseLoadStoreImmediateOffset(w)
<1>1. /\ d.format = "immediateOffset"
      /\ d.rd = Bits(w, 2, 0) /\ d.rb = Bits(w, 5, 3) /\ d.offset = Bits(w, 10, 6)
         /\ Bit(d.load) = Bits(w, 11, 11) /\ Bit(d.byte) = Bits(w, 12, 12)
  BY BitValues DEF THUMBWord, parseLoadStoreImmediateOffset, Low, Mid, High
<1> HIDE DEF d
<1>2. AssembleTHUMB(d) = LowRegisters(d.rd, d.rb, 0) + 3 * 2^13 + Bit(d.byte) * 2^12
                       + Bit(d.load) * 2^11 + d.offset * 2^6
  BY <1>1 DEF AssembleTHUMB
<1>3. LowRegisters(d.rd, d.rb, 0) = Bits(w, 2, 0) + Bits(w, 5, 3) * 2^3 + 0 * 2^6
  BY <1>1 DEF LowRegisters
<1> QED BY <1>1, <1>2, <1>3, ImmediateOffsetSum DEF d, BitSet

LEMMA HalfwordOffsetSum ==
    ASSUME NEW w \in THUMBWord
    PROVE  /\ w = Bits(w, 15, 14) * 2^14 + Bits(w, 13, 12) * 2^12 + Bits(w, 11, 11) * 2^11
              + Bits(w, 10, 6) * 2^6 + Bits(w, 5, 3) * 2^3 + Bits(w, 2, 0)
           /\ Bits(w, 15, 14) \in Nat /\ Bits(w, 13, 12) \in Nat /\ Bits(w, 11, 11) \in Nat
              /\ Bits(w, 10, 6) \in Nat /\ Bits(w, 5, 3) \in Nat /\ Bits(w, 2, 0) \in Nat
<1>1. w \in Nat /\ Up(w, 0) = w /\ Up(w, 16) = 0
  BY DEF THUMBWord, Up
<1>2. /\ Bits(w, 15, 14) \in Nat /\ Bits(w, 13, 12) \in Nat /\ Bits(w, 11, 11) \in Nat
         /\ Bits(w, 10, 6) \in Nat /\ Bits(w, 5, 3) \in Nat /\ Bits(w, 2, 0) \in Nat
      /\ Up(w, 14) \in Nat /\ Up(w, 12) \in Nat /\ Up(w, 11) \in Nat /\ Up(w, 6) \in Nat
         /\ Up(w, 3) \in Nat /\ Up(w, 0) \in Nat
  BY <1>1 DEF Bits, Up
<1>3. Up(w, 14) = Bits(w, 15, 14) + 2^2 * Up(w, 16)
  BY <1>1 DEF Bits, Up
<1>4. Up(w, 12) = Bits(w, 13, 12) + 2^2 * Up(w, 14)
  BY <1>1 DEF Bits, Up
<1>5. Up(w, 11) = Bits(w, 11, 11) + 2^1 * Up(w, 12)
  BY <1>1 DEF Bits, Up
<1>6. Up(w, 11) = Bits(w, 15, 14) * 2^3 + Bits(w, 13, 12) * 2^1 + Bits(w, 11, 11)
  BY <1>1, <1>2, <1>3, <1>4, <1>5
<1>7. Up(w, 6) = Bits(w, 10, 6) + 2^5 * Up(w, 11)
  BY <1>1 DEF Bits, Up
<1>8. Up(w, 3) = Bits(w, 5, 3) + 2^3 * Up(w, 6)
  BY <1>1 DEF Bits, Up
<1>9. Up(w, 0) = Bits(w, 2, 0) + 2^3 * Up(w, 3)
  BY <1>1 DEF Bits, Up
<1>10. Up(w, 0) = Bits(w, 15, 14) * 2^14 + Bits(w, 13, 12) * 2^12 + Bits(w, 11, 11) * 2^11
                + Bits(w, 10, 6) * 2^6 + Bits(w, 5, 3) * 2^3 + Bits(w, 2, 0)
  BY <1>1, <1>2, <1>6, <1>7, <1>8, <1>9
<1> QED BY <1>1, <1>2, <1>10

LEMMA HalfwordOffsetRebuilds ==
    ASSUME NEW w \in THUMBWord, Bits(w, 15, 14) = 2, Bits(w, 13, 12) = 0
    PROVE  AssembleTHUMB(parseLoadStoreHalfword(w)) = w
<1> DEFINE d == parseLoadStoreHalfword(w)
<1>1. /\ d.format = "halfwordOffset"
      /\ d.rd = Bits(w, 2, 0) /\ d.rb = Bits(w, 5, 3) /\ d.offset = Bits(w, 10, 6)
         /\ Bit(d.load) = Bits(w, 11, 11)
  BY BitValues DEF THUMBWord, parseLoadStoreHalfword, Low, Mid, High
<1> HIDE DEF d
<1>2. AssembleTHUMB(d) = LowRegisters(d.rd, d.rb, 0) + 8 * 2^12 + Bit(d.load) * 2^11
                       + d.offset * 2^6
  BY <1>1 DEF AssembleTHUMB
<1>3. LowRegisters(d.rd, d.rb, 0) = Bits(w, 2, 0) + Bits(w, 5, 3) * 2^3 + 0 * 2^6
  BY <1>1 DEF LowRegisters
<1> QED BY <1>1, <1>2, <1>3, HalfwordOffsetSum DEF d

LEMMA SPRelativeSum ==
    ASSUME NEW w \in THUMBWord
    PROVE  /\ w = Bits(w, 15, 14) * 2^14 + Bits(w, 13, 12) * 2^12 + Bits(w, 11, 11) * 2^11
              + Bits(w, 10, 8) * 2^8 + Bits(w, 7, 0)
           /\ Bits(w, 15, 14) \in Nat /\ Bits(w, 13, 12) \in Nat /\ Bits(w, 11, 11) \in Nat
              /\ Bits(w, 10, 8) \in Nat /\ Bits(w, 7, 0) \in Nat
<1>1. w \in Nat /\ Up(w, 0) = w /\ Up(w, 16) = 0
  BY DEF THUMBWord, Up
<1>2. /\ Bits(w, 15, 14) \in Nat /\ Bits(w, 13, 12) \in Nat /\ Bits(w, 11, 11) \in Nat
         /\ Bits(w, 10, 8) \in Nat /\ Bits(w, 7, 0) \in Nat
      /\ Up(w, 14) \in Nat /\ Up(w, 12) \in Nat /\ Up(w, 11) \in Nat /\ Up(w, 8) \in Nat
         /\ Up(w, 0) \in Nat
  BY <1>1 DEF Bits, Up
<1>3. Up(w, 14) = Bits(w, 15, 14) + 2^2 * Up(w, 16)
  BY <1>1 DEF Bits, Up
<1>4. Up(w, 12) = Bits(w, 13, 12) + 2^2 * Up(w, 14)
  BY <1>1 DEF Bits, Up
<1>5. Up(w, 11) = Bits(w, 11, 11) + 2^1 * Up(w, 12)
  BY <1>1 DEF Bits, Up
<1>6. Up(w, 11) = Bits(w, 15, 14) * 2^3 + Bits(w, 13, 12) * 2^1 + Bits(w, 11, 11)
  BY <1>1, <1>2, <1>3, <1>4, <1>5
<1>7. Up(w, 8) = Bits(w, 10, 8) + 2^3 * Up(w, 11)
  BY <1>1 DEF Bits, Up
<1>8. Up(w, 0) = Bits(w, 7, 0) + 2^8 * Up(w, 8)
  BY <1>1 DEF Bits, Up
<1>9. Up(w, 0) = Bits(w, 15, 14) * 2^14 + Bits(w, 13, 12) * 2^12 + Bits(w, 11, 11) * 2^11
                + Bits(w, 10, 8) * 2^8 + Bits(w, 7, 0)
  BY <1>1, <1>2, <1>6, <1>7, <1>8
<1> QED BY <1>1, <1>2, <1>9

LEMMA SPRelativeRebuilds ==
    ASSUME NEW w \in THUMBWord, Bits(w, 15, 14) = 2, Bits(w, 13, 12) = 1
    PROVE  AssembleTHUMB(parseSPRelativeLoadStore(w)) = w
<1> DEFINE d == parseSPRelativeLoadStore(w)
<1>1. /\ d.format = "spRelative"
      /\ d.rd = Bits(w, 10, 8) /\ d.offset = Bits(w, 7, 0) /\ Bit(d.load) = Bits(w, 11, 11)
  BY BitValues DEF THUMBWord, parseSPRelativeLoadStore, Low, Mid, High
<1> HIDE DEF d
<1>2. AssembleTHUMB(d) = 9 * 2^12 + Bit(d.load) * 2^11 + d.rd * 2^8 + d.offset
  BY <1>1 DEF AssembleTHUMB
<1> QED BY <1>1, <1>2, SPRelativeSum DEF d

LEMMA LoadAddressSum ==
    ASSUME NEW w \in THUMBWord
    PROVE  /\ w = Bits(w, 15, 14) * 2^14 + Bits(w, 13, 12) * 2^12 + Bits(w, 11, 11) * 2^11
              + Bits(w, 10, 8) * 2^8 + Bits(w, 7, 0)
           /\ Bits(w, 15, 14) \in Nat /\ Bits(w, 13, 12) \in Nat /\ Bits(w, 11, 11) \in Nat
              /\ Bits(w, 10, 8) \in Nat /\ Bits(w, 7, 0) \in Nat
<1>1. w \in Nat /\ Up(w, 0) = w /\ Up(w, 16) = 0
  BY DEF THUMBWord, Up
<1>2. /\ Bits(w, 15, 14) \in Nat /\ Bits(w, 13, 12) \in Nat /\ Bits(w, 11, 11) \in Nat
         /\ Bits(w, 10, 8) \in Nat /\ Bits(w, 7, 0) \in Nat
      /\ Up(w, 14) \in Nat /\ Up(w, 12) \in Nat /\ Up(w, 11) \in Nat /\ Up(w, 8) \in Nat
         /\ Up(w, 0) \in Nat
  BY <1>1 DEF Bits, Up
<1>3. Up(w, 14) = Bits(w, 15, 14) + 2^2 * Up(w, 16)
  BY <1>1 DEF Bits, Up
<1>4. Up(w, 12) = Bits(w, 13, 12) + 2^2 * Up(w, 14)
  BY <1>1 DEF Bits, Up
<1>5. Up(w, 11) = Bits(w, 11, 11) + 2^1 * Up(w, 12)
  BY <1>1 DEF Bits, Up
<1>6. Up(w, 11) = Bits(w, 15, 14) * 2^3 + Bits(w, 13, 12) * 2^1 + Bits(w, 11, 11)
  BY <1>1, <1>2, <1>3, <1>4, <1>5
<1>7. Up(w, 8) = Bits(w, 10, 8) + 2^3 * Up(w, 11)
  BY <1>1 DEF Bits, Up
<1>8. Up(w, 0) = Bits(w, 7, 0) + 2^8 * Up(w, 8)
  BY <1>1 DEF Bits, Up
<1>9. Up(w, 0) = Bits(w, 15, 14) * 2^14 + Bits(w, 13, 12) * 2^12 + Bits(w, 11, 11) * 2^11
                + Bits(w, 10, 8) * 2^8 + Bits(w, 7, 0)
  BY <1>1, <1>2, <1>6, <1>7, <1>8
<1> QED BY <1>1, <1>2, <1>9

LEMMA LoadAddressRebuilds ==
    ASSUME NEW w \in THUMBWord, Bits(w, 15, 14) = 2, Bits(w, 13, 12) = 2
    PROVE  AssembleTHUMB(parseLoadAddress(w)) = w
<1> DEFINE d == parseLoadAddress(w)
<1>1. /\ d.format = "loadAddress"
      /\ d.rd = Bits(w, 10, 8) /\ d.offset = Bits(w, 7, 0)
         /\ Bit(d.loadSP) = Bits(w, 11, 11)
  BY BitValues DEF THUMBWord, parseLoadAddress, Low, Mid, High
<1> HIDE DEF d
<1>2. AssembleTHUMB(d) = 10 * 2^12 + Bit(d.loadSP) * 2^11 + d.rd * 2^8 + d.offset
  BY <1>1 DEF AssembleTHUMB
<1> QED BY <1>1, <1>2, LoadAddressSum DEF d

LEMMA AddToSPSum ==
    ASSUME NEW w \in THUMBWord
    PROVE  /\ w = Bits(w, 15, 14) * 2^14 + Bits(w, 13, 12) * 2^12 + Bits(w, 11, 8) * 2^8
              + Bits(w, 7, 7) * 2^7 + Bits(w, 6, 0)
           /\ Bits(w, 15, 14) \in Nat /\ Bits(w, 13, 12) \in Nat /\ Bits(w, 11, 8) \in Nat
              /\ Bits(w, 7, 7) \in Nat /\ Bits(w, 6, 0) \in Nat
<1>1. w \in Nat /\ Up(w, 0) = w /\ Up(w, 16) = 0
  BY DEF THUMBWord, Up
<1>2. /\ Bits(w, 15, 14) \in Nat /\ Bits(w, 13, 12) \in Nat /\ Bits(w, 11, 8) \in Nat
         /\ Bits(w, 7, 7) \in Nat /\ Bits(w, 6, 0) \in Nat
      /\ Up(w, 14) \in Nat /\ Up(w, 12) \in Nat /\ Up(w, 8) \in Nat /\ Up(w, 7) \in Nat
         /\ Up(w, 0) \in Nat
  BY <1>1 DEF Bits, Up
<1>3. Up(w, 14) = Bits(w, 15, 14) + 2^2 * Up(w, 16)
  BY <1>1 DEF Bits, Up
<1>4. Up(w, 12) = Bits(w, 13, 12) + 2^2 * Up(w, 14)
  BY <1>1 DEF Bits, Up
<1>5. Up(w, 8) = Bits(w, 11, 8) + 2^4 * Up(w, 12)
  BY <1>1 DEF Bits, Up
<1>6. Up(w, 8) = Bits(w, 15, 14) * 2^6 + Bits(w, 13, 12) * 2^4 + Bits(w, 11, 8)
  BY <1>1, <1>2, <1>3, <1>4, <1>5
<1>7. Up(w, 7) = Bits(w, 7, 7) + 2^1 * Up(w, 8)
  BY <1>1 DEF Bits, Up
<1>8. Up(w, 0) = Bits(w, 6, 0) + 2^7 * Up(w, 7)
  BY <1>1 DEF Bits, Up
<1>9. Up(w, 0) = Bits(w, 15, 14) * 2^14 + Bits(w, 13, 12) * 2^12 + Bits(w, 11, 8) * 2^8
                + Bits(w, 7, 7) * 2^7 + Bits(w, 6, 0)
  BY <1>1, <1>2, <1>6, <1>7, <1>8
<1> QED BY <1>1, <1>2, <1>9

LEMMA AddToSPRebuilds ==
    ASSUME NEW w \in THUMBWord, Bits(w, 15, 14) = 2, Bits(w, 13, 12) = 3, Bits(w, 11, 8) = 0
    PROVE  AssembleTHUMB(parseAddToStackPointer(w)) = w
<1> DEFINE d == parseAddToStackPointer(w)
<1>1. /\ d.format = "addToSp"
      /\ d.offset = Bits(w, 6, 0) /\ Bit(d.negative) = Bits(w, 7, 7)
  BY BitValues DEF THUMBWord, parseAddToStackPointer
<1> HIDE DEF d
<1>2. AssembleTHUMB(d) = 11 * 2^12 + Bit(d.negative) * 2^7 + d.offset
  BY <1>1 DEF AssembleTHUMB
<1> QED BY <1>1, <1>2, AddToSPSum DEF d

LEMMA MultipleSum ==
    ASSUME NEW w \in THUMBWord
    PROVE  /\ w = Bits(w, 15, 14) * 2^14 + Bits(w, 13, 12) * 2^12 + Bits(w, 11, 11) * 2^11
              + Bits(w, 10, 8) * 2^8 + Bits(w, 7, 0)
           /\ Bits(w, 15, 14) \in Nat /\ Bits(w, 13, 12) \in Nat /\ Bits(w, 11, 11) \in Nat
              /\ Bits(w, 10, 8) \in Nat /\ Bits(w, 7, 0) \in Nat
<1>1. w \in Nat /\ Up(w, 0) = w /\ Up(w, 16) = 0
  BY DEF THUMBWord, Up
<1>2. /\ Bits(w, 15, 14) \in Nat /\ Bits(w, 13, 12) \in Nat /\ Bits(w, 11, 11) \in Nat
         /\ Bits(w, 10, 8) \in Nat /\ Bits(w, 7, 0) \in Nat
      /\ Up(w, 14) \in Nat /\ Up(w, 12) \in Nat /\ Up(w, 11) \in Nat /\ Up(w, 8) \in Nat
         /\ Up(w, 0) \in Nat
  BY <1>1 DEF Bits, Up
<1>3. Up(w, 14) = Bits(w, 15, 14) + 2^2 * Up(w, 16)
  BY <1>1 DEF Bits, Up
<1>4. Up(w, 12) = Bits(w, 13, 12) + 2^2 * Up(w, 14)
  BY <1>1 DEF Bits, Up
<1>5. Up(w, 11) = Bits(w, 11, 11) + 2^1 * Up(w, 12)
  BY <1>1 DEF Bits, Up
<1>6. Up(w, 11) = Bits(w, 15, 14) * 2^3 + Bits(w, 13, 12) * 2^1 + Bits(w, 11, 11)
  BY <1>1, <1>2, <1>3, <1>4, <1>5
<1>7. Up(w, 8) = Bits(w, 10, 8) + 2^3 * Up(w, 11)
  BY <1>1 DEF Bits, Up
<1>8. Up(w, 0) = Bits(w, 7, 0) + 2^8 * Up(w, 8)
  BY <1>1 DEF Bits, Up
<1>9. Up(w, 0) = Bits(w, 15, 14) * 2^14 + Bits(w, 13, 12) * 2^12 + Bits(w, 11, 11) * 2^11
                + Bits(w, 10, 8) * 2^8 + Bits(w, 7, 0)
  BY <1>1, <1>2, <1>6, <1>7, <1>8
<1> QED BY <1>1, <1>2, <1>9

LEMMA MultipleRebuilds ==
    ASSUME NEW w \in THUMBWord, Bits(w, 15, 14) = 3, Bits(w, 13, 12) = 0
    PROVE  AssembleTHUMB(parseMultipleLoadStore(w)) = w
<1> DEFINE d == parseMultipleLoadStore(w)
<1>1. /\ d.format = "multiple"
      /\ d.rb = Bits(w, 10, 8) /\ d.list = Bits(w, 7, 0) /\ Bit(d.load) = Bits(w, 11, 11)
  BY BitValues DEF THUMBWord, parseMultipleLoadStore, Low, Mid, High
<1> HIDE DEF d
<1>2. AssembleTHUMB(d) = 12 * 2^12 + Bit(d.load) * 2^11 + d.rb * 2^8 + d.list
  BY <1>1 DEF AssembleTHUMB
<1> QED BY <1>1, <1>2, MultipleSum DEF d

LEMMA SWITHUMBSum ==
    ASSUME NEW w \in THUMBWord
    PROVE  /\ w = Bits(w, 15, 14) * 2^14 + Bits(w, 13, 12) * 2^12 + Bits(w, 11, 8) * 2^8
              + Bits(w, 7, 0)
           /\ Bits(w, 15, 14) \in Nat /\ Bits(w, 13, 12) \in Nat /\ Bits(w, 11, 8) \in Nat
              /\ Bits(w, 7, 0) \in Nat
<1>1. w \in Nat /\ Up(w, 0) = w /\ Up(w, 16) = 0
  BY DEF THUMBWord, Up
<1>2. /\ Bits(w, 15, 14) \in Nat /\ Bits(w, 13, 12) \in Nat /\ Bits(w, 11, 8) \in Nat
         /\ Bits(w, 7, 0) \in Nat
      /\ Up(w, 14) \in Nat /\ Up(w, 12) \in Nat /\ Up(w, 8) \in Nat /\ Up(w, 0) \in Nat
  BY <1>1 DEF Bits, Up
<1>3. Up(w, 14) = Bits(w, 15, 14) + 2^2 * Up(w, 16)
  BY <1>1 DEF Bits, Up
<1>4. Up(w, 12) = Bits(w, 13, 12) + 2^2 * Up(w, 14)
  BY <1>1 DEF Bits, Up
<1>5. Up(w, 8) = Bits(w, 11, 8) + 2^4 * Up(w, 12)
  BY <1>1 DEF Bits, Up
<1>6. Up(w, 8) = Bits(w, 15, 14) * 2^6 + Bits(w, 13, 12) * 2^4 + Bits(w, 11, 8)
  BY <1>1, <1>2, <1>3, <1>4, <1>5
<1>7. Up(w, 0) = Bits(w, 7, 0) + 2^8 * Up(w, 8)
  BY <1>1 DEF Bits, Up
<1>8. Up(w, 0) = Bits(w, 15, 14) * 2^14 + Bits(w, 13, 12) * 2^12 + Bits(w, 11, 8) * 2^8
                + Bits(w, 7, 0)
  BY <1>1, <1>2, <1>6, <1>7
<1> QED BY <1>1, <1>2, <1>8

LEMMA SWITHUMBRebuilds ==
    ASSUME NEW w \in THUMBWord, Bits(w, 15, 14) = 3, Bits(w, 13, 12) = 1, Bits(w, 11, 8) = 15
    PROVE  AssembleTHUMB(parseSoftwareInterruptTHUMB(w)) = w
<1> DEFINE d == parseSoftwareInterruptTHUMB(w)
<1>1. /\ d.format = "swi"
      /\ d.comment = Bits(w, 7, 0)
  BY BitValues DEF THUMBWord, parseSoftwareInterruptTHUMB
<1> HIDE DEF d
<1>2. AssembleTHUMB(d) = 223 * 2^8 + d.comment
  BY <1>1 DEF AssembleTHUMB
<1> QED BY <1>1, <1>2, SWITHUMBSum DEF d

LEMMA BranchAndLinkSum ==
    ASSUME NEW w \in THUMBWord
    PROVE  /\ w = Bits(w, 15, 14) * 2^14 + Bits(w, 13, 12) * 2^12 + Bits(w, 11, 11) * 2^11
              + Bits(w, 10, 0)
           /\ Bits(w, 15, 14) \in Nat /\ Bits(w, 13, 12) \in Nat /\ Bits(w, 11, 11) \in Nat
              /\ Bits(w, 10, 0) \in Nat
<1>1. w \in Nat /\ Up(w, 0) = w /\ Up(w, 16) = 0
  BY DEF THUMBWord, Up
<1>2. /\ Bits(w, 15, 14) \in Nat /\ Bits(w, 13, 12) \in Nat /\ Bits(w, 11, 11) \in Nat
         /\ Bits(w, 10, 0) \in Nat
      /\ Up(w, 14) \in Nat /\ Up(w, 12) \in Nat /\ Up(w, 11) \in Nat /\ Up(w, 0) \in Nat
  BY <1>1 DEF Bits, Up
<1>3. Up(w, 14) = Bits(w, 15, 14) + 2^2 * Up(w, 16)
  BY <1>1 DEF Bits, Up
<1>4. Up(w, 12) = Bits(w, 13, 12) + 2^2 * Up(w, 14)
  BY <1>1 DEF Bits, Up
<1>5. Up(w, 11) = Bits(w, 11, 11) + 2^1 * Up(w, 12)
  BY <1>1 DEF Bits, Up
<1>6. Up(w, 11) = Bits(w, 15, 14) * 2^3 + Bits(w, 13, 12) * 2^1 + Bits(w, 11, 11)
  BY <1>1, <1>2, <1>3, <1>4, <1>5
<1>7. Up(w, 0) = Bits(w, 10, 0) + 2^11 * Up(w, 11)
  BY <1>1 DEF Bits, Up
<1>8. Up(w, 0) = Bits(w, 15, 14) * 2^14 + Bits(w, 13, 12) * 2^12 + Bits(w, 11, 11) * 2^11
                + Bits(w, 10, 0)
  BY <1>1, <1>2, <1>6, <1>7
<1> QED BY <1>1, <1>2, <1>8

LEMMA BranchAndLinkRebuilds ==
    ASSUME NEW w \in THUMBWord, Bits(w, 15, 14) = 3, Bits(w, 13, 12) = 3
    PROVE  AssembleTHUMB(parseLongBranchAndLink(w)) = w
<1> DEFINE d == parseLongBranchAndLink(w)
<1>1. /\ d.format = "branchAndLink"
      /\ d.offset = Bits(w, 10, 0) /\ Bit(d.offsetLow) = Bits(w, 11, 11)
  BY BitValues DEF THUMBWord, parseLongBranchAndLink
<1> HIDE DEF d
<1>2. AssembleTHUMB(d) = 15 * 2^12 + Bit(d.offsetLow) * 2^11 + d.offset
  BY <1>1 DEF AssembleTHUMB
<1> QED BY <1>1, <1>2, BranchAndLinkSum DEF d

LEMMA HalfwordSum ==
    ASSUME NEW w \in ARMWord
    PROVE  /\ w = Bits(w, 27, 25) * 2^25 + Bits(w, 24, 24) * 2^24 + Bits(w, 23, 23) * 2^23
              + Bits(w, 22, 22) * 2^22 + Bits(w, 21, 21) * 2^21 + Bits(w, 20, 20) * 2^20
              + Bits(w, 19, 16) * 2^16 + Bits(w, 15, 12) * 2^12 + Bits(w, 11, 8) * 2^8
              + Bits(w, 7, 7) * 2^7 + Bits(w, 6, 6) * 2^6 + Bits(w, 5, 5) * 2^5
              + Bits(w, 4, 4) * 2^4 + Bits(w, 3, 0)
           /\ Bits(w, 27, 25) \in Nat /\ Bits(w, 24, 24) \in Nat /\ Bits(w, 23, 23) \in Nat
              /\ Bits(w, 22, 22) \in Nat /\ Bits(w, 21, 21) \in Nat
              /\ Bits(w, 20, 20) \in Nat /\ Bits(w, 19, 16) \in Nat
              /\ Bits(w, 15, 12) \in Nat /\ Bits(w, 11, 8) \in Nat /\ Bits(w, 7, 7) \in Nat
              /\ Bits(w, 6, 6) \in Nat /\ Bits(w, 5, 5) \in Nat /\ Bits(w, 4, 4) \in Nat
              /\ Bits(w, 3, 0) \in Nat
<1>1. w \in Nat /\ Up(w, 0) = w /\ Up(w, 28) = 0
  BY DEF ARMWord, Up
<1>2. /\ Bits(w, 27, 25) \in Nat /\ Bits(w, 24, 24) \in Nat /\ Bits(w, 23, 23) \in Nat
         /\ Bits(w, 22, 22) \in Nat /\ Bits(w, 21, 21) \in Nat /\ Bits(w, 20, 20) \in Nat
         /\ Bits(w, 19, 16) \in Nat /\ Bits(w, 15, 12) \in Nat /\ Bits(w, 11, 8) \in Nat
         /\ Bits(w, 7, 7) \in Nat /\ Bits(w, 6, 6) \in Nat /\ Bits(w, 5, 5) \in Nat
         /\ Bits(w, 4, 4) \in Nat /\ Bits(w, 3, 0) \in Nat
      /\ Up(w, 25) \in Nat /\ Up(w, 24) \in Nat /\ Up(w, 23) \in Nat /\ Up(w, 22) \in Nat
         /\ Up(w, 21) \in Nat /\ Up(w, 20) \in Nat /\ Up(w, 16) \in Nat /\ Up(w, 12) \in Nat
         /\ Up(w, 8) \in Nat /\ Up(w, 7) \in Nat /\ Up(w, 6) \in Nat /\ Up(w, 5) \in Nat
         /\ Up(w, 4) \in Nat /\ Up(w, 0) \in Nat
  BY <1>1 DEF Bits, Up
<1>3. Up(w, 25) = Bits(w, 27, 25) + 2^3 * Up(w, 28)
  BY <1>1 DEF Bits, Up
<1>4. Up(w, 24) = Bits(w, 24, 24) + 2^1 * Up(w, 25)
  BY <1>1 DEF Bits, Up
<1>5. Up(w, 23) = Bits(w, 23, 23) + 2^1 * Up(w, 24)
  BY <1>1 DEF Bits, Up
<1>6. Up(w, 23) = Bits(w, 27, 25) * 2^2 + Bits(w, 24, 24) * 2^1 + Bits(w, 23, 23)
  BY <1>1, <1>2, <1>3, <1>4, <1>5
<1>7. Up(w, 22) = Bits(w, 22, 22) + 2^1 * Up(w, 23)
  BY <1>1 DEF Bits, Up
<1>8. Up(w, 21) = Bits(w, 21, 21) + 2^1 * Up(w, 22)
  BY <1>1 DEF Bits, Up
<1>9. Up(w, 20) = Bits(w, 20, 20) + 2^1 * Up(w, 21)
  BY <1>1 DEF Bits, Up
<1>10. Up(w, 20) = Bits(w, 27, 25) * 2^5 + Bits(w, 24, 24) * 2^4 + Bits(w, 23, 23) * 2^3
                + Bits(w, 22, 22) * 2^2 + Bits(w, 21, 21) * 2^1 + Bits(w, 20, 20)
  BY <1>1, <1>2, <1>6, <1>7, <1>8, <1>9
<1>11. Up(w, 16) = Bits(w, 19, 16) + 2^4 * Up(w, 20)
  BY <1>1 DEF Bits, Up
<1>12. Up(w, 12) = Bits(w, 15, 12) + 2^4 * Up(w, 16)
  BY <1>1 DEF Bits, Up
<1>13. Up(w, 12) = Up(w, 20) * 2^8 + Bits(w, 19, 16) * 2^4 + Bits(w, 15, 12)
  BY <1>1, <1>2, <1>11, <1>12
<1>14. Up(w, 8) = Bits(w, 11, 8) + 2^4 * Up(w, 12)
  BY <1>1 DEF Bits, Up
<1>15. Up(w, 7) = Bits(w, 7, 7) + 2^1 * Up(w, 8)
  BY <1>1 DEF Bits, Up
<1>16. Up(w, 6) = Bits(w, 6, 6) + 2^1 * Up(w, 7)
  BY <1>1 DEF Bits, Up
<1>17. Up(w, 6) = Up(w, 20) * 2^14 + Bits(w, 19, 16) * 2^10 + Bits(w, 15, 12) * 2^6
                + Bits(w, 11, 8) * 2^2 + Bits(w, 7, 7) * 2^1 + Bits(w, 6, 6)
  BY <1>1, <1>2, <1>13, <1>14, <1>15, <1>16
<1>18. Up(w, 5) = Bits(w, 5, 5) + 2^1 * Up(w, 6)
  BY <1>1 DEF Bits, Up
<1>19. Up(w, 4) = Bits(w, 4, 4) + 2^1 * Up(w, 5)
  BY <1>1 DEF Bits, Up
<1>20. Up(w, 4) = Up(w, 6) * 2^2 + Bits(w, 5, 5) * 2^1 + Bits(w, 4, 4)
  BY <1>1, <1>2, <1>18, <1>19
<1>21. Up(w, 0) = Bits(w, 3, 0) + 2^4 * Up(w, 4)
  BY <1>1 DEF Bits, Up
<1>22. Up(w, 0) = Up(w, 6) * 2^6 + Bits(w, 5, 5) * 2^5 + Bits(w, 4, 4) * 2^4 + Bits(w, 3, 0)
  BY <1>1, <1>2, <1>20, <1>21
<1>23. w = Up(w, 20) * 2^20 + Bits(w, 19, 16) * 2^16 + Bits(w, 15, 12) * 2^12
         + Bits(w, 11, 8) * 2^8 + Bits(w, 7, 7) * 2^7 + Bits(w, 6, 6) * 2^6
         + Bits(w, 5, 5) * 2^5 + Bits(w, 4, 4) * 2^4 + Bits(w, 3, 0)
  BY <1>1, <1>2, <1>17, <1>22
<1> QED BY <1>1, <1>2, <1>10, <1>23

LEMMA SingleImmediateSum ==
    ASSUME NEW w \in ARMWord
    PROVE  /\ w = Bits(w, 27, 26) * 2^26 + Bits(w, 25, 25) * 2^25 + Bits(w, 24, 24) * 2^24
              + Bits(w, 23, 23) * 2^23 + Bits(w, 22, 22) * 2^22 + Bits(w, 21, 21) * 2^21
              + Bits(w, 20, 20) * 2^20 + Bits(w, 19, 16) * 2^16 + Bits(w, 15, 12) * 2^12
              + Bits(w, 11, 0)
           /\ Bits(w, 27, 26) \in Nat /\ Bits(w, 25, 25) \in Nat /\ Bits(w, 24, 24) \in Nat
              /\ Bits(w, 23, 23) \in Nat /\ Bits(w, 22, 22) \in Nat
              /\ Bits(w, 21, 21) \in Nat /\ Bits(w, 20, 20) \in Nat
              /\ Bits(w, 19, 16) \in Nat /\ Bits(w, 15, 12) \in Nat
              /\ Bits(w, 11, 0) \in Nat
<1>1. w \in Nat /\ Up(w, 0) = w /\ Up(w, 28) = 0
  BY DEF ARMWord, Up
<1>2. /\ Bits(w, 27, 26) \in Nat /\ Bits(w, 25, 25) \in Nat /\ Bits(w, 24, 24) \in Nat
         /\ Bits(w, 23, 23) \in Nat /\ Bits(w, 22, 22) \in Nat /\ Bits(w, 21, 21) \in Nat
         /\ Bits(w, 20, 20) \in Nat /\ Bits(w, 19, 16) \in Nat /\ Bits(w, 15, 12) \in Nat
         /\ Bits(w, 11, 0) \in Nat
      /\ Up(w, 26) \in Nat /\ Up(w, 25) \in Nat /\ Up(w, 24) \in Nat /\ Up(w, 23) \in Nat
         /\ Up(w, 22) \in Nat /\ Up(w, 21) \in Nat /\ Up(w, 20) \in Nat /\ Up(w, 16) \in Nat
         /\ Up(w, 12) \in Nat /\ Up(w, 0) \in Nat
  BY <1>1 DEF Bits, Up
<1>3. Up(w, 26) = Bits(w, 27, 26) + 2^2 * Up(w, 28)
  BY <1>1 DEF Bits, Up
<1>4. Up(w, 25) = Bits(w, 25, 25) + 2^1 * Up(w, 26)
  BY <1>1 DEF Bits, Up
<1>5. Up(w, 24) = Bits(w, 24, 24) + 2^1 * Up(w, 25)
  BY <1>1 DEF Bits, Up
<1>6. Up(w, 24) = Bits(w, 27, 26) * 2^2 + Bits(w, 25, 25) * 2^1 + Bits(w, 24, 24)
  BY <1>1, <1>2, <1>3, <1>4, <1>5
<1>7. Up(w, 23) = Bits(w, 23, 23) + 2^1 * Up(w, 24)
  BY <1>1 DEF Bits, Up
<1>8. Up(w, 22) = Bits(w, 22, 22) + 2^1 * Up(w, 23)
  BY <1>1 DEF Bits, Up
<1>9. Up(w, 21) = Bits(w, 21, 21) + 2^1 * Up(w, 22)
  BY <1>1 DEF Bits, Up
<1>10. Up(w, 21) = Bits(w, 27, 26) * 2^5 + Bits(w, 25, 25) * 2^4 + Bits(w, 24, 24) * 2^3
                + Bits(w, 23, 23) * 2^2 + Bits(w, 22, 22) * 2^1 + Bits(w, 21, 21)
  BY <1>1, <1>2, <1>6, <1>7, <1>8, <1>9
<1>11. Up(w, 20) = Bits(w, 20, 20) + 2^1 * Up(w, 21)
  BY <1>1 DEF Bits, Up
<1>12. Up(w, 16) = Bits(w, 19, 16) + 2^4 * Up(w, 20)
  BY <1>1 DEF Bits, Up
<1>13. Up(w, 16) = Up(w, 21) * 2^5 + Bits(w, 20, 20) * 2^4 + Bits(w, 19, 16)
  BY <1>1, <1>2, <1>11, <1>12
<1>14. Up(w, 12) = Bits(w, 15, 12) + 2^4 * Up(w, 16)
  BY <1>1 DEF Bits, Up
<1>15. Up(w, 0) = Bits(w, 11, 0) + 2^12 * Up(w, 12)
  BY <1>1 DEF Bits, Up
<1>16. Up(w, 0) = Up(w, 21) * 2^21 + Bits(w, 20, 20) * 2^20 + Bits(w, 19, 16) * 2^16
                + Bits(w, 15, 12) * 2^12 + Bits(w, 11, 0)
  BY <1>1, <1>2, <1>13, <1>14, <1>15
<1> QED BY <1>1, <1>2, <1>10, <1>16

LEMMA SingleShiftedSum ==
    ASSUME NEW w \in ARMWord
    PROVE  /\ w = Bits(w, 27, 26) * 2^26 + Bits(w, 25, 25) * 2^25 + Bits(w, 24, 24) * 2^24
              + Bits(w, 23, 23) * 2^23 + Bits(w, 22, 22) * 2^22 + Bits(w, 21, 21) * 2^21
              + Bits(w, 20, 20) * 2^20 + Bits(w, 19, 16) * 2^16 + Bits(w, 15, 12) * 2^12
              + Bits(w, 11, 7) * 2^7 + Bits(w, 6, 5) * 2^5 + Bits(w, 4, 4) * 2^4
              + Bits(w, 3, 0)
           /\ Bits(w, 27, 26) \in Nat /\ Bits(w, 25, 25) \in Nat /\ Bits(w, 24, 24) \in Nat
              /\ Bits(w, 23, 23) \in Nat /\ Bits(w, 22, 22) \in Nat
              /\ Bits(w, 21, 21) \in Nat /\ Bits(w, 20, 20) \in Nat
              /\ Bits(w, 19, 16) \in Nat /\ Bits(w, 15, 12) \in Nat
              /\ Bits(w, 11, 7) \in Nat /\ Bits(w, 6, 5) \in Nat /\ Bits(w, 4, 4) \in Nat
              /\ Bits(w, 3, 0) \in Nat
<1>1. w \in Nat /\ Up(w, 0) = w /\ Up(w, 28) = 0
  BY DEF ARMWord, Up
<1>2. /\ Bits(w, 27, 26) \in Nat /\ Bits(w, 25, 25) \in Nat /\ Bits(w, 24, 24) \in Nat
         /\ Bits(w, 23, 23) \in Nat /\ Bits(w, 22, 22) \in Nat /\ Bits(w, 21, 21) \in Nat
         /\ Bits(w, 20, 20) \in Nat /\ Bits(w, 19, 16) \in Nat /\ Bits(w, 15, 12) \in Nat
         /\ Bits(w, 11, 7) \in Nat /\ Bits(w, 6, 5) \in Nat /\ Bits(w, 4, 4) \in Nat
         /\ Bits(w, 3, 0) \in Nat
      /\ Up(w, 26) \in Nat /\ Up(w, 25) \in Nat /\ Up(w, 24) \in Nat /\ Up(w, 23) \in Nat
         /\ Up(w, 22) \in Nat /\ Up(w, 21) \in Nat /\ Up(w, 20) \in Nat /\ Up(w, 16) \in Nat
         /\ Up(w, 12) \in Nat /\ Up(w, 7) \in Nat /\ Up(w, 5) \in Nat /\ Up(w, 4) \in Nat
         /\ Up(w, 0) \in Nat
  BY <1>1 DEF Bits, Up
<1>3. Up(w, 26) = Bits(w, 27, 26) + 2^2 * Up(w, 28)
  BY <1>1 DEF Bits, Up
<1>4. Up(w, 25) = Bits(w, 25, 25) + 2^1 * Up(w, 26)
  BY <1>1 DEF Bits, Up
<1>5. Up(w, 24) = Bits(w, 24, 24) + 2^1 * Up(w, 25)
  BY <1>1 DEF Bits, Up
<1>6. Up(w, 24) = Bits(w, 27, 26) * 2^2 + Bits(w, 25, 25) * 2^1 + Bits(w, 24, 24)
  BY <1>1, <1>2, <1>3, <1>4, <1>5
<1>7. Up(w, 23) = Bits(w, 23, 23) + 2^1 * Up(w, 24)
  BY <1>1 DEF Bits, Up
<1>8. Up(w, 22) = Bits(w, 22, 22) + 2^1 * Up(w, 23)
  BY <1>1 DEF Bits, Up
<1>9. Up(w, 21) = Bits(w, 21, 21) + 2^1 * Up(w, 22)
  BY <1>1 DEF Bits, Up
<1>10. Up(w, 21) = Bits(w, 27, 26) * 2^5 + Bits(w, 25, 25) * 2^4 + Bits(w, 24, 24) * 2^3
                + Bits(w, 23, 23) * 2^2 + Bits(w, 22, 22) * 2^1 + Bits(w, 21, 21)
  BY <1>1, <1>2, <1>6, <1>7, <1>8, <1>9
<1>11. Up(w, 20) = Bits(w, 20, 20) + 2^1 * Up(w, 21)
  BY <1>1 DEF Bits, Up
<1>12. Up(w, 16) = Bits(w, 19, 16) + 2^4 * Up(w, 20)
  BY <1>1 DEF Bits, Up
<1>13. Up(w, 16) = Up(w, 21) * 2^5 + Bits(w, 20, 20) * 2^4 + Bits(w, 19, 16)
  BY <1>1, <1>2, <1>11, <1>12
<1>14. Up(w, 12) = Bits(w, 15, 12) + 2^4 * Up(w, 16)
  BY <1>1 DEF Bits, Up
<1>15. Up(w, 7) = Bits(w, 11, 7) + 2^5 * Up(w, 12)
  BY <1>1 DEF Bits, Up
<1>16. Up(w, 5) = Bits(w, 6, 5) + 2^2 * Up(w, 7)
  BY <1>1 DEF Bits, Up
<1>17. Up(w, 5) = Up(w, 21) * 2^16 + Bits(w, 20, 20) * 2^15 + Bits(w, 19, 16) * 2^11
                + Bits(w, 15, 12) * 2^7 + Bits(w, 11, 7) * 2^2 + Bits(w, 6, 5)
  BY <1>1, <1>2, <1>13, <1>14, <1>15, <1>16
<1>18. Up(w, 4) = Bits(w, 4, 4) + 2^1 * Up(w, 5)
  BY <1>1 DEF Bits, Up
<1>19. Up(w, 0) = Bits(w, 3, 0) + 2^4 * Up(w, 4)
  BY <1>1 DEF Bits, Up
<1>20. Up(w, 0) = Up(w, 21) * 2^21 + Bits(w, 20, 20) * 2^20 + Bits(w, 19, 16) * 2^16
                + Bits(w, 15, 12) * 2^12 + Bits(w, 11, 7) * 2^7 + Bits(w, 6, 5) * 2^5
                + Bits(w, 4, 4) * 2^4 + Bits(w, 3, 0)
  BY <1>1, <1>2, <1>17, <1>18, <1>19
<1> QED BY <1>1, <1>2, <1>10, <1>20

LEMMA MultiplySum ==
    ASSUME NEW w \in ARMWord
    PROVE  /\ w = Bits(w, 27, 24) * 2^24 + Bits(w, 23, 23) * 2^23 + Bits(w, 22, 22) * 2^22
              + Bits(w, 21, 21) * 2^21 + Bits(w, 20, 20) * 2^20 + Bits(w, 19, 16) * 2^16
              + Bits(w, 15, 12) * 2^12 + Bits(w, 11, 8) * 2^8 + Bits(w, 7, 4) * 2^4
              + Bits(w, 3, 0)
           /\ Bits(w, 27, 24) \in Nat /\ Bits(w, 23, 23) \in Nat /\ Bits(w, 22, 22) \in Nat
              /\ Bits(w, 21, 21) \in Nat /\ Bits(w, 20, 20) \in Nat
              /\ Bits(w, 19, 16) \in Nat /\ Bits(w, 15, 12) \in Nat
              /\ Bits(w, 11, 8) \in Nat /\ Bits(w, 7, 4) \in Nat /\ Bits(w, 3, 0) \in Nat
<1>1. w \in Nat /\ Up(w, 0) = w /\ Up(w, 28) = 0
  BY DEF ARMWord, Up
<1>2. /\ Bits(w, 27, 24) \in Nat /\ Bits(w, 23, 23) \in Nat /\ Bits(w, 22, 22) \in Nat
         /\ Bits(w, 21, 21) \in Nat /\ Bits(w, 20, 20) \in Nat /\ Bits(w, 19, 16) \in Nat
         /\ Bits(w, 15, 12) \in Nat /\ Bits(w, 11, 8) \in Nat /\ Bits(w, 7, 4) \in Nat
         /\ Bits(w, 3, 0) \in Nat
      /\ Up(w, 24) \in Nat /\ Up(w, 23) \in Nat /\ Up(w, 22) \in Nat /\ Up(w, 21) \in Nat
         /\ Up(w, 20) \in Nat /\ Up(w, 16) \in Nat /\ Up(w, 12) \in Nat /\ Up(w, 8) \in Nat
         /\ Up(w, 4) \in Nat /\ Up(w, 0) \in Nat
  BY <1>1 DEF Bits, Up
<1>3. Up(w, 24) = Bits(w, 27, 24) + 2^4 * Up(w, 28)
  BY <1>1 DEF Bits, Up
<1>4. Up(w, 23) = Bits(w, 23, 23) + 2^1 * Up(w, 24)
  BY <1>1 DEF Bits, Up
<1>5. Up(w, 22) = Bits(w, 22, 22) + 2^1 * Up(w, 23)
  BY <1>1 DEF Bits, Up
<1>6. Up(w, 22) = Bits(w, 27, 24) * 2^2 + Bits(w, 23, 23) * 2^1 + Bits(w, 22, 22)
  BY <1>1, <1>2, <1>3, <1>4, <1>5
<1>7. Up(w, 21) = Bits(w, 21, 21) + 2^1 * Up(w, 22)
  BY <1>1 DEF Bits, Up
<1>8. Up(w, 20) = Bits(w, 20, 20) + 2^1 * Up(w, 21)
  BY <1>1 DEF Bits, Up
<1>9. Up(w, 16) = Bits(w, 19, 16) + 2^4 * Up(w, 20)
  BY <1>1 DEF Bits, Up
<1>10. Up(w, 16) = Bits(w, 27, 24) * 2^8 + Bits(w, 23, 23) * 2^7 + Bits(w, 22, 22) * 2^6
                + Bits(w, 21, 21) * 2^5 + Bits(w, 20, 20) * 2^4 + Bits(w, 19, 16)
  BY <1>1, <1>2, <1>6, <1>7, <1>8, <1>9
<1>11. Up(w, 12) = Bits(w, 15, 12) + 2^4 * Up(w, 16)
  BY <1>1 DEF Bits, Up
<1>12. Up(w, 8) = Bits(w, 11, 8) + 2^4 * Up(w, 12)
  BY <1>1 DEF Bits, Up
<1>13. Up(w, 8) = Up(w, 16) * 2^8 + Bits(w, 15, 12) * 2^4 + Bits(w, 11, 8)
  BY <1>1, <1>2, <1>11, <1>12
<1>14. Up(w, 4) = Bits(w, 7, 4) + 2^4 * Up(w, 8)
  BY <1>1 DEF Bits, Up
<1>15. Up(w, 0) = Bits(w, 3, 0) + 2^4 * Up(w, 4)
  BY <1>1 DEF Bits, Up
<1>16. Up(w, 0) = Up(w, 16) * 2^16 + Bits(w, 15, 12) * 2^12 + Bits(w, 11, 8) * 2^8
                + Bits(w, 7, 4) * 2^4 + Bits(w, 3, 0)
  BY <1>1, <1>2, <1>13, <1>14, <1>15
<1> QED BY <1>1, <1>2, <1>10, <1>16

LEMMA DataImmediateSum ==
    ASSUME NEW w \in ARMWord
    PROVE  /\ w = Bits(w, 27, 26) * 2^26 + Bits(w, 25, 25) * 2^25 + Bits(w, 24, 21) * 2^21
              + Bits(w, 20, 20) * 2^20 + Bits(w, 19, 16) * 2^16 + Bits(w, 15, 12) * 2^12
              + Bits(w, 11, 8) * 2^8 + Bits(w, 7, 0)
           /\ Bits(w, 27, 26) \in Nat /\ Bits(w, 25, 25) \in Nat /\ Bits(w, 24, 21) \in Nat
              /\ Bits(w, 20, 20) \in Nat /\ Bits(w, 19, 16) \in Nat
              /\ Bits(w, 15, 12) \in Nat /\ Bits(w, 11, 8) \in Nat /\ Bits(w, 7, 0) \in Nat
<1>1. w \in Nat /\ Up(w, 0) = w /\ Up(w, 28) = 0
  BY DEF ARMWord, Up
<1>2. /\ Bits(w, 27, 26) \in Nat /\ Bits(w, 25, 25) \in Nat /\ Bits(w, 24, 21) \in Nat
         /\ Bits(w, 20, 20) \in Nat /\ Bits(w, 19, 16) \in Nat /\ Bits(w, 15, 12) \in Nat
         /\ Bits(w, 11, 8) \in Nat /\ Bits(w, 7, 0) \in Nat
      /\ Up(w, 26) \in Nat /\ Up(w, 25) \in Nat /\ Up(w, 21) \in Nat /\ Up(w, 20) \in Nat
         /\ Up(w, 16) \in Nat /\ Up(w, 12) \in Nat /\ Up(w, 8) \in Nat /\ Up(w, 0) \in Nat
  BY <1>1 DEF Bits, Up
<1>3. Up(w, 26) = Bits(w, 27, 26) + 2^2 * Up(w, 28)
  BY <1>1 DEF Bits, Up
<1>4. Up(w, 25) = Bits(w, 25, 25) + 2^1 * Up(w, 26)
  BY <1>1 DEF Bits, Up
<1>5. Up(w, 21) = Bits(w, 24, 21) + 2^4 * Up(w, 25)
  BY <1>1 DEF Bits, Up
<1>6. Up(w, 21) = Bits(w, 27, 26) * 2^5 + Bits(w, 25, 25) * 2^4 + Bits(w, 24, 21)
  BY <1>1, <1>2, <1>3, <1>4, <1>5
<1>7. Up(w, 20) = Bits(w, 20, 20) + 2^1 * Up(w, 21)
  BY <1>1 DEF Bits, Up
<1>8. Up(w, 16) = Bits(w, 19, 16) + 2^4 * Up(w, 20)
  BY <1>1 DEF Bits, Up
<1>9. Up(w, 12) = Bits(w, 15, 12) + 2^4 * Up(w, 16)
  BY <1>1 DEF Bits, Up
<1>10. Up(w, 12) = Bits(w, 27, 26) * 2^14 + Bits(w, 25, 25) * 2^13 + Bits(w, 24, 21) * 2^9
                + Bits(w, 20, 20) * 2^8 + Bits(w, 19, 16) * 2^4 + Bits(w, 15, 12)
  BY <1>1, <1>2, <1>6, <1>7, <1>8, <1>9
<1>11. Up(w, 8) = Bits(w, 11, 8) + 2^4 * Up(w, 12)
  BY <1>1 DEF Bits, Up
<1>12. Up(w, 0) = Bits(w, 7, 0) + 2^8 * Up(w, 8)
  BY <1>1 DEF Bits, Up
<1>13. Up(w, 0) = Bits(w, 27, 26) * 2^26 + Bits(w, 25, 25) * 2^25 + Bits(w, 24, 21) * 2^21
                + Bits(w, 20, 20) * 2^20 + Bits(w, 19, 16) * 2^16 + Bits(w, 15, 12) * 2^12
                + Bits(w, 11, 8) * 2^8 + Bits(w, 7, 0)
  BY <1>1, <1>2, <1>10, <1>11, <1>12
<1> QED BY <1>1, <1>2, <1>13

LEMMA DataShiftedSum ==
    ASSUME NEW w \in ARMWord
    PROVE  /\ w = Bits(w, 27, 26) * 2^26 + Bits(w, 25, 25) * 2^25 + Bits(w, 24, 21) * 2^21
              + Bits(w, 20, 20) * 2^20 + Bits(w, 19, 16) * 2^16 + Bits(w, 15, 12) * 2^12
              + Bits(w, 11, 7) * 2^7 + Bits(w, 6, 5) * 2^5 + Bits(w, 4, 4) * 2^4
              + Bits(w, 3, 0)
           /\ Bits(w, 27, 26) \in Nat /\ Bits(w, 25, 25) \in Nat /\ Bits(w, 24, 21) \in Nat
              /\ Bits(w, 20, 20) \in Nat /\ Bits(w, 19, 16) \in Nat
              /\ Bits(w, 15, 12) \in Nat /\ Bits(w, 11, 7) \in Nat /\ Bits(w, 6, 5) \in Nat
              /\ Bits(w, 4, 4) \in Nat /\ Bits(w, 3, 0) \in Nat
<1>1. w \in Nat /\ Up(w, 0) = w /\ Up(w, 28) = 0
  BY DEF ARMWord, Up
<1>2. /\ Bits(w, 27, 26) \in Nat /\ Bits(w, 25, 25) \in Nat /\ Bits(w, 24, 21) \in Nat
         /\ Bits(w, 20, 20) \in Nat /\ Bits(w, 19, 16) \in Nat /\ Bits(w, 15, 12) \in Nat
         /\ Bits(w, 11, 7) \in Nat /\ Bits(w, 6, 5) \in Nat /\ Bits(w, 4, 4) \in Nat
         /\ Bits(w, 3, 0) \in Nat
      /\ Up(w, 26) \in Nat /\ Up(w, 25) \in Nat /\ Up(w, 21) \in Nat /\ Up(w, 20) \in Nat
         /\ Up(w, 16) \in Nat /\ Up(w, 12) \in Nat /\ Up(w, 7) \in Nat /\ Up(w, 5) \in Nat
         /\ Up(w, 4) \in Nat /\ Up(w, 0) \in Nat
  BY <1>1 DEF Bits, Up
<1>3. Up(w, 26) = Bits(w, 27, 26) + 2^2 * Up(w, 28)
  BY <1>1 DEF Bits, Up
<1>4. Up(w, 25) = Bits(w, 25, 25) + 2^1 * Up(w, 26)
  BY <1>1 DEF Bits, Up
<1>5. Up(w, 21) = Bits(w, 24, 21) + 2^4 * Up(w, 25)
  BY <1>1 DEF Bits, Up
<1>6. Up(w, 21) = Bits(w, 27, 26) * 2^5 + Bits(w, 25, 25) * 2^4 + Bits(w, 24, 21)
  BY <1>1, <1>2, <1>3, <1>4, <1>5
<1>7. Up(w, 20) = Bits(w, 20, 20) + 2^1 * Up(w, 21)
  BY <1>1 DEF Bits, Up
<1>8. Up(w, 16) = Bits(w, 19, 16) + 2^4 * Up(w, 20)
  BY <1>1 DEF Bits, Up
<1>9. Up(w, 12) = Bits(w, 15, 12) + 2^4 * Up(w, 16)
  BY <1>1 DEF Bits, Up
<1>10. Up(w, 12) = Bits(w, 27, 26) * 2^14 + Bits(w, 25, 25) * 2^13 + Bits(w, 24, 21) * 2^9
                + Bits(w, 20, 20) * 2^8 + Bits(w, 19, 16) * 2^4 + Bits(w, 15, 12)
  BY <1>1, <1>2, <1>6, <1>7, <1>8, <1>9
<1>11. Up(w, 7) = Bits(w, 11, 7) + 2^5 * Up(w, 12)
  BY <1>1 DEF Bits, Up
<1>12. Up(w, 5) = Bits(w, 6, 5) + 2^2 * Up(w, 7)
  BY <1>1 DEF Bits, Up
<1>13. Up(w, 5) = Up(w, 12) * 2^7 + Bits(w, 11, 7) * 2^2 + Bits(w, 6, 5)
  BY <1>1, <1>2, <1>11, <1>12
<1>14. Up(w, 4) = Bits(w, 4, 4) + 2^1 * Up(w, 5)
  BY <1>1 DEF Bits, Up
<1>15. Up(w, 0) = Bits(w, 3, 0) + 2^4 * Up(w, 4)
  BY <1>1 DEF Bits, Up
<1>16. Up(w, 0) = Up(w, 12) * 2^12 + Bits(w, 11, 7) * 2^7 + Bits(w, 6, 5) * 2^5
                + Bits(w, 4, 4) * 2^4 + Bits(w, 3, 0)
  BY <1>1, <1>2, <1>13, <1>14, <1>15
<1> QED BY <1>1, <1>2, <1>10, <1>16

LEMMA ConditionalBranchSum ==
    ASSUME NEW w \in THUMBWord
    PROVE  /\ w = Bits(w, 15, 14) * 2^14 + Bits(w, 13, 12) * 2^12 + Bits(w, 11, 8) * 2^8
              + Bits(w, 7, 0)
           /\ Bits(w, 15, 14) \in Nat /\ Bits(w, 13, 12) \in Nat /\ Bits(w, 11, 8) \in Nat
              /\ Bits(w, 7, 0) \in Nat
<1>1. w \in Nat /\ Up(w, 0) = w /\ Up(w, 16) = 0
  BY DEF THUMBWord, Up
<1>2. /\ Bits(w, 15, 14) \in Nat /\ Bits(w, 13, 12) \in Nat /\ Bits(w, 11, 8) \in Nat
         /\ Bits(w, 7, 0) \in Nat
      /\ Up(w, 14) \in Nat /\ Up(w, 12) \in Nat /\ Up(w, 8) \in Nat /\ Up(w, 0) \in Nat
  BY <1>1 DEF Bits, Up
<1>3. Up(w, 14) = Bits(w, 15, 14) + 2^2 * Up(w, 16)
  BY <1>1 DEF Bits, Up
<1>4. Up(w, 12) = Bits(w, 13, 12) + 2^2 * Up(w, 14)
  BY <1>1 DEF Bits, Up
<1>5. Up(w, 8) = Bits(w, 11, 8) + 2^4 * Up(w, 12)
  BY <1>1 DEF Bits, Up
<1>6. Up(w, 8) = Bits(w, 15, 14) * 2^6 + Bits(w, 13, 12) * 2^4 + Bits(w, 11, 8)
  BY <1>1, <1>2, <1>3, <1>4, <1>5
<1>7. Up(w, 0) = Bits(w, 7, 0) + 2^8 * Up(w, 8)
  BY <1>1 DEF Bits, Up
<1>8. Up(w, 0) = Bits(w, 15, 14) * 2^14 + Bits(w, 13, 12) * 2^12 + Bits(w, 11, 8) * 2^8
                + Bits(w, 7, 0)
  BY <1>1, <1>2, <1>6, <1>7
<1> QED BY <1>1, <1>2, <1>8

LEMMA HighRegisterSum ==
    ASSUME NEW w \in THUMBWord
    PROVE  /\ w = Bits(w, 15, 14) * 2^14 + Bits(w, 13, 10) * 2^10 + Bits(w, 9, 8) * 2^8
              + Bits(w, 7, 7) * 2^7 + Bits(w, 6, 6) * 2^6 + Bits(w, 5, 3) * 2^3
              + Bits(w, 2, 0)
           /\ Bits(w, 15, 14) \in Nat /\ Bits(w, 13, 10) \in Nat /\ Bits(w, 9, 8) \in Nat
              /\ Bits(w, 7, 7) \in Nat /\ Bits(w, 6, 6) \in Nat /\ Bits(w, 5, 3) \in Nat
              /\ Bits(w, 2, 0) \in Nat
<1>1. w \in Nat /\ Up(w, 0) = w /\ Up(w, 16) = 0
  BY DEF THUMBWord, Up
<1>2. /\ Bits(w, 15, 14) \in Nat /\ Bits(w, 13, 10) \in Nat /\ Bits(w, 9, 8) \in Nat
         /\ Bits(w, 7, 7) \in Nat /\ Bits(w, 6, 6) \in Nat /\ Bits(w, 5, 3) \in Nat
         /\ Bits(w, 2, 0) \in Nat
      /\ Up(w, 14) \in Nat /\ Up(w, 10) \in Nat /\ Up(w, 8) \in Nat /\ Up(w, 7) \in Nat
         /\ Up(w, 6) \in Nat /\ Up(w, 3) \in Nat /\ Up(w, 0) \in Nat
  BY <1>1 DEF Bits, Up
<1>3. Up(w, 14) = Bits(w, 15, 14) + 2^2 * Up(w, 16)
  BY <1>1 DEF Bits, Up
<1>4. Up(w, 10) = Bits(w, 13, 10) + 2^4 * Up(w, 14)
  BY <1>1 DEF Bits, Up
<1>5. Up(w, 8) = Bits(w, 9, 8) + 2^2 * Up(w, 10)
  BY <1>1 DEF Bits, Up
<1>6. Up(w, 8) = Bits(w, 15, 14) * 2^6 + Bits(w, 13, 10) * 2^2 + Bits(w, 9, 8)
  BY <1>1, <1>2, <1>3, <1>4, <1>5
<1>7. Up(w, 7) = Bits(w, 7, 7) + 2^1 * Up(w, 8)
  BY <1>1 DEF Bits, Up
<1>8. Up(w, 6) = Bits(w, 6, 6) + 2^1 * Up(w, 7)
  BY <1>1 DEF Bits, Up
<1>9. Up(w, 3) = Bits(w, 5, 3) + 2^3 * Up(w, 6)
  BY <1>1 DEF Bits, Up
<1>10. Up(w, 3) = Bits(w, 15, 14) * 2^11 + Bits(w, 13, 10) * 2^7 + Bits(w, 9, 8) * 2^5
                + Bits(w, 7, 7) * 2^4 + Bits(w, 6, 6) * 2^3 + Bits(w, 5, 3)
  BY <1>1, <1>2, <1>6, <1>7, <1>8, <1>9
<1>11. Up(w, 0) = Bits(w, 2, 0) + 2^3 * Up(w, 3)
  BY <1>1 DEF Bits, Up
<1>12. Up(w, 0) = Bits(w, 15, 14) * 2^14 + Bits(w, 13, 10) * 2^10 + Bits(w, 9, 8) * 2^8
                + Bits(w, 7, 7) * 2^7 + Bits(w, 6, 6) * 2^6 + Bits(w, 5, 3) * 2^3
                + Bits(w, 2, 0)
  BY <1>1, <1>2, <1>10, <1>11
<1> QED BY <1>1, <1>2, <1>12

\* The shift of a word is read from the same bits.
LEMMA ShiftIs ==
    ASSUME NEW w \in ARMWord
    PROVE  NewARMShift(Bits(w, 11, 4)) =
             [useRegister |-> BitSet(w, 4), shiftType |-> Bits(w, 6, 5),
              register |-> IF BitSet(w, 4) THEN Bits(w, 11, 8) ELSE 0,
              amount |-> IF BitSet(w, 4) THEN 0 ELSE Bits(w, 11, 7)]
<1>1. w \in Nat
  BY DEF ARMWord
<1>2. Bits(Bits(w, 11, 4), 0, 0) = Bits(w, 4, 4)
  BY <1>1 DEF Bits
<1>3. Bits(Bits(w, 11, 4), 2, 1) = Bits(w, 6, 5)
  BY <1>1 DEF Bits
<1>4. Bits(Bits(w, 11, 4), 7, 4) = Bits(w, 11, 8)
  <2> DEFINE x == w \div 2^4
  <2>1. x \in Nat /\ w \div 2^8 = x \div 2^4 /\ Bits(w, 11, 4) = x % 2^8
    BY <1>1 DEF Bits
  <2> HIDE DEF x
  <2>2. ((x % 2^8) \div 2^4) % 2^4 = (x \div 2^4) % 2^4
    BY <2>1
  <2> QED BY <2>1, <2>2 DEF Bits
<1>5. Bits(Bits(w, 11, 4), 7, 3) = Bits(w, 11, 7)
  BY <1>1 DEF Bits
<1> QED BY <1>2, <1>3, <1>4, <1>5 DEF NewARMShift, BitSet

LEMMA ShiftFields ==
    ASSUME NEW w \in ARMWord
    PROVE  /\ NewARMShift(Bits(w, 11, 4)).useRegister = BitSet(w, 4)
           /\ NewARMShift(Bits(w, 11, 4)).shiftType = Bits(w, 6, 5)
           /\ BitSet(w, 4) => NewARMShift(Bits(w, 11, 4)).register = Bits(w, 11, 8)
           /\ ~BitSet(w, 4) => NewARMShift(Bits(w, 11, 4)).amount = Bits(w, 11, 7)
BY ShiftIs

LEMMA ZeroBit ==
    ASSUME NEW w \in Nat
    PROVE  /\ ~BitSet(w, 4) => Bits(w, 4, 4) = 0
           /\ ~BitSet(w, 20) => Bits(w, 20, 20) = 0
           /\ ~BitSet(w, 21) => Bits(w, 21, 21) = 0
           /\ ~BitSet(w, 22) => Bits(w, 22, 22) = 0
           /\ ~BitSet(w, 23) => Bits(w, 23, 23) = 0
           /\ ~BitSet(w, 25) => Bits(w, 25, 25) = 0
BY BitValues DEF BitSet

LEMMA HalfwordRebuilds ==
    ASSUME NEW w \in ARMWord, IsHalfword(w)
    PROVE  AssembleARM(parseHalfwordDataTransfer(w)) = w
<1> DEFINE d == parseHalfwordDataTransfer(w)
<1>1. /\ d.format = "halfword"
      /\ d.rn = Bits(w, 19, 16) /\ d.rd = Bits(w, 15, 12) /\ Bit(d.preindex) = Bits(w, 24, 24)
      /\ Bit(d.up) = Bits(w, 23, 23) /\ Bit(d.writeBack) = Bits(w, 21, 21)
      /\ Bit(d.load) = Bits(w, 20, 20) /\ Bit(d.isImmediate) = Bits(w, 22, 22)
      /\ Bit(d.signed) = Bits(w, 6, 6) /\ Bit(d.halfword) = Bits(w, 5, 5)
  BY BitValues DEF ARMWord, parseHalfwordDataTransfer
<1>2. d.operand = Bits(w, 3, 0) + (IF BitSet(w, 22) THEN 16 * Bits(w, 11, 8) ELSE 0)
  BY DEF parseHalfwordDataTransfer
<1>3. Bits(w, 3, 0) \in 0 .. 15 /\ Bits(w, 11, 8) \in 0 .. 15
  BY DEF ARMWord, Bits
<1>4. Bits(w, 27, 25) = 0 /\ Bits(w, 7, 7) = 1 /\ Bits(w, 4, 4) = 1
      /\ (BitSet(w, 22) \/ Bits(w, 11, 8) = 0)
  BY DEF IsHalfword, BitSet
<1>5. d.operand \div 16 = Bits(w, 11, 8) /\ d.operand % 16 = Bits(w, 3, 0)
  <2> HIDE DEF d
  <2>1. CASE BitSet(w, 22)
    BY <1>2, <1>3, <2>1
  <2>2. CASE ~BitSet(w, 22)
    BY <1>2, <1>3, <1>4, <2>2
  <2> QED BY <2>1, <2>2
<1> HIDE DEF d
<1>6. AssembleARM(d) = Registers(d) + Indexing(d) + Bit(d.isImmediate) * 2^22
        + (d.operand \div 16) * 2^8 + 2^7 + Bit(d.signed) * 2^6 + Bit(d.halfword) * 2^5
        + 2^4 + (d.operand % 16)
  BY <1>1 DEF AssembleARM
<1>7. Registers(d) = Bits(w, 19, 16) * 2^16 + Bits(w, 15, 12) * 2^12
  BY <1>1 DEF Registers
<1>8. Indexing(d) = Bits(w, 24, 24) * 2^24 + Bits(w, 23, 23) * 2^23 + Bits(w, 21, 21) * 2^21
                    + Bits(w, 20, 20) * 2^20
  BY <1>1 DEF Indexing
<1>9. AssembleARM(d) = w
  BY <1>1, <1>4, <1>5, <1>6, <1>7, <1>8, HalfwordSum
<1> QED BY <1>9 DEF d

LEMMA SingleImmediateRebuilds ==
    ASSUME NEW w \in ARMWord, Bits(w, 27, 26) = 1, ~BitSet(w, 25)
    PROVE  AssembleARM(parseSingleDataTransfer(w)) = w
<1> DEFINE d == parseSingleDataTransfer(w)
<1>1. /\ d.format = "single" /\ d.isImmediate = TRUE
      /\ d.rn = Bits(w, 19, 16) /\ d.rd = Bits(w, 15, 12) /\ Bit(d.preindex) = Bits(w, 24, 24)
      /\ Bit(d.up) = Bits(w, 23, 23) /\ Bit(d.writeBack) = Bits(w, 21, 21)
      /\ Bit(d.load) = Bits(w, 20, 20) /\ Bit(d.byte) = Bits(w, 22, 22)
      /\ d.offset = Bits(w, 11, 0)
  BY BitValues DEF ARMWord, parseSingleDataTransfer
<1>2. Bits(w, 25, 25) = 0
  BY ZeroBit DEF ARMWord
<1> HIDE DEF d
<1>3. AssembleARM(d) = Registers(d) + Indexing(d) + 2^26 + Bit(~d.isImmediate) * 2^25
                       + Bit(d.byte) * 2^22
                       + IF d.isImmediate THEN d.offset ELSE ShiftedOperand(d)
  BY <1>1 DEF AssembleARM
<1>4. Registers(d) = Bits(w, 19, 16) * 2^16 + Bits(w, 15, 12) * 2^12
  BY <1>1 DEF Registers
<1>5. Indexing(d) = Bits(w, 24, 24) * 2^24 + Bits(w, 23, 23) * 2^23 + Bits(w, 21, 21) * 2^21
                    + Bits(w, 20, 20) * 2^20
  BY <1>1 DEF Indexing
<1>6. AssembleARM(d) = Registers(d) + Indexing(d) + 2^26 + 0 * 2^25 + Bits(w, 22, 22) * 2^22
                       + Bits(w, 11, 0)
  BY <1>1, <1>3 DEF Bit
<1>7. AssembleARM(d) = w
  BY <1>2, <1>4, <1>5, <1>6, SingleImmediateSum
<1> QED BY <1>7 DEF d

LEMMA SingleShiftedRebuilds ==
    ASSUME NEW w \in ARMWord, Bits(w, 27, 26) = 1, BitSet(w, 25), ~BitSet(w, 4)
    PROVE  AssembleARM(parseSingleDataTransfer(w)) = w
<1> DEFINE d == parseSingleDataTransfer(w)
<1>1. /\ d.format = "single" /\ d.isImmediate = FALSE
      /\ d.rn = Bits(w, 19, 16) /\ d.rd = Bits(w, 15, 12) /\ Bit(d.preindex) = Bits(w, 24, 24)
      /\ Bit(d.up) = Bits(w, 23, 23) /\ Bit(d.writeBack) = Bits(w, 21, 21)
      /\ Bit(d.load) = Bits(w, 20, 20) /\ Bit(d.byte) = Bits(w, 22, 22)
      /\ d.shift = NewARMShift(Bits(w, 11, 4)) /\ d.rm = Bits(w, 3, 0)
  <2>1. ~NewARMShift(Bits(w, 11, 4)).useRegister
    BY ShiftFields
  <2>2. d = [format |-> "single", load |-> BitSet(w, 20), writeBack |-> BitSet(w, 21),
             up |-> BitSet(w, 23), preindex |-> BitSet(w, 24), byte |-> BitSet(w, 22),
             rd |-> Bits(w, 15, 12), rn |-> Bits(w, 19, 16), isImmediate |-> FALSE,
             shift |-> NewARMShift(Bits(w, 11, 4)), rm |-> Bits(w, 3, 0)]
    BY <2>1 DEF parseSingleDataTransfer
  <2> HIDE DEF d
  <2> QED BY <2>2, BitValues DEF ARMWord
<1>2. Bits(w, 25, 25) = 1 /\ Bits(w, 4, 4) = 0
  BY ZeroBit DEF ARMWord, BitSet
<1> HIDE DEF d
<1>3. AssembleARM(d) = Registers(d) + Indexing(d) + 2^26 + Bit(~d.isImmediate) * 2^25
                       + Bit(d.byte) * 2^22
                       + IF d.isImmediate THEN d.offset ELSE ShiftedOperand(d)
  BY <1>1 DEF AssembleARM
<1>4. Registers(d) = Bits(w, 19, 16) * 2^16 + Bits(w, 15, 12) * 2^12
  BY <1>1 DEF Registers
<1>5. Indexing(d) = Bits(w, 24, 24) * 2^24 + Bits(w, 23, 23) * 2^23 + Bits(w, 21, 21) * 2^21
                    + Bits(w, 20, 20) * 2^20
  BY <1>1 DEF Indexing
<1>6. ShiftedOperand(d) = Bits(w, 3, 0) + Bits(w, 6, 5) * 2^5 + 0 * 2^4 + Bits(w, 11, 7) * 2^7
  BY <1>1, ShiftFields DEF ShiftedOperand, Bit
<1>7. AssembleARM(d) = Registers(d) + Indexing(d) + 2^26 + 1 * 2^25 + Bits(w, 22, 22) * 2^22
                       + ShiftedOperand(d)
  BY <1>1, <1>3 DEF Bit
<1>8. AssembleARM(d) = w
  BY <1>2, <1>4, <1>5, <1>6, <1>7, SingleShiftedSum
<1> QED BY <1>8 DEF d

LEMMA MultiplyRebuilds ==
    ASSUME NEW w \in ARMWord, IsMultiply(w), Bits(w, 7, 4) = 9,
           parseMultiply(w).format # "error"
    PROVE  AssembleARM(parseMultiply(w)) = w
<1> DEFINE d == parseMultiply(w)
<1>1. /\ d.format = "multiply"
      /\ d.rd = Bits(w, 19, 16) /\ d.rn = Bits(w, 15, 12) /\ d.rs = Bits(w, 11, 8)
      /\ d.rm = Bits(w, 3, 0) /\ Bit(d.long) = Bits(w, 23, 23)
      /\ Bit(d.accumulate) = Bits(w, 21, 21) /\ Bit(d.s) = Bits(w, 20, 20)
      /\ d.signed = (BitSet(w, 23) /\ BitSet(w, 22))
  BY BitValues DEF ARMWord, parseMultiply, Undecodable
<1>2. Bits(w, 27, 24) = 0 /\ (BitSet(w, 23) \/ Bits(w, 22, 22) = 0)
  <2>1. w \in Nat
    BY DEF ARMWord
  <2>2. CASE Bits(w, 27, 22) = 0
    BY <2>1, <2>2 DEF Bits
  <2>3. CASE Bits(w, 27, 23) = 1
    <3>1. Bits(w, 27, 24) = 0
      BY <2>1, <2>3 DEF Bits
    <3>2. Bits(w, 23, 23) = 1
      BY <2>1, <2>3 DEF Bits
    <3> QED BY <3>1, <3>2 DEF BitSet
  <2> QED BY <2>2, <2>3 DEF IsMultiply
<1>3. Bit(d.signed) = Bits(w, 22, 22)
  <2>1. CASE BitSet(w, 23)
    <3>1. d.signed = BitSet(w, 22)
      BY <1>1, <2>1 DEF BitSet
    <3> QED BY <3>1, BitValues DEF ARMWord
  <2>2. CASE ~BitSet(w, 23)
    BY <1>1, <1>2, <2>2 DEF Bit
  <2> QED BY <2>1, <2>2
<1> HIDE DEF d
<1>4. AssembleARM(d) = Bit(d.long) * 2^23 + Bit(d.signed) * 2^22 + Bit(d.accumulate) * 2^21
        + Bit(d.s) * 2^20 + d.rd * 2^16 + d.rn * 2^12 + d.rs * 2^8 + 9 * 2^4 + d.rm
  BY <1>1 DEF AssembleARM
<1>5. AssembleARM(d) = w
  BY <1>1, <1>2, <1>3, <1>4, MultiplySum
<1> QED BY <1>5 DEF d

LEMMA DataImmediateRebuilds ==
    ASSUME NEW w \in ARMWord, Bits(w, 27, 26) = 0, BitSet(w, 25),
           parseDataProcessing(w).format = "data"
    PROVE  AssembleARM(parseDataProcessing(w)) = w
<1> DEFINE d == parseDataProcessing(w)
<1>1. d = [format |-> "data", s |-> BitSet(w, 20), rd |-> Bits(w, 15, 12),
           rn |-> Bits(w, 19, 16), opcode |-> Bits(w, 24, 21), isImmediate |-> TRUE,
           immediate |-> Bits(w, 7, 0), rotate |-> Bits(w, 11, 8)]
  BY DEF parseDataProcessing, parsePSRTransfer
<1> HIDE DEF d
<1>2. /\ d.format = "data" /\ d.isImmediate = TRUE /\ Bit(d.s) = Bits(w, 20, 20)
      /\ d.rd = Bits(w, 15, 12) /\ d.rn = Bits(w, 19, 16) /\ d.opcode = Bits(w, 24, 21)
      /\ d.immediate = Bits(w, 7, 0) /\ d.rotate = Bits(w, 11, 8)
  BY <1>1, BitValues DEF ARMWord
<1>3. AssembleARM(d) = Registers(d) + Bit(d.isImmediate) * 2^25 + d.opcode * 2^21
        + Bit(d.s) * 2^20 + IF d.isImmediate THEN RotatedImmediate(d) ELSE ShiftedOperand(d)
  BY <1>2 DEF AssembleARM
<1>4. Registers(d) = Bits(w, 19, 16) * 2^16 + Bits(w, 15, 12) * 2^12
  BY <1>2 DEF Registers
<1>5. RotatedImmediate(d) = Bits(w, 11, 8) * 2^8 + Bits(w, 7, 0)
  BY <1>2 DEF RotatedImmediate
<1>6. AssembleARM(d) = Registers(d) + 1 * 2^25 + Bits(w, 24, 21) * 2^21
                       + Bits(w, 20, 20) * 2^20 + RotatedImmediate(d)
  BY <1>2, <1>3 DEF Bit
<1>7. Bits(w, 25, 25) = 1
  BY DEF BitSet
<1>8. AssembleARM(d) = w
  BY <1>4, <1>5, <1>6, <1>7, DataImmediateSum
<1> QED BY <1>8 DEF d

LEMMA DataShiftedIs ==
    ASSUME NEW w \in ARMWord, Bits(w, 27, 26) = 0, ~BitSet(w, 25),
           parseDataProcessing(w).format = "data"
    PROVE  parseDataProcessing(w) =
             [format |-> "data", s |-> BitSet(w, 20), rd |-> Bits(w, 15, 12),
              rn |-> Bits(w, 19, 16), opcode |-> Bits(w, 24, 21), isImmediate |-> FALSE,
              rm |-> Bits(w, 3, 0), shift |-> NewARMShift(Bits(w, 11, 4))]
BY DEF parseDataProcessing, parsePSRTransfer

LEMMA DataShiftedAssembled ==
    ASSUME NEW w \in ARMWord, Bits(w, 27, 26) = 0, ~BitSet(w, 25),
           parseDataProcessing(w).format = "data",
           NEW o, o = ShiftedOperand(parseDataProcessing(w))
    PROVE  AssembleARM(parseDataProcessing(w)) =
             Bits(w, 19, 16) * 2^16 + Bits(w, 15, 12) * 2^12 + 0 * 2^25
             + Bits(w, 24, 21) * 2^21 + Bits(w, 20, 20) * 2^20 + o
<1> DEFINE d == parseDataProcessing(w)
<1>1. d = [format |-> "data", s |-> BitSet(w, 20), rd |-> Bits(w, 15, 12),
           rn |-> Bits(w, 19, 16), opcode |-> Bits(w, 24, 21), isImmediate |-> FALSE,
           rm |-> Bits(w, 3, 0), shift |-> NewARMShift(Bits(w, 11, 4))]
  BY DataShiftedIs
<1> HIDE DEF d
<1>2. /\ d.format = "data" /\ d.isImmediate = FALSE /\ Bit(d.s) = Bits(w, 20, 20)
      /\ d.rd = Bits(w, 15, 12) /\ d.rn = Bits(w, 19, 16) /\ d.opcode = Bits(w, 24, 21)
  BY <1>1, BitValues DEF ARMWord
<1>3. AssembleARM(d) = Registers(d) + Bit(d.isImmediate) * 2^25 + d.opcode * 2^21
        + Bit(d.s) * 2^20 + IF d.isImmediate THEN RotatedImmediate(d) ELSE ShiftedOperand(d)
  BY <1>2 DEF AssembleARM
<1>4. Registers(d) = Bits(w, 19, 16) * 2^16 + Bits(w, 15, 12) * 2^12
  BY <1>2 DEF Registers
<1>5. AssembleARM(d) = Registers(d) + 0 * 2^25 + Bits(w, 24, 21) * 2^21
                       + Bits(w, 20, 20) * 2^20 + ShiftedOperand(d)
  BY <1>2, <1>3 DEF Bit
<1>6. o = ShiftedOperand(d)
  BY DEF d
<1>7. AssembleARM(d) =
             Bits(w, 19, 16) * 2^16 + Bits(w, 15, 12) * 2^12 + 0 * 2^25
             + Bits(w, 24, 21) * 2^21 + Bits(w, 20, 20) * 2^20 + o
  BY <1>4, <1>5, <1>6
<1> QED BY <1>7 DEF d

LEMMA DataShiftedRebuilds ==
    ASSUME NEW w \in ARMWord, Bits(w, 27, 26) = 0, ~BitSet(w, 25), ~BitSet(w, 4),
           parseDataProcessing(w).format = "data"
    PROVE  AssembleARM(parseDataProcessing(w)) = w
<1> DEFINE d == parseDataProcessing(w)
           o == ShiftedOperand(d)
<1>1. d.shift = NewARMShift(Bits(w, 11, 4)) /\ d.rm = Bits(w, 3, 0)
  BY DataShiftedIs
<1>2. AssembleARM(d) =
             Bits(w, 19, 16) * 2^16 + Bits(w, 15, 12) * 2^12 + 0 * 2^25
             + Bits(w, 24, 21) * 2^21 + Bits(w, 20, 20) * 2^20 + o
  BY DataShiftedAssembled
<1> HIDE DEF d
<1>3. o = Bits(w, 3, 0) + Bits(w, 6, 5) * 2^5 + 0 * 2^4 + Bits(w, 11, 7) * 2^7
  BY <1>1, ShiftFields DEF ShiftedOperand, Bit
<1>4. Bits(w, 25, 25) = 0 /\ Bits(w, 4, 4) = 0
  BY ZeroBit DEF ARMWord
<1> HIDE DEF o
<1>5. w = Bits(w, 24, 21) * 2^21 + Bits(w, 20, 20) * 2^20 + Bits(w, 19, 16) * 2^16
          + Bits(w, 15, 12) * 2^12 + Bits(w, 11, 7) * 2^7 + Bits(w, 6, 5) * 2^5 + Bits(w, 3, 0)
  <2>1. w = 0 * 2^26 + 0 * 2^25 + Bits(w, 24, 21) * 2^21 + Bits(w, 20, 20) * 2^20
            + Bits(w, 19, 16) * 2^16 + Bits(w, 15, 12) * 2^12 + Bits(w, 11, 7) * 2^7
            + Bits(w, 6, 5) * 2^5 + 0 * 2^4 + Bits(w, 3, 0)
    BY <1>4, DataShiftedSum
  <2> QED BY <2>1, DataShiftedSum
<1>6. AssembleARM(d) = w
  BY <1>2, <1>3, <1>5, DataShiftedSum
<1> QED BY <1>6 DEF d

\* A word and the one that an assembler writes for a data-processing instruction
\* with a shift by a register differ in bit 7 at most.
LEMMA DataByRegister ==
    ASSUME NEW w \in ARMWord, Bits(w, 27, 26) = 0, ~BitSet(w, 25), BitSet(w, 4),
           parseDataProcessing(w).format = "data"
    PROVE  AssembleARM(parseDataProcessing(w)) = w - Bits(w, 7, 7) * 2^7
<1> DEFINE d == parseDataProcessing(w)
           o == ShiftedOperand(d)
<1>1. d.shift = NewARMShift(Bits(w, 11, 4)) /\ d.rm = Bits(w, 3, 0)
  BY DataShiftedIs
<1>2. AssembleARM(d) =
             Bits(w, 19, 16) * 2^16 + Bits(w, 15, 12) * 2^12 + 0 * 2^25
             + Bits(w, 24, 21) * 2^21 + Bits(w, 20, 20) * 2^20 + o
  BY DataShiftedAssembled
<1> HIDE DEF d
<1>3. o = Bits(w, 3, 0) + Bits(w, 6, 5) * 2^5 + 1 * 2^4 + Bits(w, 11, 8) * 2^8
  BY <1>1, ShiftFields DEF ShiftedOperand, Bit
<1>4. Bits(w, 25, 25) = 0 /\ Bits(w, 4, 4) = 1
  BY ZeroBit DEF ARMWord, BitSet
<1> HIDE DEF o
<1>5. w = Bits(w, 24, 21) * 2^21 + Bits(w, 20, 20) * 2^20 + Bits(w, 19, 16) * 2^16
          + Bits(w, 15, 12) * 2^12 + Bits(w, 11, 7) * 2^7 + Bits(w, 6, 5) * 2^5 + 2^4
          + Bits(w, 3, 0)
  BY <1>4, DataShiftedSum
<1>6. /\ Bits(w, 11, 7) = Bits(w, 11, 8) * 2 + Bits(w, 7, 7)
      /\ Bits(w, 11, 8) \in Nat /\ Bits(w, 7, 7) \in Nat
  BY DEF ARMWord, Bits
<1>7. AssembleARM(d) = w - Bits(w, 7, 7) * 2^7
  BY <1>2, <1>3, <1>5, <1>6, DataShiftedSum
<1> QED BY <1>7 DEF d

\* Without its bit 7 a word has its other bits.
LEMMA WithoutBit7 ==
    ASSUME NEW w \in ARMWord, NEW v, v = w - Bits(w, 7, 7) * 2^7
    PROVE  /\ v \in ARMWord /\ Bits(v, 7, 7) = 0
           /\ Bits(v, 6, 0) = Bits(w, 6, 0) /\ Bits(v, 27, 8) = Bits(w, 27, 8)
<1>1. w \in Nat /\ w < 2^28
  BY DEF ARMWord
<1> DEFINE a == w \div 2^8
           b == Bits(w, 7, 7)
           c == Bits(w, 6, 0)
<1>2. a \in Nat /\ b \in 0 .. 1 /\ c \in 0 .. 2^7 - 1
  BY <1>1 DEF Bits
<1>3. w \div 2^7 = 2 * a + b
  BY <1>1 DEF Bits
<1>4. w = 2^7 * (w \div 2^7) + c
  BY <1>1 DEF Bits
<1>5. Bits(v, 6, 0) = v % 2^7 /\ Bits(v, 7, 7) = (v \div 2^7) % 2 /\ Bits(w, 27, 8) = a % 2^20
      /\ Bits(v, 27, 8) = (v \div 2^8) % 2^20
  BY DEF Bits
<1> HIDE DEF a, b, c
<1>6. w = 2^8 * a + 2^7 * b + c
  BY <1>2, <1>3, <1>4
<1>7. v = 2^8 * a + c /\ v \in Nat
  BY <1>1, <1>2, <1>6 DEF b
<1>8. v \div 2^8 = a /\ v % 2^7 = c /\ (v \div 2^7) % 2 = 0
  BY <1>2, <1>7
<1>9. v \in ARMWord
  BY <1>1, <1>2, <1>6, <1>7 DEF ARMWord
<1> QED BY <1>5, <1>8, <1>9 DEF c

\* A field is read from any field that holds it.
LEMMA FieldsOfHigh ==
    ASSUME NEW w \in ARMWord
    PROVE  /\ Bits(w, 27, 26) = Bits(w, 27, 8) \div 2^18
           /\ Bits(w, 24, 21) = (Bits(w, 27, 8) \div 2^13) % 2^4
           /\ Bits(w, 24, 23) = (Bits(w, 27, 8) \div 2^15) % 2^2
           /\ Bits(w, 20, 19) = (Bits(w, 27, 8) \div 2^11) % 2^2
           /\ Bits(w, 27, 27) = Bits(w, 27, 8) \div 2^19
           /\ Bits(w, 26, 26) = (Bits(w, 27, 8) \div 2^18) % 2
           /\ Bits(w, 25, 25) = (Bits(w, 27, 8) \div 2^17) % 2
           /\ Bits(w, 20, 20) = (Bits(w, 27, 8) \div 2^12) % 2
           /\ Bits(w, 19, 16) = (Bits(w, 27, 8) \div 2^8) % 2^4
           /\ Bits(w, 15, 12) = (Bits(w, 27, 8) \div 2^4) % 2^4
           /\ Bits(w, 11, 8) = Bits(w, 27, 8) % 2^4
<1>1. w \in Nat /\ w < 2^28
  BY DEF ARMWord
<1>2. Bits(w, 27, 8) = w \div 2^8
  BY <1>1 DEF Bits
<1> DEFINE x == w \div 2^8
<1>3. x \in Nat /\ x < 2^20
  BY <1>1
<1>4. Bits(w, 27, 26) = x \div 2^18 /\ Bits(w, 27, 27) = x \div 2^19
  BY <1>1 DEF Bits
<1>5. Bits(w, 24, 21) = (x \div 2^13) % 2^4 /\ Bits(w, 24, 23) = (x \div 2^15) % 2^2
  BY <1>1 DEF Bits
<1>6. Bits(w, 20, 19) = (x \div 2^11) % 2^2 /\ Bits(w, 26, 26) = (x \div 2^18) % 2
  BY <1>1 DEF Bits
<1>7. Bits(w, 25, 25) = (x \div 2^17) % 2 /\ Bits(w, 20, 20) = (x \div 2^12) % 2
  BY <1>1 DEF Bits
<1>8. Bits(w, 19, 16) = (x \div 2^8) % 2^4 /\ Bits(w, 15, 12) = (x \div 2^4) % 2^4
      /\ Bits(w, 11, 8) = x % 2^4
  BY <1>1 DEF Bits
<1> QED BY <1>2, <1>4, <1>5, <1>6, <1>7, <1>8

LEMMA FieldsOfLow ==
    ASSUME NEW w \in ARMWord
    PROVE  /\ Bits(w, 4, 4) = (Bits(w, 6, 0) \div 2^4) % 2
           /\ Bits(w, 6, 5) = (Bits(w, 6, 0) \div 2^5) % 2^2
           /\ Bits(w, 3, 0) = Bits(w, 6, 0) % 2^4
<1>1. w \in Nat
  BY DEF ARMWord
<1>2. Bits(w, 4, 4) = (Bits(w, 6, 0) \div 2^4) % 2
  BY <1>1 DEF Bits
<1>3. Bits(w, 6, 5) = (Bits(w, 6, 0) \div 2^5) % 2^2
  BY <1>1 DEF Bits
<1>4. Bits(w, 3, 0) = Bits(w, 6, 0) % 2^4
  BY <1>1 DEF Bits
<1> QED BY <1>2, <1>3, <1>4

\* What the word of a bx has in the place of an msr.
LEMMA BXFields ==
    ASSUME NEW w \in ARMWord, IsBranchExchange(w)
    PROVE  /\ Bits(w, 24, 23) = 2 /\ Bits(w, 20, 19) = 1 /\ Bits(w, 18, 17) = 3
           /\ Bits(w, 21, 21) = 1 /\ Bits(w, 25, 25) = 0
<1>1. w \in Nat
  BY DEF ARMWord
<1>2. w \div 2^4 = 18 * 2^16 + 65521
  <2>1. Bits(w, 27, 20) = w \div 2^20 /\ Bits(w, 19, 4) = (w \div 2^4) % 2^16
        /\ w \div 2^20 = (w \div 2^4) \div 2^16
    BY DEF ARMWord, Bits
  <2> DEFINE x == w \div 2^4
  <2>2. x \in Nat /\ x \div 2^16 = 18 /\ x % 2^16 = 65521
    BY <1>1, <2>1 DEF IsBranchExchange
  <2> HIDE DEF x
  <2>3. x = 18 * 2^16 + 65521
    BY <2>2
  <2> QED BY <2>3 DEF x
<1>3. Bits(w, 24, 23) = 2 /\ Bits(w, 20, 19) = 1
  BY <1>1, <1>2 DEF Bits
<1>4. Bits(w, 18, 17) = 3 /\ Bits(w, 21, 21) = 1 /\ Bits(w, 25, 25) = 0
  BY <1>1, <1>2 DEF Bits
<1> QED BY <1>3, <1>4

LEMMA DataByRegisterParses ==
    ASSUME NEW w \in ARMWord, Bits(w, 27, 26) = 0, ~BitSet(w, 25), BitSet(w, 4),
           parseDataProcessing(w).format = "data",
           NEW v, v = w - Bits(w, 7, 7) * 2^7
    PROVE  ParseInstruction(v) = parseDataProcessing(w)
<1>1. v \in ARMWord /\ Bits(v, 7, 7) = 0
      /\ Bits(v, 6, 0) = Bits(w, 6, 0) /\ Bits(v, 27, 8) = Bits(w, 27, 8)
  BY WithoutBit7
<1>2. /\ Bits(v, 27, 26) = Bits(w, 27, 26) /\ Bits(v, 24, 21) = Bits(w, 24, 21)
      /\ Bits(v, 24, 23) = Bits(w, 24, 23) /\ Bits(v, 20, 19) = Bits(w, 20, 19)
      /\ Bits(v, 27, 27) = Bits(w, 27, 27) /\ Bits(v, 26, 26) = Bits(w, 26, 26)
      /\ Bits(v, 25, 25) = Bits(w, 25, 25) /\ Bits(v, 20, 20) = Bits(w, 20, 20)
      /\ Bits(v, 19, 16) = Bits(w, 19, 16) /\ Bits(v, 15, 12) = Bits(w, 15, 12)
      /\ Bits(v, 11, 8) = Bits(w, 11, 8)
  <2>1. Bits(v, 27, 8) = Bits(w, 27, 8)
    BY <1>1
  <2> QED BY <1>1, <2>1, FieldsOfHigh
<1>3. /\ Bits(v, 4, 4) = Bits(w, 4, 4) /\ Bits(v, 6, 5) = Bits(w, 6, 5)
      /\ Bits(v, 3, 0) = Bits(w, 3, 0)
  BY <1>1, FieldsOfLow
<1>4. ~BitSet(v, 27) /\ ~BitSet(v, 26)
  BY <1>1 , <1>2 DEF ARMWord, Bits, BitSet
<1>5. ~(Bits(w, 24, 23) = 2 /\ Bits(w, 20, 19) = 1)
  BY DEF parseDataProcessing, parsePSRTransfer
<1>6. ~IsBranchExchange(v)
  BY <1>1, <1>2, <1>5, BXFields
<1>7. Bits(v, 7, 4) # 9 /\ ~IsHalfword(v)
  <2>1. Bits(v, 7, 4) < 8
    BY <1>1 DEF ARMWord, Bits
  <2>2. Bits(v, 7, 4) \in Nat
    BY <1>1 DEF ARMWord, Bits
  <2> QED BY <1>1, <2>1, <2>2 DEF IsHalfword, BitSet
<1>8. ParseInstruction(v) = parseDataProcessing(v)
  BY <1>4, <1>6, <1>7 DEF ParseInstruction
<1>9. NewARMShift(Bits(v, 11, 4)) = NewARMShift(Bits(w, 11, 4))
  BY <1>1, <1>2, <1>3, ShiftIs DEF BitSet
<1>10. parseDataProcessing(v) =
             [format |-> "data", s |-> BitSet(v, 20), rd |-> Bits(v, 15, 12),
              rn |-> Bits(v, 19, 16), opcode |-> Bits(v, 24, 21), isImmediate |-> FALSE,
              rm |-> Bits(v, 3, 0), shift |-> NewARMShift(Bits(v, 11, 4))]
  BY <1>2, <1>5 DEF parseDataProcessing, BitSet
<1>11. BitSet(v, 20) = BitSet(w, 20)
  BY <1>2 DEF BitSet
<1>12. parseDataProcessing(v) =
             [format |-> "data", s |-> BitSet(w, 20), rd |-> Bits(w, 15, 12),
              rn |-> Bits(w, 19, 16), opcode |-> Bits(w, 24, 21), isImmediate |-> FALSE,
              rm |-> Bits(w, 3, 0), shift |-> NewARMShift(Bits(w, 11, 4))]
  BY <1>2, <1>3, <1>9, <1>10, <1>11
<1> QED BY <1>8, <1>12, DataShiftedIs

-----------------------------------------------------------------------------
\* The transfers of status registers

\* The bits that mrs and msr have in common.
PSRBits(w) == /\ Bits(w, 27, 26) = 0 /\ Bits(w, 24, 23) = 2 /\ Bits(w, 20, 19) = 1

LEMMA PSRParses ==
    ASSUME NEW w \in ARMWord, PSRBits(w), ~IsBranchExchange(w),
           Bits(w, 21, 20) = 0 => Bits(w, 7, 4) # 9,
           BitSet(w, 25) \/ Bits(w, 7, 4) = 0
    PROVE  ParseInstruction(w) = parsePSRTransfer(w)
<1>1. ~BitSet(w, 27) /\ ~BitSet(w, 26)
  BY DEF ARMWord, Bits, BitSet, PSRBits
<1>2. ~(Bits(w, 7, 4) = 9 /\ IsSwap(w))
  BY DEF IsSwap
<1>3. ~IsMultiply(w)
  <2>1. Bits(w, 27, 22) \div 2 = Bits(w, 27, 23)
    BY DEF ARMWord, Bits
  <2>2. Bits(w, 27, 23) \in {2, 6}
    <3>1. Bits(w, 27, 23) = Bits(w, 27, 26) * 8 + Bits(w, 25, 25) * 4 + Bits(w, 24, 23)
      BY DEF ARMWord, Bits
    <3> QED BY <3>1, BitValues DEF ARMWord, PSRBits
  <2> QED BY <2>1, <2>2 DEF IsMultiply
<1>4. ~IsHalfword(w)
  <2>1. CASE BitSet(w, 25)
    <3>1. Bits(w, 25, 25) = Bits(w, 27, 25) % 2
      BY DEF ARMWord, Bits
    <3> QED BY <2>1, <3>1 DEF IsHalfword, BitSet
  <2>2. CASE Bits(w, 7, 4) = 0
    <3>1. Bits(w, 7, 7) = Bits(w, 7, 4) \div 8
      BY DEF ARMWord, Bits
    <3> QED BY <2>2, <3>1 DEF IsHalfword, BitSet
  <2> QED BY <2>1, <2>2
<1> QED BY <1>1, <1>2, <1>3, <1>4 DEF ParseInstruction, parseDataProcessing, PSRBits

\* The word written for an mrs.
LEMMA ReadPSRFields ==
    ASSUME NEW b \in 0 .. 1, NEW rd \in 0 .. 15, NEW v,
           v = rd * 2^12 + 2^24 + b * 2^22 + 2^19
    PROVE  /\ v \in ARMWord /\ PSRBits(v) /\ Bits(v, 24, 19) = 33 + 8 * b
           /\ Bits(v, 22, 22) = b /\ Bits(v, 21, 21) = 0 /\ Bits(v, 21, 20) = 0
           /\ Bits(v, 7, 4) = 0 /\ Bits(v, 15, 12) = rd
<1>1. v \in ARMWord
  BY DEF ARMWord
<1>2. PSRBits(v)
  BY DEF PSRBits, Bits
<1>3. Bits(v, 24, 19) = 33 + 8 * b
  BY DEF Bits
<1>4. Bits(v, 22, 22) = b /\ Bits(v, 21, 21) = 0 /\ Bits(v, 21, 20) = 0
  BY DEF Bits
<1>5. Bits(v, 7, 4) = 0 /\ Bits(v, 15, 12) = rd
  BY DEF Bits
<1> QED BY <1>1, <1>2, <1>3, <1>4, <1>5

\* The word written for an msr with an immediate.
WordOfMSR(b, rotate, immediate) ==
    2^21 + 2^25 + rotate * 2^8 + immediate + 2^24 + b * 2^22 + 2^19

IsMSR(v, b, rotate, immediate) ==
    /\ v \in ARMWord /\ PSRBits(v) /\ Bits(v, 24, 19) = 37 + 8 * b
    /\ Bits(v, 22, 22) = b /\ Bits(v, 21, 21) = 1 /\ Bits(v, 21, 20) = 2
    /\ Bits(v, 25, 25) = 1 /\ Bits(v, 16, 16) = 0 /\ Bits(v, 11, 8) = rotate
    /\ Bits(v, 7, 0) = immediate /\ Bits(v, 3, 0) = immediate % 2^4
    /\ Bits(v, 11, 0) = rotate * 2^8 + immediate

LEMMA WritePSRImmediateFields ==
    ASSUME NEW b \in 0 .. 1, NEW rotate \in 0 .. 15, NEW immediate \in 0 .. 255
    PROVE  IsMSR(WordOfMSR(b, rotate, immediate), b, rotate, immediate)
<1> DEFINE v == WordOfMSR(b, rotate, immediate)
<1>1. v \in ARMWord
  BY DEF ARMWord, WordOfMSR
<1>2. PSRBits(v)
  BY DEF PSRBits, Bits, WordOfMSR
<1>3. Bits(v, 24, 19) = 37 + 8 * b
  BY DEF Bits, WordOfMSR
<1>4. Bits(v, 22, 22) = b /\ Bits(v, 21, 21) = 1 /\ Bits(v, 21, 20) = 2
  BY DEF Bits, WordOfMSR
<1>5. Bits(v, 25, 25) = 1 /\ Bits(v, 16, 16) = 0
  BY DEF Bits, WordOfMSR
<1>6. Bits(v, 11, 8) = rotate /\ Bits(v, 7, 0) = immediate
  BY DEF Bits, WordOfMSR
<1>7. Bits(v, 3, 0) = immediate % 2^4
  BY DEF Bits, WordOfMSR
<1>8. Bits(v, 11, 0) = rotate * 2^8 + immediate
  BY DEF Bits, WordOfMSR
<1> HIDE DEF v
<1>9. IsMSR(v, b, rotate, immediate)
  BY <1>1, <1>2, <1>3, <1>4, <1>5, <1>6, <1>7, <1>8 DEF IsMSR
<1> QED BY <1>9 DEF v

\* The word written for an msr with a register.
LEMMA WritePSRRegisterFields ==
    ASSUME NEW b \in 0 .. 1, NEW c \in 0 .. 1, NEW rm \in 0 .. 15, NEW v,
           v = 2^21 + c * 2^16 + rm + 2^24 + b * 2^22 + 2^19
    PROVE  /\ v \in ARMWord /\ PSRBits(v) /\ Bits(v, 24, 19) = 37 + 8 * b
           /\ Bits(v, 22, 22) = b /\ Bits(v, 21, 21) = 1 /\ Bits(v, 21, 20) = 2
           /\ Bits(v, 25, 25) = 0 /\ Bits(v, 16, 16) = c /\ Bits(v, 18, 17) = 0
           /\ Bits(v, 7, 4) = 0 /\ Bits(v, 3, 0) = rm
<1>1. v \in ARMWord
  BY DEF ARMWord
<1>2. PSRBits(v)
  BY DEF PSRBits, Bits
<1>3. Bits(v, 24, 19) = 37 + 8 * b
  BY DEF Bits
<1>4. Bits(v, 22, 22) = b /\ Bits(v, 21, 21) = 1 /\ Bits(v, 21, 20) = 2
  BY DEF Bits
<1>5. Bits(v, 25, 25) = 0 /\ Bits(v, 16, 16) = c /\ Bits(v, 18, 17) = 0
  BY DEF Bits
<1>6. Bits(v, 7, 4) = 0 /\ Bits(v, 3, 0) = rm
  BY DEF Bits
<1> QED BY <1>1, <1>2, <1>3, <1>4, <1>5, <1>6

\* The bits 24 to 19 of a word with the bits of an mrs or msr.
LEMMA PSROpcode ==
    ASSUME NEW w \in ARMWord, PSRBits(w)
    PROVE  Bits(w, 24, 19) = 33 + 8 * Bits(w, 22, 22) + 4 * Bits(w, 21, 21)
<1>1. Bits(w, 24, 19) = Bits(w, 24, 23) * 16 + Bits(w, 22, 22) * 8 + Bits(w, 21, 21) * 4
                        + Bits(w, 20, 19)
  BY DEF ARMWord, Bits
<1>2. Bits(w, 22, 22) \in 0 .. 1 /\ Bits(w, 21, 21) \in 0 .. 1
  BY BitValues DEF ARMWord
<1> QED BY <1>1, <1>2 DEF PSRBits

LEMMA ReadPSR ==
    ASSUME NEW w \in ARMWord, PSRBits(w), ~BitSet(w, 21),
           NEW v, v = AssembleARM(parsePSRTransfer(w))
    PROVE  /\ ParseInstruction(v) = parsePSRTransfer(w)
           /\ Bits(v, 27, 26) = Bits(w, 27, 26) /\ Bits(v, 24, 19) = Bits(w, 24, 19)
           /\ Bits(v, 15, 12) = Bits(w, 15, 12)
<1> DEFINE d == parsePSRTransfer(w)
<1>1. d = [format |-> "psr", useCPSR |-> ~BitSet(w, 22), write |-> FALSE,
           rd |-> Bits(w, 15, 12)]
  BY DEF parsePSRTransfer
<1> HIDE DEF d
<1>2. /\ d.format = "psr" /\ d.write = FALSE /\ d.rd = Bits(w, 15, 12)
      /\ d.useCPSR = (~BitSet(w, 22))
  BY <1>1 DEF BitSet
<1>3. AssembleARM(d) = PSROperand(d) + 2^24 + Bit(~d.useCPSR) * 2^22 + 2^19
  BY <1>2 DEF AssembleARM
<1>4. PSROperand(d) = Bits(w, 15, 12) * 2^12
  BY <1>2 DEF PSROperand
<1>5. Bit(~d.useCPSR) = Bits(w, 22, 22) /\ Bits(w, 22, 22) \in 0 .. 1
      /\ Bits(w, 15, 12) \in 0 .. 15
  <2>1. Bits(w, 15, 12) \in 0 .. 15
    BY DEF ARMWord, Bits
  <2>2. Bit(~d.useCPSR) = Bit(BitSet(w, 22))
    BY <1>2 DEF Bit
  <2> QED BY <2>1, <2>2, BitValues DEF ARMWord
<1>6. v = Bits(w, 15, 12) * 2^12 + 2^24 + Bits(w, 22, 22) * 2^22 + 2^19
  BY <1>3, <1>4, <1>5 DEF d
<1>7. /\ v \in ARMWord /\ PSRBits(v) /\ Bits(v, 24, 19) = 33 + 8 * Bits(w, 22, 22)
      /\ Bits(v, 22, 22) = Bits(w, 22, 22) /\ Bits(v, 21, 21) = 0 /\ Bits(v, 21, 20) = 0
      /\ Bits(v, 7, 4) = 0 /\ Bits(v, 15, 12) = Bits(w, 15, 12)
  BY <1>5, <1>6, ReadPSRFields
<1>8. ParseInstruction(v) = parsePSRTransfer(v)
  BY <1>7, PSRParses, BXFields
<1>9. parsePSRTransfer(v) = d
  <2>1. BitSet(v, 22) = BitSet(w, 22) /\ ~BitSet(v, 21)
    BY <1>7 DEF BitSet
  <2> QED BY <1>1, <1>7, <2>1 DEF parsePSRTransfer
<1>10. Bits(w, 21, 21) = 0
  BY ZeroBit DEF ARMWord
<1>11. Bits(w, 24, 19) = Bits(v, 24, 19)
  BY <1>5, <1>7, <1>10, PSROpcode
<1> QED BY <1>7, <1>8, <1>9, <1>11 DEF PSRBits, d

LEMMA WritePSRImmediate ==
    ASSUME NEW w \in ARMWord, PSRBits(w), BitSet(w, 21), ~BitSet(w, 16), BitSet(w, 25),
           NEW v, v = AssembleARM(parsePSRTransfer(w))
    PROVE  /\ ParseInstruction(v) = parsePSRTransfer(w)
           /\ Bits(v, 27, 26) = Bits(w, 27, 26) /\ Bits(v, 24, 19) = Bits(w, 24, 19)
           /\ Bits(v, 16, 16) = Bits(w, 16, 16) /\ Bits(v, 11, 0) = Bits(w, 11, 0)
           /\ Bits(v, 25, 25) = Bits(w, 25, 25)
<1> DEFINE d == parsePSRTransfer(w)
<1>1. d = [format |-> "psr", useCPSR |-> ~BitSet(w, 22), write |-> TRUE, flagsOnly |-> TRUE,
           isImmediate |-> TRUE, rm |-> Bits(w, 3, 0), immediate |-> Bits(w, 7, 0),
           rotate |-> Bits(w, 11, 8)]
  BY DEF parsePSRTransfer
<1> HIDE DEF d
<1>2. /\ d.format = "psr" /\ d.write = TRUE /\ d.flagsOnly = TRUE /\ d.isImmediate = TRUE
      /\ d.immediate = Bits(w, 7, 0) /\ d.rotate = Bits(w, 11, 8)
      /\ d.useCPSR = (~BitSet(w, 22))
  BY <1>1 DEF BitSet
<1>3. AssembleARM(d) = PSROperand(d) + 2^24 + Bit(~d.useCPSR) * 2^22 + 2^19
  BY <1>2 DEF AssembleARM
<1>4. PSROperand(d) = 2^21 + 0 * 2^16 + (2^25 + RotatedImmediate(d))
  BY <1>2 DEF PSROperand, Bit
<1>5. RotatedImmediate(d) = Bits(w, 11, 8) * 2^8 + Bits(w, 7, 0)
  BY <1>2 DEF RotatedImmediate
<1>6. Bit(~d.useCPSR) = Bits(w, 22, 22) /\ Bits(w, 22, 22) \in 0 .. 1
      /\ Bits(w, 11, 8) \in 0 .. 15 /\ Bits(w, 7, 0) \in 0 .. 255
  <2>1. Bits(w, 11, 8) \in 0 .. 15 /\ Bits(w, 7, 0) \in 0 .. 255
    BY DEF ARMWord, Bits
  <2>2. Bit(~d.useCPSR) = Bit(BitSet(w, 22))
    BY <1>2 DEF Bit
  <2> QED BY <2>1, <2>2, BitValues DEF ARMWord
<1>7. AssembleARM(d) = 2^21 + 2^25 + Bits(w, 11, 8) * 2^8 + Bits(w, 7, 0) + 2^24
                       + Bits(w, 22, 22) * 2^22 + 2^19
  BY <1>3, <1>4, <1>5, <1>6
<1>8. v = 2^21 + 2^25 + Bits(w, 11, 8) * 2^8 + Bits(w, 7, 0) + 2^24
          + Bits(w, 22, 22) * 2^22 + 2^19
  BY <1>7 DEF d
<1>9. /\ v \in ARMWord /\ PSRBits(v) /\ Bits(v, 24, 19) = 37 + 8 * Bits(w, 22, 22)
      /\ Bits(v, 22, 22) = Bits(w, 22, 22) /\ Bits(v, 21, 21) = 1 /\ Bits(v, 21, 20) = 2
      /\ Bits(v, 25, 25) = 1 /\ Bits(v, 16, 16) = 0 /\ Bits(v, 11, 8) = Bits(w, 11, 8)
      /\ Bits(v, 7, 0) = Bits(w, 7, 0) /\ Bits(v, 3, 0) = Bits(w, 7, 0) % 2^4
      /\ Bits(v, 11, 0) = Bits(w, 11, 8) * 2^8 + Bits(w, 7, 0)
  <2> DEFINE b == Bits(w, 22, 22)
             rotate == Bits(w, 11, 8)
             immediate == Bits(w, 7, 0)
  <2>1. b \in 0 .. 1 /\ rotate \in 0 .. 15 /\ immediate \in 0 .. 255
    BY <1>6
  <2>2. v = WordOfMSR(b, rotate, immediate)
    BY <1>8 DEF WordOfMSR
  <2> HIDE DEF b, rotate, immediate
  <2>3. IsMSR(v, b, rotate, immediate)
    BY <2>1, <2>2, WritePSRImmediateFields
  <2> QED BY <2>3 DEF b, rotate, immediate, IsMSR
<1>10. Bits(w, 3, 0) = Bits(w, 7, 0) % 2^4
  BY DEF ARMWord, Bits
<1>11. Bits(w, 11, 0) = Bits(w, 11, 8) * 2^8 + Bits(w, 7, 0)
  BY DEF ARMWord, Bits
<1>12. BitSet(v, 25)
  BY <1>9 DEF BitSet
<1>13. ParseInstruction(v) = parsePSRTransfer(v)
  BY <1>9, <1>12, PSRParses, BXFields
<1>14. parsePSRTransfer(v) = d
  <2>1. BitSet(v, 22) = BitSet(w, 22) /\ BitSet(v, 21) /\ ~BitSet(v, 16)
    BY <1>9 DEF BitSet
  <2>2. parsePSRTransfer(v) =
          [format |-> "psr", useCPSR |-> ~BitSet(v, 22), write |-> TRUE, flagsOnly |-> TRUE,
           isImmediate |-> TRUE, rm |-> Bits(v, 3, 0), immediate |-> Bits(v, 7, 0),
           rotate |-> Bits(v, 11, 8)]
    BY <1>12, <2>1 DEF parsePSRTransfer
  <2>3. Bits(v, 3, 0) = Bits(w, 3, 0) /\ Bits(v, 7, 0) = Bits(w, 7, 0)
        /\ Bits(v, 11, 8) = Bits(w, 11, 8)
    BY <1>9, <1>10
  <2> QED BY <1>1, <2>1, <2>2, <2>3
<1>15. Bits(w, 21, 21) = 1 /\ Bits(w, 16, 16) = 0 /\ Bits(w, 25, 25) = 1
  BY BitValues DEF ARMWord, BitSet
<1>16. Bits(w, 24, 19) = Bits(v, 24, 19)
  BY <1>6, <1>9, <1>15, PSROpcode
<1> QED BY <1>9, <1>11, <1>13, <1>14, <1>15, <1>16 DEF PSRBits, d

LEMMA WritePSRRegister ==
    ASSUME NEW w \in ARMWord, PSRBits(w), BitSet(w, 21), BitSet(w, 16) \/ ~BitSet(w, 25),
           NEW v, v = AssembleARM(parsePSRTransfer(w))
    PROVE  /\ ParseInstruction(v) = parsePSRTransfer(w)
           /\ Bits(v, 27, 26) = Bits(w, 27, 26) /\ Bits(v, 24, 19) = Bits(w, 24, 19)
           /\ Bits(v, 16, 16) = Bits(w, 16, 16) /\ Bits(v, 3, 0) = Bits(w, 3, 0)
           /\ ~BitSet(w, 16) => Bits(v, 25, 25) = Bits(w, 25, 25)
<1> DEFINE d == parsePSRTransfer(w)
<1>1. d = [format |-> "psr", useCPSR |-> ~BitSet(w, 22), write |-> TRUE,
           flagsOnly |-> ~BitSet(w, 16), isImmediate |-> FALSE, rm |-> Bits(w, 3, 0)]
  BY DEF parsePSRTransfer
<1> HIDE DEF d
<1>2. /\ d.format = "psr" /\ d.write = TRUE /\ d.isImmediate = FALSE
      /\ d.rm = Bits(w, 3, 0) /\ d.flagsOnly = (~BitSet(w, 16))
      /\ d.useCPSR = (~BitSet(w, 22))
  BY <1>1 DEF BitSet
<1>3. AssembleARM(d) = PSROperand(d) + 2^24 + Bit(~d.useCPSR) * 2^22 + 2^19
  BY <1>2 DEF AssembleARM
<1>4. Bit(~d.useCPSR) = Bits(w, 22, 22) /\ Bits(w, 22, 22) \in 0 .. 1
      /\ Bit(~d.flagsOnly) = Bits(w, 16, 16) /\ Bits(w, 16, 16) \in 0 .. 1
      /\ Bits(w, 3, 0) \in 0 .. 15
  <2>1. Bits(w, 3, 0) \in 0 .. 15
    BY DEF ARMWord, Bits
  <2>2. Bit(~d.useCPSR) = Bit(BitSet(w, 22)) /\ Bit(~d.flagsOnly) = Bit(BitSet(w, 16))
    BY <1>2 DEF Bit
  <2> QED BY <2>1, <2>2, BitValues DEF ARMWord
<1>5. PSROperand(d) = 2^21 + Bits(w, 16, 16) * 2^16 + Bits(w, 3, 0)
  BY <1>2, <1>4 DEF PSROperand
<1>6. AssembleARM(d) = 2^21 + Bits(w, 16, 16) * 2^16 + Bits(w, 3, 0) + 2^24
                       + Bits(w, 22, 22) * 2^22 + 2^19
  BY <1>3, <1>4, <1>5
<1>7. v = 2^21 + Bits(w, 16, 16) * 2^16 + Bits(w, 3, 0) + 2^24 + Bits(w, 22, 22) * 2^22 + 2^19
  BY <1>6 DEF d
<1>8. /\ v \in ARMWord /\ PSRBits(v) /\ Bits(v, 24, 19) = 37 + 8 * Bits(w, 22, 22)
      /\ Bits(v, 22, 22) = Bits(w, 22, 22) /\ Bits(v, 21, 21) = 1 /\ Bits(v, 21, 20) = 2
      /\ Bits(v, 25, 25) = 0 /\ Bits(v, 16, 16) = Bits(w, 16, 16) /\ Bits(v, 18, 17) = 0
      /\ Bits(v, 7, 4) = 0 /\ Bits(v, 3, 0) = Bits(w, 3, 0)
  BY <1>4, <1>7, WritePSRRegisterFields
<1>9. ParseInstruction(v) = parsePSRTransfer(v)
  BY <1>8, PSRParses, BXFields
<1>10. parsePSRTransfer(v) = d
  <2>1. /\ BitSet(v, 22) = BitSet(w, 22) /\ BitSet(v, 21) /\ ~BitSet(v, 25)
        /\ BitSet(v, 16) = BitSet(w, 16)
    BY <1>8 DEF BitSet
  <2>2. parsePSRTransfer(v) =
          [format |-> "psr", useCPSR |-> ~BitSet(v, 22), write |-> TRUE,
           flagsOnly |-> ~BitSet(v, 16), isImmediate |-> FALSE, rm |-> Bits(v, 3, 0)]
    BY <2>1 DEF parsePSRTransfer
  <2> QED BY <1>1, <1>8, <2>1, <2>2
<1>11. Bits(w, 21, 21) = 1
  BY BitValues DEF ARMWord, BitSet
<1>12. Bits(w, 24, 19) = Bits(v, 24, 19)
  BY <1>4, <1>8, <1>11, PSROpcode
<1>13. ~BitSet(w, 16) => Bits(w, 25, 25) = 0
  BY ZeroBit DEF ARMWord
<1> QED BY <1>8, <1>9, <1>10, <1>12, <1>13 DEF PSRBits, d

-----------------------------------------------------------------------------
\* The THUMB formats that remain

LEMMA ConditionalBranchRebuilds ==
    ASSUME NEW w \in THUMBWord, Bits(w, 15, 14) = 3, Bits(w, 13, 12) = 1,
           Bits(w, 11, 8) # 14
    PROVE  AssembleTHUMB(parseConditionalBranch(w)) = w
<1> DEFINE d == parseConditionalBranch(w)
<1>1. /\ d.format = "conditionalBranch" /\ d.offset = Bits(w, 7, 0)
      /\ d.condition = Bits(w, 11, 8)
  BY DEF parseConditionalBranch
<1> HIDE DEF d
<1>2. AssembleTHUMB(d) = 13 * 2^12 + d.condition * 2^8 + d.offset
  BY <1>1 DEF AssembleTHUMB
<1>3. AssembleTHUMB(d) = w
  BY <1>1, <1>2, ConditionalBranchSum
<1> QED BY <1>3 DEF d

LEMMA HighRegisterRebuilds ==
    ASSUME NEW w \in THUMBWord, Bits(w, 15, 14) = 1, Bits(w, 13, 10) = 1
    PROVE  AssembleTHUMB(parseHighRegisterOperation(w)) = w
<1> DEFINE d == parseHighRegisterOperation(w)
<1>1. /\ d.format = "highRegister" /\ d.operation = Bits(w, 9, 8)
      /\ d.rd = Bits(w, 2, 0) + (IF BitSet(w, 7) THEN 8 ELSE 0)
      /\ d.rs = Bits(w, 5, 3) + (IF BitSet(w, 6) THEN 8 ELSE 0)
  BY DEF parseHighRegisterOperation, Low, Mid
<1>2. /\ Bits(w, 2, 0) \in 0 .. 7 /\ Bits(w, 5, 3) \in 0 .. 7
      /\ (IF BitSet(w, 7) THEN 8 ELSE 0) = 8 * Bits(w, 7, 7)
      /\ (IF BitSet(w, 6) THEN 8 ELSE 0) = 8 * Bits(w, 6, 6)
      /\ Bits(w, 7, 7) \in 0 .. 1 /\ Bits(w, 6, 6) \in 0 .. 1
  <2>1. Bits(w, 2, 0) \in 0 .. 7 /\ Bits(w, 5, 3) \in 0 .. 7
    BY DEF THUMBWord, Bits
  <2>2. Bits(w, 7, 7) \in 0 .. 1 /\ Bits(w, 6, 6) \in 0 .. 1
    BY BitValues DEF THUMBWord
  <2> QED BY <2>1, <2>2 DEF BitSet
<1> HIDE DEF d
<1>3. d.rd % 8 = Bits(w, 2, 0) /\ d.rd \div 8 = Bits(w, 7, 7)
  BY <1>1, <1>2
<1>4. d.rs % 8 = Bits(w, 5, 3) /\ d.rs \div 8 = Bits(w, 6, 6)
  BY <1>1, <1>2
<1>5. AssembleTHUMB(d) = LowRegisters(d.rd % 8, d.rs % 8, 0) + 17 * 2^10 + d.operation * 2^8
                         + (d.rd \div 8) * 2^7 + (d.rs \div 8) * 2^6
  BY <1>1 DEF AssembleTHUMB
<1>6. LowRegisters(d.rd % 8, d.rs % 8, 0) = Bits(w, 2, 0) + Bits(w, 5, 3) * 2^3 + 0 * 2^6
  BY <1>3, <1>4 DEF LowRegisters
<1>7. AssembleTHUMB(d) = w
  BY <1>1, <1>3, <1>4, <1>5, <1>6, HighRegisterSum
<1> QED BY <1>7 DEF d

\* The word written for a push or a pop, and for an unconditional branch.
WordOfPush(load, extra, list) == 11 * 2^12 + load * 2^11 + 2^10 + extra * 2^8 + list

LEMMA PushFields ==
    ASSUME NEW load \in 0 .. 1, NEW extra \in 0 .. 1, NEW list \in 0 .. 255,
           NEW v, v = WordOfPush(load, extra, list)
    PROVE  /\ Bits(v, 15, 14) = 2 /\ Bits(v, 13, 12) = 3 /\ Bits(v, 11, 8) # 0
           /\ Bits(v, 11, 11) = load /\ Bits(v, 8, 8) = extra /\ Bits(v, 7, 0) = list
           /\ Bits(v, 15, 11) = 22 + load /\ Bits(v, 8, 0) = extra * 2^8 + list
<1>1. Bits(v, 15, 14) = 2 /\ Bits(v, 13, 12) = 3 /\ Bits(v, 11, 8) # 0
  BY DEF Bits, WordOfPush
<1>2. Bits(v, 11, 11) = load /\ Bits(v, 8, 8) = extra /\ Bits(v, 7, 0) = list
  BY DEF Bits, WordOfPush
<1>3. Bits(v, 15, 11) = 22 + load /\ Bits(v, 8, 0) = extra * 2^8 + list
  BY DEF Bits, WordOfPush
<1> QED BY <1>1, <1>2, <1>3

LEMMA PushPop ==
    ASSUME NEW w \in THUMBWord, Bits(w, 15, 14) = 2, Bits(w, 13, 12) = 3,
           NEW v, v = AssembleTHUMB(parsePushPopRegisters(w))
    PROVE  /\ ParseTHUMBInstruction(v) = parsePushPopRegisters(w)
           /\ Bits(v, 15, 11) = Bits(w, 15, 11) /\ Bits(v, 8, 0) = Bits(w, 8, 0)
<1> DEFINE d == parsePushPopRegisters(w)
           load == Bits(w, 11, 11)
           extra == Bits(w, 8, 8)
           list == Bits(w, 7, 0)
<1>1. d.format = "pushPop" /\ Bit(d.load) = load /\ Bit(d.extra) = extra /\ d.list = list
  BY BitValues DEF THUMBWord, parsePushPopRegisters
<1>2. load \in 0 .. 1 /\ extra \in 0 .. 1 /\ list \in 0 .. 255
  <2>1. list \in 0 .. 255
    BY DEF THUMBWord, Bits
  <2> QED BY <2>1, BitValues DEF THUMBWord
<1>3. /\ Bits(w, 15, 11) = Bits(w, 15, 14) * 8 + Bits(w, 13, 12) * 2 + load
      /\ Bits(w, 8, 0) = extra * 2^8 + list
  BY DEF THUMBWord, Bits
<1> HIDE DEF d, load, extra, list
<1>4. AssembleTHUMB(d) = 11 * 2^12 + Bit(d.load) * 2^11 + 2^10 + Bit(d.extra) * 2^8 + d.list
  BY <1>1 DEF AssembleTHUMB
<1>5. v = WordOfPush(load, extra, list)
  BY <1>1, <1>4 DEF WordOfPush, d
<1>6. /\ Bits(v, 15, 14) = 2 /\ Bits(v, 13, 12) = 3 /\ Bits(v, 11, 8) # 0
      /\ Bits(v, 11, 11) = load /\ Bits(v, 8, 8) = extra /\ Bits(v, 7, 0) = list
      /\ Bits(v, 15, 11) = 22 + load /\ Bits(v, 8, 0) = extra * 2^8 + list
  BY <1>2, <1>5, PushFields
<1>7. ParseTHUMBInstruction(v) = parsePushPopRegisters(v)
  BY <1>6 DEF ParseTHUMBInstruction, ParseTransfer
<1>8. parsePushPopRegisters(v) = parsePushPopRegisters(w)
  BY <1>6 DEF parsePushPopRegisters, BitSet, load, extra, list
<1> QED BY <1>2, <1>3, <1>6, <1>7, <1>8

LEMMA UnconditionalBranch ==
    ASSUME NEW w \in THUMBWord, Bits(w, 15, 14) = 3, Bits(w, 13, 12) = 2,
           NEW v, v = AssembleTHUMB(parseUnconditionalBranch(w))
    PROVE  /\ ParseTHUMBInstruction(v) = parseUnconditionalBranch(w)
           /\ Bits(v, 15, 12) = Bits(w, 15, 12) /\ Bits(v, 10, 0) = Bits(w, 10, 0)
<1> DEFINE d == parseUnconditionalBranch(w)
           offset == Bits(w, 10, 0)
<1>1. d.format = "branch" /\ d.offset = offset
  BY DEF parseUnconditionalBranch
<1>2. offset \in 0 .. 2047 /\ Bits(w, 15, 12) = 14
  <2>1. offset \in 0 .. 2047 /\ Bits(w, 15, 12) = Bits(w, 15, 14) * 4 + Bits(w, 13, 12)
    BY DEF THUMBWord, Bits
  <2> QED BY <2>1
<1> HIDE DEF d, offset
<1>3. v = 14 * 2^12 + offset
  BY <1>1 DEF AssembleTHUMB, d
<1>4. Bits(v, 15, 14) = 3 /\ Bits(v, 13, 12) = 2 /\ Bits(v, 15, 12) = 14
  BY <1>2, <1>3 DEF Bits
<1>5. Bits(v, 10, 0) = offset
  BY <1>2, <1>3 DEF Bits
<1>6. ParseTHUMBInstruction(v) = parseUnconditionalBranch(v)
  BY <1>4 DEF ParseTHUMBInstruction, ParseControl
<1> QED BY <1>2, <1>4, <1>5, <1>6 DEF parseUnconditionalBranch, offset

-----------------------------------------------------------------------------
\* Every halfword

LEMMA HalfwordTests ==
    ASSUME NEW w \in THUMBWord
    PROVE  /\ Bits(w, 15, 14) \in 0 .. 3 /\ Bits(w, 13, 12) \in 0 .. 3
           /\ BitSet(w, 13) <=> Bits(w, 13, 12) \in {2, 3}
           /\ Bits(w, 13, 12) = 0 => Bits(w, 13, 10) \in 0 .. 3
           /\ Bits(w, 13, 11) = 1 <=> Bits(w, 13, 10) \in {2, 3}
           /\ Bits(w, 13, 12) # 0 => Bits(w, 13, 11) # 1 /\ Bits(w, 13, 10) \notin 0 .. 1
<1>1. Bits(w, 15, 14) \in 0 .. 3 /\ Bits(w, 13, 12) \in 0 .. 3
  BY DEF THUMBWord, Bits
<1>2. Bits(w, 13, 13) = Bits(w, 13, 12) \div 2
  BY DEF THUMBWord, Bits
<1>3. Bits(w, 13, 12) = 0 => Bits(w, 13, 10) \in 0 .. 3
  BY DEF THUMBWord, Bits
<1>4. Bits(w, 13, 11) = Bits(w, 13, 10) \div 2 /\ Bits(w, 13, 10) \in Nat
  BY DEF THUMBWord, Bits
<1>5. BitSet(w, 13) <=> Bits(w, 13, 12) \in {2, 3}
  BY <1>1, <1>2 DEF BitSet
<1>6. Bits(w, 13, 11) = 1 <=> Bits(w, 13, 10) \in {2, 3}
  BY <1>4
<1>7. Bits(w, 13, 12) # 0 => Bits(w, 13, 11) # 1 /\ Bits(w, 13, 10) \notin 0 .. 1
  <2>1. Bits(w, 13, 12) = Bits(w, 13, 10) \div 4
    BY DEF THUMBWord, Bits
  <2> QED BY <1>4, <2>1
<1> QED BY <1>1, <1>3, <1>5, <1>6, <1>7

\* The instruction d of the halfword w, which has a format, is one that the
\* assembler gives back.
Rebuilt(w, d) ==
    /\ ParseTHUMBInstruction(AssembleTHUMB(d)) = d
    /\ \A f \in LookedAt(d) : Bits(AssembleTHUMB(d), f[1], f[2]) = Bits(w, f[1], f[2])

LEMMA WholeHalfword ==
    ASSUME NEW w, NEW d, d = ParseTHUMBInstruction(w), AssembleTHUMB(d) = w
    PROVE  Rebuilt(w, d)
BY DEF Rebuilt

LEMMA OperationsAreRebuilt ==
    ASSUME NEW w \in THUMBWord, Bits(w, 15, 14) = 0
    PROVE  Rebuilt(w, ParseTHUMBInstruction(w))
<1>1. ParseTHUMBInstruction(w) = ParseOperation(w)
  BY DEF ParseTHUMBInstruction
<1>2. AssembleTHUMB(ParseOperation(w)) = w
  BY MoveShiftedRebuilds, AddSubtractRebuilds, ImmediateRebuilds DEF ParseOperation
<1> QED BY <1>1, <1>2, WholeHalfword

LEMMA MixedAreRebuilt ==
    ASSUME NEW w \in THUMBWord, Bits(w, 15, 14) = 1
    PROVE  Rebuilt(w, ParseTHUMBInstruction(w))
<1>1. ParseTHUMBInstruction(w) = ParseMixed(w)
  BY DEF ParseTHUMBInstruction
<1>2. CASE BitSet(w, 13)
  <2>1. Bits(w, 13, 12) \in {2, 3} /\ Bits(w, 13, 11) # 1 /\ Bits(w, 13, 10) \notin 0 .. 1
    BY <1>2, HalfwordTests
  <2>2. ParseMixed(w) = parseLoadStoreImmediateOffset(w)
    BY <1>2, <2>1 DEF ParseMixed
  <2>3. AssembleTHUMB(ParseMixed(w)) = w
    BY <1>2, <2>2, ImmediateOffsetRebuilds
  <2> QED BY <1>1, <2>3, WholeHalfword
<1>3. CASE Bits(w, 13, 12) = 1 /\ ~BitSet(w, 9)
  <2>1. ~BitSet(w, 13) /\ Bits(w, 13, 11) # 1 /\ Bits(w, 13, 10) \notin 0 .. 1
    BY <1>3, HalfwordTests
  <2>2. ParseMixed(w) = parseLoadStoreRegisterOffset(w)
    BY <1>3, <2>1 DEF ParseMixed
  <2>3. AssembleTHUMB(ParseMixed(w)) = w
    BY <1>3, <2>2, RegisterOffsetRebuilds
  <2> QED BY <1>1, <2>3, WholeHalfword
<1>4. CASE Bits(w, 13, 12) = 1 /\ BitSet(w, 9)
  <2>1. ~BitSet(w, 13) /\ Bits(w, 13, 11) # 1 /\ Bits(w, 13, 10) \notin 0 .. 1
    BY <1>4, HalfwordTests
  <2>2. ParseMixed(w) = parseLoadStoreSignExtendedHalfword(w)
    BY <1>4, <2>1 DEF ParseMixed
  <2>3. AssembleTHUMB(ParseMixed(w)) = w
    BY <1>4, <2>2, SignExtendedRebuilds
  <2> QED BY <1>1, <2>3, WholeHalfword
<1>5. CASE Bits(w, 13, 12) = 0
  <2>1. ~BitSet(w, 13) /\ Bits(w, 13, 10) \in 0 .. 3
    BY <1>5, HalfwordTests
  <2>2. CASE Bits(w, 13, 11) = 1
    <3>1. ParseMixed(w) = parsePCRelativeLoad(w)
      BY <1>5, <2>1, <2>2, HalfwordTests DEF ParseMixed
    <3>2. AssembleTHUMB(ParseMixed(w)) = w
      BY <2>2, <3>1, PCRelativeRebuilds
    <3> QED BY <1>1, <3>2, WholeHalfword
  <2>3. CASE Bits(w, 13, 10) = 1
    <3>1. ParseMixed(w) = parseHighRegisterOperation(w)
      BY <1>5, <2>1, <2>3, HalfwordTests DEF ParseMixed
    <3>2. AssembleTHUMB(ParseMixed(w)) = w
      BY <2>3, <3>1, HighRegisterRebuilds
    <3> QED BY <1>1, <3>2, WholeHalfword
  <2>4. CASE Bits(w, 13, 10) = 0
    <3>1. ParseMixed(w) = parseALUOperation(w)
      BY <1>5, <2>1, <2>4, HalfwordTests DEF ParseMixed
    <3>2. AssembleTHUMB(ParseMixed(w)) = w
      BY <2>4, <3>1, ALURebuilds
    <3> QED BY <1>1, <3>2, WholeHalfword
  <2> QED BY <2>1, <2>2, <2>3, <2>4, HalfwordTests
<1> QED BY <1>2, <1>3, <1>4, <1>5, HalfwordTests

LEMMA TransfersAreRebuilt ==
    ASSUME NEW w \in THUMBWord, Bits(w, 15, 14) = 2, thumb
    PROVE  Rebuilt(w, ParseTHUMBInstruction(w))
<1>1. ParseTHUMBInstruction(w) = ParseTransfer(w)
  BY DEF ParseTHUMBInstruction
<1>2. CASE Bits(w, 13, 12) = 3 /\ Bits(w, 11, 8) # 0
  <2> DEFINE d == parsePushPopRegisters(w)
             v == AssembleTHUMB(d)
  <2>1. ParseTHUMBInstruction(w) = d
    BY <1>1, <1>2 DEF ParseTransfer
  <2>2. ParseTHUMBInstruction(v) = d
        /\ Bits(v, 15, 11) = Bits(w, 15, 11) /\ Bits(v, 8, 0) = Bits(w, 8, 0)
    BY <1>2, PushPop
  <2>3. LookedAt(d) = {<<15, 11>>, <<8, 0>>}
    <3>1. d.format = "pushPop"
      BY DEF parsePushPopRegisters
    <3> HIDE DEF d
    <3> QED BY <3>1 DEF LookedAt
  <2> QED BY <2>1, <2>2, <2>3 DEF Rebuilt
<1>3. CASE Bits(w, 13, 12) = 3 /\ Bits(w, 11, 8) = 0
  <2>1. ParseTransfer(w) = parseAddToStackPointer(w)
    BY <1>3 DEF ParseTransfer
  <2>2. AssembleTHUMB(ParseTransfer(w)) = w
    BY <1>3, <2>1, AddToSPRebuilds
  <2> QED BY <1>1, <2>2, WholeHalfword
<1>4. CASE Bits(w, 13, 12) = 2
  <2>1. ParseTransfer(w) = parseLoadAddress(w)
    BY <1>4 DEF ParseTransfer
  <2>2. AssembleTHUMB(ParseTransfer(w)) = w
    BY <1>4, <2>1, LoadAddressRebuilds
  <2> QED BY <1>1, <2>2, WholeHalfword
<1>5. CASE Bits(w, 13, 12) = 1
  <2>1. ParseTransfer(w) = parseSPRelativeLoadStore(w)
    BY <1>5 DEF ParseTransfer
  <2>2. AssembleTHUMB(ParseTransfer(w)) = w
    BY <1>5, <2>1, SPRelativeRebuilds
  <2> QED BY <1>1, <2>2, WholeHalfword
<1>6. CASE Bits(w, 13, 12) = 0
  <2>1. ParseTransfer(w) = parseLoadStoreHalfword(w)
    BY <1>6 DEF ParseTransfer
  <2>2. AssembleTHUMB(ParseTransfer(w)) = w
    BY <1>6, <2>1, HalfwordOffsetRebuilds
  <2> QED BY <1>1, <2>2, WholeHalfword
<1> QED BY <1>2, <1>3, <1>4, <1>5, <1>6, HalfwordTests

LEMMA ControlIsRebuilt ==
    ASSUME NEW w \in THUMBWord, Bits(w, 15, 14) = 3, thumb,
           ParseTHUMBInstruction(w).format # "error"
    PROVE  Rebuilt(w, ParseTHUMBInstruction(w))
<1>1. ParseTHUMBInstruction(w) = ParseControl(w)
  BY DEF ParseTHUMBInstruction
<1>2. CASE Bits(w, 13, 12) = 3
  <2>1. ParseControl(w) = parseLongBranchAndLink(w)
    BY <1>2 DEF ParseControl
  <2>2. AssembleTHUMB(ParseControl(w)) = w
    BY <1>2, <2>1, BranchAndLinkRebuilds
  <2> QED BY <1>1, <2>2, WholeHalfword
<1>3. CASE Bits(w, 13, 12) = 2
  <2> DEFINE d == parseUnconditionalBranch(w)
             v == AssembleTHUMB(d)
  <2>1. ParseTHUMBInstruction(w) = d
    BY <1>1, <1>3 DEF ParseControl
  <2>2. ParseTHUMBInstruction(v) = d
        /\ Bits(v, 15, 12) = Bits(w, 15, 12) /\ Bits(v, 10, 0) = Bits(w, 10, 0)
    BY <1>3, UnconditionalBranch
  <2>3. LookedAt(d) = {<<15, 12>>, <<10, 0>>}
    <3>1. d.format = "branch"
      BY DEF parseUnconditionalBranch
    <3> HIDE DEF d
    <3> QED BY <3>1 DEF LookedAt
  <2> QED BY <2>1, <2>2, <2>3 DEF Rebuilt
<1>4. CASE Bits(w, 13, 12) = 1 /\ Bits(w, 11, 8) = 15
  <2>1. ParseControl(w) = parseSoftwareInterruptTHUMB(w)
    BY <1>4 DEF ParseControl
  <2>2. AssembleTHUMB(ParseControl(w)) = w
    BY <1>4, <2>1, SWITHUMBRebuilds
  <2> QED BY <1>1, <2>2, WholeHalfword
<1>5. CASE Bits(w, 13, 12) = 1 /\ Bits(w, 11, 8) # 15
  <2>1. ParseControl(w) = parseConditionalBranch(w)
    BY <1>5 DEF ParseControl
  <2>2. Bits(w, 11, 8) # 14
    BY <1>1, <2>1 DEF parseConditionalBranch, Undecodable
  <2>3. AssembleTHUMB(ParseControl(w)) = w
    BY <1>5, <2>1, <2>2, ConditionalBranchRebuilds
  <2> QED BY <1>1, <2>3, WholeHalfword
<1>6. CASE Bits(w, 13, 12) = 0
  <2>1. ParseControl(w) = parseMultipleLoadStore(w)
    BY <1>6 DEF ParseControl
  <2>2. AssembleTHUMB(ParseControl(w)) = w
    BY <1>6, <2>1, MultipleRebuilds
  <2> QED BY <1>1, <2>2, WholeHalfword
<1> QED BY <1>2, <1>3, <1>4, <1>5, <1>6, HalfwordTests

LEMMA HalfwordsAreRebuilt ==
    ASSUME NEW w \in THUMBWord, thumb, ParseTHUMBInstruction(w).format # "error"
    PROVE  Rebuilt(w, ParseTHUMBInstruction(w))
BY OperationsAreRebuilt, MixedAreRebuilt, TransfersAreRebuilt, ControlIsRebuilt, HalfwordTests

-----------------------------------------------------------------------------
\* Every word

\* Which parse function a word with bit 27 set comes to.
LEMMA HighWords ==
    ASSUME NEW w \in ARMWord, BitSet(w, 27)
    PROVE  \/ Bits(w, 27, 25) = 5 /\ ParseInstruction(w) = parseBranch(w)
           \/ Bits(w, 27, 25) = 4 /\ ParseInstruction(w) = parseBlockDataTransfer(w)
           \/ Bits(w, 27, 25) = 6 /\ ParseInstruction(w) = parseCoprocDataTransfer(w)
           \/ Bits(w, 27, 24) = 15 /\ ParseInstruction(w) = parseSoftwareInterrupt(w)
           \/ Bits(w, 27, 24) = 14 /\ BitSet(w, 4)
              /\ ParseInstruction(w) = parseCoprocRegisterTransfer(w)
           \/ Bits(w, 27, 24) = 14 /\ ~BitSet(w, 4)
              /\ ParseInstruction(w) = parseCoprocDataOperation(w)
<1>1. Bits(w, 27, 25) = 4 * Bits(w, 27, 27) + 2 * Bits(w, 26, 26) + Bits(w, 25, 25)
  BY DEF ARMWord, Bits
<1>2. Bits(w, 27, 24) = 2 * Bits(w, 27, 25) + Bits(w, 24, 24)
  BY DEF ARMWord, Bits
<1>3. /\ Bits(w, 26, 26) \in 0 .. 1 /\ Bits(w, 25, 25) \in 0 .. 1 /\ Bits(w, 24, 24) \in 0 .. 1
  BY BitValues DEF ARMWord
<1>4. ParseInstruction(w) = ParseHigh(w)
  BY DEF ParseInstruction
<1>5. CASE ~BitSet(w, 26)
  BY <1>1, <1>3, <1>4, <1>5 DEF ParseHigh, BitSet
<1>6. CASE BitSet(w, 26) /\ ~BitSet(w, 25)
  BY <1>1, <1>3, <1>4, <1>6 DEF ParseHigh, BitSet
<1>7. CASE BitSet(w, 26) /\ BitSet(w, 25)
  <2>1. Bits(w, 27, 25) = 7
    BY <1>1, <1>7 DEF BitSet
  <2>2. CASE BitSet(w, 24)
    <3>1. ParseInstruction(w) = parseSoftwareInterrupt(w)
      BY <1>4, <1>7, <2>2 DEF ParseHigh
    <3>2. Bits(w, 27, 24) = 15
      BY <1>2, <2>1, <2>2 DEF BitSet
    <3> QED BY <3>1, <3>2
  <2>3. CASE ~BitSet(w, 24)
    <3>1. ParseInstruction(w) = (IF BitSet(w, 4) THEN parseCoprocRegisterTransfer(w)
                                 ELSE parseCoprocDataOperation(w))
      BY <1>4, <1>7, <2>3 DEF ParseHigh
    <3>2. Bits(w, 27, 24) = 14
      BY <1>2, <1>3, <2>1, <2>3 DEF BitSet
    <3> QED BY <3>1, <3>2
  <2> QED BY <2>2, <2>3
<1> QED BY <1>5, <1>6, <1>7

\* Which parse function a word with bit 27 clear comes to.
LEMMA LowWords ==
    ASSUME NEW w \in ARMWord, ~BitSet(w, 27)
    PROVE  \/ ParseInstruction(w) = Undecodable
           \/ Bits(w, 27, 26) = 1 /\ (~BitSet(w, 25) \/ ~BitSet(w, 4))
              /\ ParseInstruction(w) = parseSingleDataTransfer(w)
           \/ IsBranchExchange(w) /\ ParseInstruction(w) = parseBranchExchange(w)
           \/ Bits(w, 7, 4) = 9 /\ IsSwap(w) /\ ParseInstruction(w) = parseSingleDataSwap(w)
           \/ Bits(w, 7, 4) = 9 /\ IsMultiply(w) /\ ParseInstruction(w) = parseMultiply(w)
           \/ IsHalfword(w) /\ ParseInstruction(w) = parseHalfwordDataTransfer(w)
           \/ Bits(w, 27, 26) = 0 /\ ParseInstruction(w) = parseDataProcessing(w)
<1>1. Bits(w, 27, 26) = 2 * Bits(w, 27, 27) + Bits(w, 26, 26)
  BY DEF ARMWord, Bits
<1>2. Bits(w, 27, 27) = 0 /\ Bits(w, 26, 26) \in 0 .. 1
  BY BitValues DEF ARMWord, BitSet
<1>3. CASE BitSet(w, 26)
  <2>1. Bits(w, 27, 26) = 1
    BY <1>1, <1>2, <1>3 DEF BitSet
  <2>2. ParseInstruction(w) = ParseSingle(w)
    BY <1>3 DEF ParseInstruction
  <2> QED BY <2>1, <2>2 DEF ParseSingle
<1>4. CASE ~BitSet(w, 26)
  <2>1. Bits(w, 27, 26) = 0
    BY <1>1, <1>2, <1>4 DEF BitSet
  <2> QED BY <1>4, <2>1 DEF ParseInstruction
<1> QED BY <1>3, <1>4

\* What the last test of ParseInstruction leaves: a status register or data.
LEMMA DataWords ==
    ASSUME NEW w \in ARMWord, Bits(w, 27, 26) = 0
    PROVE  \/ PSRBits(w) /\ parseDataProcessing(w) = parsePSRTransfer(w)
           \/ ~PSRBits(w) /\ parseDataProcessing(w).format = "data"
<1>1. CASE PSRBits(w)
  BY <1>1 DEF parseDataProcessing, PSRBits
<1>2. CASE ~PSRBits(w)
  BY <1>2 DEF parseDataProcessing, PSRBits
<1> QED BY <1>1, <1>2

\* The instruction d of the word w is one that the assembler gives back.
ARMRebuilt(w, d) ==
    /\ ParseInstruction(AssembleARM(d)) = d
    /\ \A f \in LookedAt(d) : Bits(AssembleARM(d), f[1], f[2]) = Bits(w, f[1], f[2])

LEMMA WholeWord ==
    ASSUME NEW w, NEW d, d = ParseInstruction(w), AssembleARM(d) = w
    PROVE  ARMRebuilt(w, d)
BY DEF ARMRebuilt

LEMMA PSRIsRebuilt ==
    ASSUME NEW w \in ARMWord, PSRBits(w), ~thumb
    PROVE  ARMRebuilt(w, parsePSRTransfer(w))
<1> DEFINE d == parsePSRTransfer(w)
           v == AssembleARM(d)
<1>1. CASE ~BitSet(w, 21)
  <2>1. d.format = "psr" /\ ~d.write
    BY <1>1 DEF parsePSRTransfer
  <2>2. /\ ParseInstruction(v) = d
        /\ Bits(v, 27, 26) = Bits(w, 27, 26) /\ Bits(v, 24, 19) = Bits(w, 24, 19)
        /\ Bits(v, 15, 12) = Bits(w, 15, 12)
    BY <1>1, ReadPSR
  <2> HIDE DEF d
  <2>3. LookedAt(d) = {<<27, 26>>, <<24, 19>>, <<15, 12>>}
    BY <2>1 DEF LookedAt
  <2>4. ARMRebuilt(w, d)
    BY <2>2, <2>3 DEF ARMRebuilt
  <2> QED BY <2>4 DEF d
<1>2. CASE BitSet(w, 21) /\ ~BitSet(w, 16) /\ BitSet(w, 25)
  <2>1. d.format = "psr" /\ d.write /\ d.isImmediate /\ d.flagsOnly
    BY <1>2 DEF parsePSRTransfer
  <2>2. /\ ParseInstruction(v) = d
        /\ Bits(v, 27, 26) = Bits(w, 27, 26) /\ Bits(v, 24, 19) = Bits(w, 24, 19)
        /\ Bits(v, 16, 16) = Bits(w, 16, 16) /\ Bits(v, 11, 0) = Bits(w, 11, 0)
        /\ Bits(v, 25, 25) = Bits(w, 25, 25)
    BY <1>2, WritePSRImmediate
  <2> HIDE DEF d
  <2>3. LookedAt(d) = {<<27, 26>>, <<24, 19>>, <<16, 16>>, <<11, 0>>} \union {<<25, 25>>}
    BY <2>1 DEF LookedAt
  <2>4. ARMRebuilt(w, d)
    BY <2>2, <2>3 DEF ARMRebuilt
  <2> QED BY <2>4 DEF d
<1>3. CASE BitSet(w, 21) /\ (BitSet(w, 16) \/ ~BitSet(w, 25))
  <2>1. d.format = "psr" /\ d.write /\ ~d.isImmediate /\ d.flagsOnly = (~BitSet(w, 16))
    BY <1>3 DEF parsePSRTransfer
  <2>2. /\ ParseInstruction(v) = d
        /\ Bits(v, 27, 26) = Bits(w, 27, 26) /\ Bits(v, 24, 19) = Bits(w, 24, 19)
        /\ Bits(v, 16, 16) = Bits(w, 16, 16) /\ Bits(v, 3, 0) = Bits(w, 3, 0)
        /\ ~BitSet(w, 16) => Bits(v, 25, 25) = Bits(w, 25, 25)
    BY <1>3, WritePSRRegister
  <2> HIDE DEF d
  <2>3. LookedAt(d) = {<<27, 26>>, <<24, 19>>, <<16, 16>>, <<3, 0>>}
                      \union IF d.flagsOnly THEN {<<25, 25>>} ELSE {}
    BY <2>1 DEF LookedAt
  <2>4. CASE BitSet(w, 16)
    <3>1. LookedAt(d) = {<<27, 26>>, <<24, 19>>, <<16, 16>>, <<3, 0>>}
      BY <2>1, <2>3, <2>4
    <3>2. ARMRebuilt(w, d)
      BY <2>2, <3>1 DEF ARMRebuilt
    <3> QED BY <3>2 DEF d
  <2>5. CASE ~BitSet(w, 16)
    <3>1. LookedAt(d) = {<<27, 26>>, <<24, 19>>, <<16, 16>>, <<3, 0>>} \union {<<25, 25>>}
      BY <2>1, <2>3, <2>5
    <3>2. ARMRebuilt(w, d)
      BY <2>2, <2>5, <3>1 DEF ARMRebuilt
    <3> QED BY <3>2 DEF d
  <2> QED BY <2>4, <2>5
<1> QED BY <1>1, <1>2, <1>3

LEMMA DataIsRebuilt ==
    ASSUME NEW w \in ARMWord, Bits(w, 27, 26) = 0, ~thumb,
           parseDataProcessing(w).format = "data",
           ParseInstruction(w) = parseDataProcessing(w)
    PROVE  ARMRebuilt(w, ParseInstruction(w))
<1> DEFINE d == parseDataProcessing(w)
           v == AssembleARM(d)
<1>1. CASE BitSet(w, 25)
  BY <1>1, DataImmediateRebuilds, WholeWord
<1>2. CASE ~BitSet(w, 25) /\ ~BitSet(w, 4)
  BY <1>2, DataShiftedRebuilds, WholeWord
<1>3. CASE ~BitSet(w, 25) /\ BitSet(w, 4)
  <2>1. ~d.isImmediate /\ d.shift = NewARMShift(Bits(w, 11, 4)) /\ d.format = "data"
    BY <1>3, DataShiftedIs
  <2>2. d.shift.useRegister
    BY <1>3, <2>1, ShiftFields
  <2>3. v = w - Bits(w, 7, 7) * 2^7
    BY <1>3, DataByRegister
  <2>4. ParseInstruction(v) = d
    BY <1>3, <2>3, DataByRegisterParses
  <2>5. Bits(v, 6, 0) = Bits(w, 6, 0) /\ Bits(v, 27, 8) = Bits(w, 27, 8)
    BY <2>3, WithoutBit7
  <2> HIDE DEF d
  <2>6. LookedAt(d) = {<<27, 8>>, <<6, 0>>}
    BY <2>1, <2>2 DEF LookedAt
  <2>7. ARMRebuilt(w, d)
    BY <2>4, <2>5, <2>6 DEF ARMRebuilt
  <2> QED BY <2>7 DEF d
<1> QED BY <1>1, <1>2, <1>3

LEMMA HighWordsAreRebuilt ==
    ASSUME NEW w \in ARMWord, BitSet(w, 27)
    PROVE  ARMRebuilt(w, ParseInstruction(w))
<1>1. AssembleARM(ParseInstruction(w)) = w
  BY HighWords, BranchRebuilds, BlockRebuilds, CoprocTransferRebuilds,
     SoftwareInterruptRebuilds, CoprocRegisterRebuilds, CoprocOperationRebuilds
<1> QED BY <1>1, WholeWord

LEMMA LowWordsAreRebuilt ==
    ASSUME NEW w \in ARMWord, ~BitSet(w, 27), ~thumb, ParseInstruction(w).format # "error"
    PROVE  ARMRebuilt(w, ParseInstruction(w))
<1>1. ParseInstruction(w) # Undecodable
  BY DEF Undecodable
<1>2. CASE Bits(w, 27, 26) = 1 /\ (~BitSet(w, 25) \/ ~BitSet(w, 4))
           /\ ParseInstruction(w) = parseSingleDataTransfer(w)
  BY <1>2, SingleImmediateRebuilds, SingleShiftedRebuilds, WholeWord
<1>3. CASE IsBranchExchange(w) /\ ParseInstruction(w) = parseBranchExchange(w)
  BY <1>3, BranchExchangeRebuilds, WholeWord
<1>4. CASE Bits(w, 7, 4) = 9 /\ IsSwap(w) /\ ParseInstruction(w) = parseSingleDataSwap(w)
  BY <1>4, SwapRebuilds, WholeWord
<1>5. CASE Bits(w, 7, 4) = 9 /\ IsMultiply(w) /\ ParseInstruction(w) = parseMultiply(w)
  BY <1>5, MultiplyRebuilds, WholeWord
<1>6. CASE IsHalfword(w) /\ ParseInstruction(w) = parseHalfwordDataTransfer(w)
  BY <1>6, HalfwordRebuilds, WholeWord
<1>7. CASE Bits(w, 27, 26) = 0 /\ ParseInstruction(w) = parseDataProcessing(w)
  BY <1>7, DataWords, DataIsRebuilt, PSRIsRebuilt
<1> QED BY <1>1, <1>2, <1>3, <1>4, <1>5, <1>6, <1>7, LowWords

LEMMA WordsAreRebuilt ==
    ASSUME NEW w \in ARMWord, ~thumb, ParseInstruction(w).format # "error"
    PROVE  ARMRebuilt(w, ParseInstruction(w))
BY HighWordsAreRebuilt, LowWordsAreRebuilt

-----------------------------------------------------------------------------
\* The registers that an instruction names, and its shifts

RegistersBelow(d, n) == \A f \in RegisterFields \intersect DOMAIN d : d[f] \in 0 .. n

LEMMA RegisterNumbers ==
    ASSUME NEW w \in Nat
    PROVE  /\ Bits(w, 19, 16) \in 0 .. 15 /\ Bits(w, 15, 12) \in 0 .. 15
           /\ Bits(w, 11, 8) \in 0 .. 15 /\ Bits(w, 3, 0) \in 0 .. 15
           /\ Low(w) \in 0 .. 7 /\ Mid(w) \in 0 .. 7 /\ High(w) \in 0 .. 7
           /\ Bits(w, 10, 8) \in 0 .. 7
<1>1. Bits(w, 19, 16) \in 0 .. 15 /\ Bits(w, 15, 12) \in 0 .. 15
  BY DEF Bits
<1>2. Bits(w, 11, 8) \in 0 .. 15 /\ Bits(w, 3, 0) \in 0 .. 15
  BY DEF Bits
<1>3. Low(w) \in 0 .. 7 /\ Mid(w) \in 0 .. 7
  BY DEF Bits, Low, Mid
<1>4. High(w) \in 0 .. 7 /\ Bits(w, 10, 8) \in 0 .. 7
  BY DEF Bits, High
<1> QED BY <1>1, <1>2, <1>3, <1>4

LEMMA HighRegisters ==
    ASSUME NEW w \in ARMWord, BitSet(w, 27)
    PROVE  RegistersBelow(ParseInstruction(w), 15)
<1> w \in Nat
  BY DEF ARMWord
<1>1. RegistersBelow(parseBranch(w), 15)
  BY DEF parseBranch, RegistersBelow, RegisterFields
<1>2. RegistersBelow(parseBlockDataTransfer(w), 15)
  BY RegisterNumbers DEF parseBlockDataTransfer, RegistersBelow, RegisterFields
<1>3. RegistersBelow(parseCoprocDataTransfer(w), 15)
  BY RegisterNumbers DEF parseCoprocDataTransfer, RegistersBelow, RegisterFields
<1>4. RegistersBelow(parseSoftwareInterrupt(w), 15)
  BY DEF parseSoftwareInterrupt, RegistersBelow, RegisterFields
<1>5. RegistersBelow(parseCoprocRegisterTransfer(w), 15)
  BY RegisterNumbers DEF parseCoprocRegisterTransfer, RegistersBelow, RegisterFields
<1>6. RegistersBelow(parseCoprocDataOperation(w), 15)
  BY RegisterNumbers DEF parseCoprocDataOperation, RegistersBelow, RegisterFields
<1> QED BY <1>1, <1>2, <1>3, <1>4, <1>5, <1>6, HighWords

LEMMA LowRegistersBelow ==
    ASSUME NEW w \in ARMWord, ~BitSet(w, 27)
    PROVE  RegistersBelow(ParseInstruction(w), 15)
<1> w \in Nat
  BY DEF ARMWord
<1>1. RegistersBelow(Undecodable, 15)
  BY DEF Undecodable, RegistersBelow, RegisterFields
<1>2. RegistersBelow(parseSingleDataTransfer(w), 15)
  BY RegisterNumbers DEF parseSingleDataTransfer, RegistersBelow, RegisterFields
<1>3. RegistersBelow(parseBranchExchange(w), 15)
  BY RegisterNumbers DEF parseBranchExchange, RegistersBelow, RegisterFields
<1>4. RegistersBelow(parseSingleDataSwap(w), 15)
  BY RegisterNumbers DEF parseSingleDataSwap, RegistersBelow, RegisterFields
<1>5. RegistersBelow(parseMultiply(w), 15)
  BY <1>1, RegisterNumbers DEF parseMultiply, RegistersBelow, RegisterFields
<1>6. RegistersBelow(parseHalfwordDataTransfer(w), 15)
  BY RegisterNumbers DEF parseHalfwordDataTransfer, RegistersBelow, RegisterFields
<1>7. RegistersBelow(parsePSRTransfer(w), 15)
  BY RegisterNumbers DEF parsePSRTransfer, RegistersBelow, RegisterFields
<1>8. RegistersBelow(parseDataProcessing(w), 15)
  BY <1>7, RegisterNumbers DEF parseDataProcessing, RegistersBelow, RegisterFields
<1> QED BY <1>1, <1>2, <1>3, <1>4, <1>5, <1>6, <1>8, LowWords

\* Which parse function a halfword comes to.
LEMMA Halfwords ==
    ASSUME NEW w \in THUMBWord
    PROVE  \/ ParseTHUMBInstruction(w) = parseMoveCompareAddSubtractImmediate(w)
           \/ ParseTHUMBInstruction(w) = parseAddSubtract(w)
           \/ Bits(w, 12, 11) # 3 /\ ParseTHUMBInstruction(w) = parseMoveShiftedRegister(w)
           \/ ParseTHUMBInstruction(w) \in
                {parseLoadStoreImmediateOffset(w), parseLoadStoreRegisterOffset(w),
                 parseLoadStoreSignExtendedHalfword(w), parsePCRelativeLoad(w),
                 parseHighRegisterOperation(w), parseALUOperation(w)}
           \/ ParseTHUMBInstruction(w) \in
                {parsePushPopRegisters(w), parseAddToStackPointer(w), parseLoadAddress(w),
                 parseSPRelativeLoadStore(w), parseLoadStoreHalfword(w)}
           \/ ParseTHUMBInstruction(w) \in
                {parseLongBranchAndLink(w), parseUnconditionalBranch(w),
                 parseSoftwareInterruptTHUMB(w), parseConditionalBranch(w),
                 parseMultipleLoadStore(w)}
<1>1. CASE Bits(w, 15, 14) = 0
  <2>1. ParseTHUMBInstruction(w) = ParseOperation(w)
    BY <1>1 DEF ParseTHUMBInstruction
  <2> QED BY <2>1 DEF ParseOperation
<1>2. CASE Bits(w, 15, 14) = 1
  <2>1. ParseTHUMBInstruction(w) = ParseMixed(w)
    BY <1>2 DEF ParseTHUMBInstruction
  <2>2. CASE Bits(w, 13, 12) \in {2, 3}
    <3>1. /\ BitSet(w, 13) /\ Bits(w, 13, 12) # 1
          /\ Bits(w, 13, 11) # 1 /\ Bits(w, 13, 10) \notin 0 .. 1
      BY <2>2, HalfwordTests
    <3>2. ParseMixed(w) = parseLoadStoreImmediateOffset(w)
      BY <3>1 DEF ParseMixed
    <3> QED BY <2>1, <3>2
  <2>3. CASE Bits(w, 13, 12) = 1
    <3>1. ~BitSet(w, 13) /\ Bits(w, 13, 11) # 1 /\ Bits(w, 13, 10) \notin 0 .. 1
      BY <2>3, HalfwordTests
    <3>2. ParseMixed(w) = (IF BitSet(w, 9) THEN parseLoadStoreSignExtendedHalfword(w)
                           ELSE parseLoadStoreRegisterOffset(w))
      BY <2>3, <3>1 DEF ParseMixed
    <3> QED BY <2>1, <3>2
  <2>4. CASE Bits(w, 13, 12) = 0
    <3>1. ~BitSet(w, 13) /\ Bits(w, 13, 10) \in 0 .. 3
          /\ (Bits(w, 13, 11) = 1 <=> Bits(w, 13, 10) \in {2, 3})
      BY <2>4, HalfwordTests
    <3>2. CASE Bits(w, 13, 11) = 1
      <4>1. ParseMixed(w) = parsePCRelativeLoad(w)
        BY <2>4, <3>1, <3>2 DEF ParseMixed
      <4> QED BY <2>1, <4>1
    <3>3. CASE Bits(w, 13, 10) = 1
      <4>1. ParseMixed(w) = parseHighRegisterOperation(w)
        BY <2>4, <3>1, <3>3 DEF ParseMixed
      <4> QED BY <2>1, <4>1
    <3>4. CASE Bits(w, 13, 10) = 0
      <4>1. ParseMixed(w) = parseALUOperation(w)
        BY <2>4, <3>1, <3>4 DEF ParseMixed
      <4> QED BY <2>1, <4>1
    <3> QED BY <3>1, <3>2, <3>3, <3>4
  <2> QED BY <2>2, <2>3, <2>4, HalfwordTests
<1>3. CASE Bits(w, 15, 14) = 2
  <2>1. ParseTHUMBInstruction(w) = ParseTransfer(w)
    BY <1>3 DEF ParseTHUMBInstruction
  <2>2. ParseTransfer(w) \in
          {parsePushPopRegisters(w), parseAddToStackPointer(w), parseLoadAddress(w),
           parseSPRelativeLoadStore(w), parseLoadStoreHalfword(w)}
    BY HalfwordTests DEF ParseTransfer
  <2> QED BY <2>1, <2>2
<1>4. CASE Bits(w, 15, 14) = 3
  <2>1. ParseTHUMBInstruction(w) = ParseControl(w)
    BY <1>4 DEF ParseTHUMBInstruction
  <2>2. ParseControl(w) \in
          {parseLongBranchAndLink(w), parseUnconditionalBranch(w),
           parseSoftwareInterruptTHUMB(w), parseConditionalBranch(w),
           parseMultipleLoadStore(w)}
    BY HalfwordTests DEF ParseControl
  <2> QED BY <2>1, <2>2
<1> QED BY <1>1, <1>2, <1>3, <1>4, HalfwordTests

\* The registers of an instruction of THUMB.
THUMBRegistersBelow(d) == RegistersBelow(d, IF d.format # "highRegister" THEN 7 ELSE 15)

LEMMA HalfwordRegisters ==
    ASSUME NEW w \in THUMBWord
    PROVE  THUMBRegistersBelow(ParseTHUMBInstruction(w))
<1> w \in Nat
  BY DEF THUMBWord
<1> USE RegisterNumbers DEF THUMBRegistersBelow, RegistersBelow, RegisterFields
<1>1. THUMBRegistersBelow(parseMoveCompareAddSubtractImmediate(w))
  BY DEF parseMoveCompareAddSubtractImmediate
<1>2. THUMBRegistersBelow(parseAddSubtract(w))
  BY DEF parseAddSubtract
<1>3. THUMBRegistersBelow(parseMoveShiftedRegister(w))
  BY DEF parseMoveShiftedRegister
<1>4. THUMBRegistersBelow(parseLoadStoreImmediateOffset(w))
  BY DEF parseLoadStoreImmediateOffset
<1>5. THUMBRegistersBelow(parseLoadStoreRegisterOffset(w))
  BY DEF parseLoadStoreRegisterOffset
<1>6. THUMBRegistersBelow(parseLoadStoreSignExtendedHalfword(w))
  BY DEF parseLoadStoreSignExtendedHalfword
<1>7. THUMBRegistersBelow(parsePCRelativeLoad(w))
  BY DEF parsePCRelativeLoad
<1>8. THUMBRegistersBelow(parseHighRegisterOperation(w))
  BY DEF parseHighRegisterOperation
<1>9. THUMBRegistersBelow(parseALUOperation(w))
  BY DEF parseALUOperation
<1>10. THUMBRegistersBelow(parsePushPopRegisters(w))
  BY DEF parsePushPopRegisters
<1>11. THUMBRegistersBelow(parseAddToStackPointer(w))
  BY DEF parseAddToStackPointer
<1>12. THUMBRegistersBelow(parseLoadAddress(w))
  BY DEF parseLoadAddress
<1>13. THUMBRegistersBelow(parseSPRelativeLoadStore(w))
  BY DEF parseSPRelativeLoadStore
<1>14. THUMBRegistersBelow(parseLoadStoreHalfword(w))
  BY DEF parseLoadStoreHalfword
<1>15. THUMBRegistersBelow(parseLongBranchAndLink(w))
  BY DEF parseLongBranchAndLink
<1>16. THUMBRegistersBelow(parseUnconditionalBranch(w))
  BY DEF parseUnconditionalBranch
<1>17. THUMBRegistersBelow(parseSoftwareInterruptTHUMB(w))
  BY DEF parseSoftwareInterruptTHUMB
<1>18. THUMBRegistersBelow(parseConditionalBranch(w))
  BY DEF parseConditionalBranch, Undecodable
<1>19. THUMBRegistersBelow(parseMultipleLoadStore(w))
  BY DEF parseMultipleLoadStore
<1> HIDE DEF THUMBRegistersBelow, RegistersBelow, RegisterFields
<1> QED BY <1>1, <1>2, <1>3, <1>4, <1>5, <1>6, <1>7, <1>8, <1>9, <1>10,
       <1>11, <1>12, <1>13, <1>14, <1>15, <1>16, <1>17, <1>18, <1>19, Halfwords

\* A transfer names no register to shift by, and "illegalShift" never results.
LEMMA WordShifts ==
    ASSUME NEW w \in ARMWord, NEW d, d = ParseInstruction(w)
    PROVE  /\ d.format # "illegalShift"
           /\ d.format = "single" /\ ~d.isImmediate => ~d.shift.useRegister
<1>1. CASE d.format \notin {"single", "illegalShift"}
  BY <1>1
<1>2. CASE BitSet(w, 27)
  BY <1>2, HighWords DEF parseBranch, parseBlockDataTransfer, parseCoprocDataTransfer,
     parseSoftwareInterrupt, parseCoprocRegisterTransfer, parseCoprocDataOperation
<1>3. CASE ~BitSet(w, 27)
  <2>1. CASE (~BitSet(w, 25) \/ ~BitSet(w, 4)) /\ d = parseSingleDataTransfer(w)
    <3>1. CASE ~BitSet(w, 25)
      BY <2>1, <3>1 DEF parseSingleDataTransfer
    <3>2. CASE BitSet(w, 25) /\ ~BitSet(w, 4)
      <4>1. ~NewARMShift(Bits(w, 11, 4)).useRegister
        BY <3>2, ShiftFields
      <4>2. d.format = "single" /\ d.shift = NewARMShift(Bits(w, 11, 4))
        BY <2>1, <3>2, <4>1 DEF parseSingleDataTransfer
      <4> QED BY <4>1, <4>2
    <3> QED BY <2>1, <3>1, <3>2
  <2>2. CASE d = Undecodable \/ d = parseBranchExchange(w) \/ d = parseSingleDataSwap(w)
             \/ d = parseMultiply(w) \/ d = parseHalfwordDataTransfer(w)
    BY <2>2 DEF Undecodable, parseBranchExchange, parseSingleDataSwap, parseMultiply,
       parseHalfwordDataTransfer
  <2>3. CASE d = parseDataProcessing(w)
    BY <2>3 DEF parseDataProcessing, parsePSRTransfer
  <2> QED BY <1>3, <2>1, <2>2, <2>3, LowWords
<1> QED BY <1>2, <1>3

LEMMA HalfwordShifts ==
    ASSUME NEW w \in THUMBWord, NEW d, d = ParseTHUMBInstruction(w)
    PROVE  d.format # "illegalShift" /\ (d.format = "moveShifted" => d.operation # 3)
<1>1. CASE Bits(w, 12, 11) # 3 /\ d = parseMoveShiftedRegister(w)
  BY <1>1 DEF parseMoveShiftedRegister
<1>2. CASE d = parseMoveCompareAddSubtractImmediate(w) \/ d = parseAddSubtract(w)
  BY <1>2 DEF parseMoveCompareAddSubtractImmediate, parseAddSubtract
<1>3. CASE d \in {parseLoadStoreImmediateOffset(w), parseLoadStoreRegisterOffset(w),
                  parseLoadStoreSignExtendedHalfword(w), parsePCRelativeLoad(w),
                  parseHighRegisterOperation(w), parseALUOperation(w)}
  BY <1>3 DEF parseLoadStoreImmediateOffset, parseLoadStoreRegisterOffset,
     parseLoadStoreSignExtendedHalfword, parsePCRelativeLoad,
     parseHighRegisterOperation, parseALUOperation
<1>4. CASE d \in {parsePushPopRegisters(w), parseAddToStackPointer(w), parseLoadAddress(w),
                  parseSPRelativeLoadStore(w), parseLoadStoreHalfword(w)}
  BY <1>4 DEF parsePushPopRegisters, parseAddToStackPointer, parseLoadAddress,
     parseSPRelativeLoadStore, parseLoadStoreHalfword
<1>5. CASE d \in {parseLongBranchAndLink(w), parseUnconditionalBranch(w),
                  parseSoftwareInterruptTHUMB(w), parseConditionalBranch(w),
                  parseMultipleLoadStore(w)}
  BY <1>5 DEF parseLongBranchAndLink, parseUnconditionalBranch, Undecodable,
     parseSoftwareInterruptTHUMB, parseConditionalBranch, parseMultipleLoadStore
<1> QED BY <1>1, <1>2, <1>3, <1>4, <1>5, Halfwords

-----------------------------------------------------------------------------
\* What is decoded is what the word in the word register decodes to.
DecodingInv ==
    /\ thumb \in BOOLEAN
    /\ word \in IF thumb THEN THUMBWord ELSE ARMWord
    /\ decoded \in {NotYet, ParseWord(word)}

LEMMA DecodingInvariant == DecodingSpec => []DecodingInv
<1>1. DecodingInit => DecodingInv
  BY DecodingAssumption DEF DecodingInit, DecodingInv, ARMWord, THUMBWord
<1>2. DecodingInv /\ [DecodingNext]_decodingVars => DecodingInv'
  BY DEF DecodingInv, DecodingNext, DecodeARM, DecodeTHUMB, decodingVars, ParseWord
<1> QED BY <1>1, <1>2, PTL DEF DecodingSpec

\* Every register that a decoded instruction names is one that the ARM or THUMB
\* state has (ParseInstruction, ParseTHUMBInstruction).
THEOREM DecodedRegistersExist == DecodingSpec => []RegistersExist
<1>1. DecodingInv => RegistersExist
  <2> SUFFICES ASSUME DecodingInv, Decoded PROVE RegistersExist
    BY DEF RegistersExist
  <2>1. CASE thumb
    <3>1. word \in THUMBWord /\ decoded = ParseTHUMBInstruction(word)
      BY <2>1 DEF DecodingInv, Decoded, ParseWord
    <3>2. THUMBRegistersBelow(decoded)
      BY <3>1, HalfwordRegisters
    <3> QED BY <2>1, <3>2 DEF THUMBRegistersBelow, RegistersBelow, RegistersExist
  <2>2. CASE ~thumb
    <3>1. word \in ARMWord /\ decoded = ParseInstruction(word)
      BY <2>2 DEF DecodingInv, Decoded, ParseWord
    <3>2. RegistersBelow(decoded, 15)
      BY <3>1, HighRegisters, LowRegistersBelow
    <3> QED BY <2>2, <3>2 DEF RegistersBelow, RegistersExist
  <2> QED BY <2>1, <2>2
<1> QED BY <1>1, DecodingInvariant, PTL

\* What a word decodes to, or the decoder refuses it.
LEMMA DecodedIsRebuilt ==
    ASSUME DecodingInv, Decoded
    PROVE  /\ ParseWord(Assemble(decoded)) = decoded
           /\ \A f \in LookedAt(decoded) :
                  Bits(Assemble(decoded), f[1], f[2]) = Bits(word, f[1], f[2])
<1>1. CASE thumb
  <2>1. /\ word \in THUMBWord /\ decoded = ParseTHUMBInstruction(word)
        /\ decoded.format # "error"
    BY <1>1 DEF DecodingInv, Decoded, ParseWord
  <2>2. Rebuilt(word, decoded)
    BY <1>1, <2>1, HalfwordsAreRebuilt
  <2> QED BY <1>1, <2>2 DEF Rebuilt, ParseWord, Assemble
<1>2. CASE ~thumb
  <2>1. word \in ARMWord /\ decoded = ParseInstruction(word) /\ decoded.format # "error"
    BY <1>2 DEF DecodingInv, Decoded, ParseWord
  <2>2. ARMRebuilt(word, decoded)
    BY <1>2, <2>1, WordsAreRebuilt
  <2> QED BY <1>2, <2>2 DEF ARMRebuilt, ParseWord, Assemble
<1> QED BY <1>1, <1>2

\* No field is read from the place of another and none is lost, and no word of
\* one format decodes as another: the fields give back every bit that the format
\* of the word looks at (ParseInstruction, ParseTHUMBInstruction).
THEOREM DecodedFieldsRebuildTheWord == DecodingSpec => []FieldsRebuildTheWord
<1>1. DecodingInv => FieldsRebuildTheWord
  BY DecodedIsRebuilt DEF FieldsRebuildTheWord
<1> QED BY <1>1, DecodingInvariant, PTL

\* A bit that a format does not look at changes nothing, though the word may
\* then take another branch of the tests (ParseInstruction,
\* ParseTHUMBInstruction).
THEOREM DecodersIgnoreIgnoredBits == DecodingSpec => []IgnoredBitsAreIgnored
<1>1. DecodingInv => IgnoredBitsAreIgnored
  BY DecodedIsRebuilt DEF IgnoredBitsAreIgnored
<1> QED BY <1>1, DecodingInvariant, PTL

\* No word decodes to what Emulate would refuse: a transfer with an offset
\* shifted by a register, or a THUMB shift of a fourth type
\* (parseSingleDataTransfer, parseMoveShiftedRegister).
THEOREM NoWordShiftsIllegally == DecodingSpec => []NoIllegalShift
<1>1. DecodingInv => NoIllegalShift
  <2> SUFFICES ASSUME DecodingInv, decoded # NotYet PROVE NoIllegalShift
    BY DEF NoIllegalShift
  <2>1. CASE thumb
    <3>1. word \in THUMBWord /\ decoded = ParseTHUMBInstruction(word)
      BY <2>1 DEF DecodingInv, ParseWord
    <3>2. decoded.format # "illegalShift"
          /\ (decoded.format = "moveShifted" => decoded.operation # 3)
      BY <3>1, HalfwordShifts
    <3> QED BY <2>1, <3>2 DEF NoIllegalShift
  <2>2. CASE ~thumb
    <3>1. word \in ARMWord /\ decoded = ParseInstruction(word)
      BY <2>2 DEF DecodingInv, ParseWord
    <3>2. /\ decoded.format # "illegalShift"
          /\ decoded.format = "single" /\ ~decoded.isImmediate => ~decoded.shift.useRegister
      BY <3>1, WordShifts
    <3> QED BY <2>2, <3>2 DEF NoIllegalShift
  <2> QED BY <2>1, <2>2
<1> QED BY <1>1, DecodingInvariant, PTL
=============================================================================
