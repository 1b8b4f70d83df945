------------------------- MODULE GuestTransfersProofs -------------------------
(***************************************************************************)
(* Proofs about loads, stores, blocks and their faults: what a guest does  *)
(* to registers, memory and coprocessors stays typed, and an instruction   *)
(* that faults can be run again as if it had not.                          *)
(***************************************************************************)
EXTENDS GuestTransfers, ProcessorLemmas, FiniteSetTheorems, SequenceTheorems

-----------------------------------------------------------------------------
\* Least elements and sorted lists

LEMMA LeastNumber ==
    ASSUME NEW S, S \subseteq Nat, S # {}
    PROVE  \E x \in S : \A y \in S : x <= y
<1> DEFINE Less == {ss \in Nat \X Nat : ss[1] < ss[2]}
<1>1. IsWellFoundedOn(Less, Nat)
  BY NatLessThanWellFounded DEF OpToRel
<1>2. \A x, y \in Nat : x < y => <<x, y>> \in Less
  OBVIOUS
<1> HIDE DEF Less
<1>3. PICK x \in S : \A y \in S : ~(<<y, x>> \in Less)
  BY <1>1, WFMin
<1>4. ASSUME NEW y \in S PROVE x <= y
  <2>1. x \in Nat /\ y \in Nat
    OBVIOUS
  <2>2. ~(y < x)
    BY <1>2, <1>3, <2>1
  <2> QED BY <2>1, <2>2
<1> QED BY <1>4

LEMMA MinIsElement ==
    ASSUME NEW S, S \subseteq Nat, S # {}
    PROVE  Min(S) \in S
<1>1. \E x \in S : \A y \in S : x <= y
  BY LeastNumber
<1> QED BY <1>1, Zenon DEF Min

LEMMA ListsAreFinite ==
    ASSUME NEW S \in SUBSET (0 .. 15)
    PROVE  IsFiniteSet(S) /\ Cardinality(S) \in Nat
<1>1. S \in SUBSET Nat /\ 15 \in Nat /\ \A s \in S : s <= 15
  OBVIOUS
<1>2. IsFiniteSet(S)
  BY <1>1, FS_BoundedSetOfNaturals
<1> QED BY <1>2, FS_CardinalityType

LEMMA GreatestRegister ==
    ASSUME NEW S, S \subseteq 0 .. 15, S # {}
    PROVE  \E x \in S : \A y \in S : y <= x
<1> DEFINE Complement == {15 - x : x \in S}
<1>0. Complement \subseteq Nat /\ Complement # {}
  <2>1. PICK x : x \in S
    OBVIOUS
  <2>2. 15 - x \in Complement
    BY <2>1
  <2>3. \A x1 \in S : 15 - x1 \in Nat
    OBVIOUS
  <2> QED BY <2>2, <2>3
<1>1. PICK z \in Complement : \A y \in Complement : z <= y
  <2> HIDE DEF Complement
  <2> QED BY <1>0, LeastNumber
<1>2. PICK x \in S : z = 15 - x
  OBVIOUS
<1>3. ASSUME NEW y \in S PROVE y <= x
  <2>1. z <= 15 - y
    BY <1>1
  <2> QED BY <1>2, <2>1
<1> QED BY <1>3

Sorted(s, S) ==
    /\ s \in [1 .. Cardinality(S) -> S]
    /\ \A i, j \in 1 .. Cardinality(S) : i < j => s[i] < s[j]

\* Each number up to the length of S is the place of a register of S.
Placed(S) ==
    \A i \in 1 .. Cardinality(S) : \E n \in S : Cardinality(UpTo(S, n)) = i

\* A list with one register more has one place more, for the greatest.
LEMMA PlacedStep ==
    ASSUME NEW n \in Nat,
           \A T \in SUBSET (0 .. 15) : Cardinality(T) = n => Placed(T),
           NEW S \in SUBSET (0 .. 15), Cardinality(S) = n + 1
    PROVE  Placed(S)
<1>1. IsFiniteSet(S) /\ S # {}
  BY ListsAreFinite, FS_EmptySet
<1>2. PICK m \in S : \A y \in S : y <= m
  BY <1>1, GreatestRegister
<1> DEFINE T == S \ {m}
<1>3. Cardinality(T) = n
  BY <1>1, FS_RemoveElement
<1>4. Placed(T)
  BY <1>3
<1>5. ASSUME NEW i \in 1 .. (n + 1)
      PROVE  \E e \in S : Cardinality(UpTo(S, e)) = i
  <2>1. CASE i = n + 1
    <3>1. UpTo(S, m) = S
      BY <1>2 DEF UpTo
    <3> QED BY <2>1, <3>1
  <2>2. CASE i # n + 1
    <3>1. i \in 1 .. n
      BY <2>2
    <3>2. PICK e \in T : Cardinality(UpTo(T, e)) = i
      BY <1>3, <1>4, <3>1 DEF Placed
    <3>3. e \in 0 .. 15 /\ m \in 0 .. 15 /\ e <= m /\ e # m
      BY <1>2, <3>2
    <3>4. ~(m <= e)
      BY <3>3
    <3>5. UpTo(S, e) = UpTo(T, e)
      BY <3>4 DEF UpTo
    <3> QED BY <3>2, <3>5
  <2> QED BY <2>1, <2>2
<1> QED BY <1>5 DEF Placed

\* Every list of registers has its places: a smallest one that had not would
\* have a register too many.
LEMMA ListsHavePlaces ==
    ASSUME NEW S \in SUBSET (0 .. 15)
    PROVE  Placed(S)
<1> DEFINE Unplaced == {n \in Nat : \E T \in SUBSET (0 .. 15) :
                           Cardinality(T) = n /\ ~Placed(T)}
<1>0. ASSUME NEW T \in SUBSET (0 .. 15) PROVE IsFiniteSet(T) /\ Cardinality(T) \in Nat
  BY ListsAreFinite
<1>1. SUFFICES ASSUME Unplaced # {} PROVE FALSE
  BY <1>0
<1>2. PICK n \in Unplaced : \A k \in Unplaced : n <= k
  BY <1>1, LeastNumber
<1>3. PICK T \in SUBSET (0 .. 15) : Cardinality(T) = n /\ ~Placed(T)
  BY <1>2
<1>4. CASE n = 0
  BY <1>3, <1>4 DEF Placed
<1>5. CASE n # 0
  <2>1. n - 1 \in Nat /\ n - 1 \notin Unplaced
    BY <1>2, <1>5
  <2>2. \A R \in SUBSET (0 .. 15) : Cardinality(R) = n - 1 => Placed(R)
    BY <2>1
  <2>3. Cardinality(T) = (n - 1) + 1
    BY <1>3, <2>1
  <2> QED BY <1>3, <2>1, <2>2, <2>3, PlacedStep
<1> QED BY <1>4, <1>5

\* The loops over a register list meet its registers, lowest first.
LEMMA AscendingIsSorted ==
    ASSUME NEW S \in SUBSET (0 .. 15)
    PROVE  /\ Cardinality(S) \in Nat
           /\ Sorted(Ascending(S), S)
<1> DEFINE n == Cardinality(S)
           s == Ascending(S)
<1>1. IsFiniteSet(S) /\ n \in Nat
  BY ListsAreFinite
<1>2. ASSUME NEW i \in 1 .. n
      PROVE  s[i] \in S /\ Cardinality(UpTo(S, s[i])) = i
  <2>1. s[i] = CHOOSE e \in S : Cardinality(UpTo(S, e)) = i
    BY DEF Ascending
  <2>2. \E e \in S : Cardinality(UpTo(S, e)) = i
    BY ListsHavePlaces DEF Placed
  <2> QED BY <2>1, <2>2, Zenon
<1>3. s \in [1 .. n -> S]
  <2>1. s = [i \in 1 .. n |-> s[i]]
    BY DEF Ascending
  <2> HIDE DEF s
  <2> QED BY <1>2, <2>1
<1>4. ASSUME NEW i \in 1 .. n, NEW j \in 1 .. n, i < j
      PROVE  s[i] < s[j]
  <2> DEFINE a == s[i]
             b == s[j]
  <2>1. /\ a \in 0 .. 15 /\ Cardinality(UpTo(S, a)) = i
        /\ b \in 0 .. 15 /\ Cardinality(UpTo(S, b)) = j
    BY <1>2
  <2> HIDE DEF a, b
  <2>2. ASSUME b <= a PROVE FALSE
    <3>1. UpTo(S, b) \in SUBSET UpTo(S, a) /\ UpTo(S, a) \in SUBSET S
      <4>1. \A x \in S : x <= b => x <= a
        BY <2>1, <2>2
      <4> QED BY <4>1 DEF UpTo
    <3>2. j <= i
      BY <1>1, <2>1, <3>1, FS_Subset
    <3> QED BY <1>4, <3>2
  <2>3. a < b
    BY <2>1, <2>2
  <2> QED BY <2>3 DEF a, b
<1> HIDE DEF s
<1> QED BY <1>1, <1>3, <1>4 DEF Sorted, s

-----------------------------------------------------------------------------
\* Machines

\* A machine with its Go types, whose memory has the cells D.
Fit(g, D) ==
    /\ g \in [p : Processors, cells : [D -> Word], mapped : SUBSET Pages,
              coprocessors : Seq(Coprocessors)]
    /\ Good(g.p)

\* Every page of Pages has its words.
Covers(D) == \A a \in Word : a \div PageSize \in Pages => Cell(a) \in D

\* The machine whose pages are all there.
Full(g) == [g EXCEPT !.mapped = Pages]

\* h is what g becomes, and k what it becomes with all the pages.
Tracks(D, g, h, k) == Fit(h, D) /\ h.mapped = g.mapped /\ k = Full(h)

LEMMA SameMachine ==
    ASSUME NEW D, NEW g, Fit(g, D), NEW h, Fit(h, D),
           h.p = g.p, h.cells = g.cells, h.mapped = g.mapped,
           h.coprocessors = g.coprocessors
    PROVE  h = g
BY DEF Fit

LEMMA FullFits ==
    ASSUME NEW D, NEW g, Fit(g, D)
    PROVE  /\ Fit(Full(g), D)
           /\ Full(g).p = g.p /\ Full(g).cells = g.cells /\ Full(g).mapped = Pages
           /\ Full(g).coprocessors = g.coprocessors
           /\ Full(Full(g)) = Full(g)
BY DEF Fit, Full

LEMMA Remainders ==
    ASSUME NEW x \in Int
    PROVE  x % WordSpace \in Word /\ (x \in Word => x % WordSpace = x)
BY WordSpaceAssumption DEF Word

LEMMA WordsAreNumbers ==
    /\ Word \subseteq Nat /\ 0 \in Word /\ WordSpace \in Nat \ {0}
BY WordSpaceAssumption DEF Word

LEMMA WordIsNumber ==
    ASSUME NEW x \in Word
    PROVE  x \in Nat /\ x \in Int
BY WordSpaceAssumption DEF Word


\* Reg and Put: one register of the current bank.
LEMMA RegIsWord ==
    ASSUME NEW D, NEW g, Fit(g, D), NEW n \in 0 .. 15
    PROVE  /\ Reg(g, n) = g.p.regs[RegisterSlot(g.p.cpsr.mode, n)]
           /\ Reg(g, n) \in Word /\ Reg(g, n) \in Nat
           /\ Reg(Full(g), n) = Reg(g, n)
<1>1. g.p.cpsr.mode \in ValidModes /\ g.p.regs \in [Slots -> Word]
  BY DEF Fit, Good, Processors
<1>2. RegisterSlot(g.p.cpsr.mode, n) \in Slots
  BY <1>1, SlotExists
<1>3. GetRegister(g.p, n).value = g.p.regs[RegisterSlot(g.p.cpsr.mode, n)]
  BY <1>2 DEF GetRegister
<1>4. Reg(g, n) = g.p.regs[RegisterSlot(g.p.cpsr.mode, n)]
  BY <1>3 DEF Reg
<1>5. Full(g).p = g.p
  BY FullFits
<1>6. Reg(Full(g), n) = Reg(g, n)
  BY <1>5 DEF Reg
<1> QED BY <1>1, <1>2, <1>4, <1>6, WordsAreNumbers

\* What a read of a register depends on.
LEMMA SameRegisters ==
    ASSUME NEW D, NEW g, Fit(g, D), NEW h, Fit(h, D), NEW n \in 0 .. 15,
           h.p.regs = g.p.regs, h.p.cpsr.mode = g.p.cpsr.mode
    PROVE  Reg(h, n) = Reg(g, n)
<1>1. Reg(g, n) = g.p.regs[RegisterSlot(g.p.cpsr.mode, n)]
  BY RegIsWord
<1>2. Reg(h, n) = h.p.regs[RegisterSlot(h.p.cpsr.mode, n)]
  BY RegIsWord
<1> QED BY <1>1, <1>2

LEMMA PutKeepsFit ==
    ASSUME NEW D, NEW g, Fit(g, D), NEW n \in 0 .. 15, NEW x \in Int
    PROVE  /\ Fit(Put(g, n, x), D)
           /\ Put(g, n, x).mapped = g.mapped
           /\ Put(Full(g), n, x) = Full(Put(g, n, x))
<1> DEFINE q == SetRegister(g.p, n, x % WordSpace).p
           r == [g EXCEPT !.p = q]
<1>1. n \in Nat /\ x % WordSpace \in Word /\ Good(g.p)
  BY Remainders DEF Fit
<1>2. Good(q)
  BY <1>1, SetRegisterKeeps DEF Keeps
<1>3. Put(g, n, x) = r /\ Put(Full(g), n, x) = [Full(g) EXCEPT !.p = q]
  BY DEF Put, Full, Fit
<1> HIDE DEF q
<1>4. Fit(r, D) /\ r.mapped = g.mapped
  BY <1>2 DEF Fit, Good
<1>5. [Full(g) EXCEPT !.p = q] = Full(r)
  BY DEF Full, Fit
<1> HIDE DEF r
<1> QED BY <1>3, <1>4, <1>5

LEMMA PutTracks ==
    ASSUME NEW D, NEW g, Fit(g, D), NEW n \in 0 .. 15, NEW x \in Int
    PROVE  Tracks(D, g, Put(g, n, x), Put(Full(g), n, x))
BY PutKeepsFit DEF Tracks

\* The registers with x in register n.
Storing(q, n, x) == [q.regs EXCEPT ![RegisterSlot(q.cpsr.mode, n)] = x]

LEMMA PutStores ==
    ASSUME NEW D, NEW g, Fit(g, D), NEW n \in 0 .. 15, NEW x \in Int
    PROVE  /\ Put(g, n, x).p.cpsr = g.p.cpsr /\ Put(g, n, x).p.spsr = g.p.spsr
           /\ Put(g, n, x).p.regs = Storing(g.p, n, x % WordSpace)
           /\ Put(g, n, x).cells = g.cells
           /\ Put(g, n, x).coprocessors = g.coprocessors
<1> DEFINE q == SetRegister(g.p, n, x % WordSpace).p
           r == [g EXCEPT !.p = q]
<1>1. n \in Nat /\ x % WordSpace \in Word /\ Good(g.p)
  BY Remainders DEF Fit
<1>2. q.cpsr = g.p.cpsr /\ q.spsr = g.p.spsr
  BY <1>1, SetRegisterKeeps DEF Keeps
<1>3. q.regs = Storing(g.p, n, x % WordSpace)
  BY <1>1 DEF SetRegister, Done, Good, Processors, Storing
<1>4. Put(g, n, x) = r
  BY DEF Put
<1> HIDE DEF q
<1>5. r.p = q /\ r.cells = g.cells /\ r.coprocessors = g.coprocessors
  BY DEF Fit
<1> HIDE DEF r
<1> QED BY <1>2, <1>3, <1>4, <1>5


-----------------------------------------------------------------------------
\* Values in a word

LEMMA Multiples ==
    ASSUME NEW d \in Nat \ {0}, NEW x \in Int, NEW y \in Int, x < y
    PROVE  x * d + d <= y * d
<1>1. \A z \in Nat : z * d >= 0
  OBVIOUS
<1>2. (y - x - 1) * d >= 0
  BY <1>1
<1>3. (y - x - 1) * d = y * d - x * d - d
  OBVIOUS
<1> QED BY <1>2, <1>3

LEMMA Products ==
    ASSUME NEW x \in Nat \ {0}, NEW y \in Nat \ {0}
    PROVE  x * y \in Nat \ {0}
<1>1. 0 * y + y <= x * y
  BY Multiples
<1> QED BY <1>1

LEMMA Division ==
    ASSUME NEW a \in Nat, NEW d \in Nat \ {0}
    PROVE  \E q \in Nat, r \in 0 .. (d - 1) :
              q = a \div d /\ r = a % d /\ a = q * d + r
<1>1. PICK q \in Int, r \in 0 .. (d - 1) : q = a \div d /\ r = a % d
  OBVIOUS
<1>2. a = q * d + r
  BY <1>1
<1>3. ~(q < 0)
  BY <1>2, Multiples
<1>4. q \in Nat
  BY <1>3
<1> WITNESS q \in Nat, r \in 0 .. (d - 1)
<1> QED BY <1>1, <1>2

\* Replacing one digit of a number keeps it in its range.
LEMMA Digits ==
    ASSUME NEW L \in Nat \ {0}, NEW V \in Nat \ {0}, NEW R \in Nat \ {0},
           NEW x \in Nat, x < (R * V) * L, NEW y \in 0 .. (V - 1),
           NEW d, d = (x \div L) % V
    PROVE  /\ d \in 0 .. (V - 1)
           /\ x + (y - d) * L \in Nat
           /\ x + (y - d) * L < (R * V) * L
<1>1. PICK q \in Nat, r \in 0 .. (L - 1) : q = x \div L /\ x = q * L + r
  BY Division
<1>2. PICK h \in Nat, e \in 0 .. (V - 1) : e = q % V /\ q = h * V + e
  <2>1. q \in Nat
    BY <1>1
  <2> QED BY <2>1, Division
<1>3. d = e
  BY <1>1, <1>2
<1> DEFINE RV == R * V
           hV == h * V
<1>4. RV \in Nat /\ hV \in Nat
  OBVIOUS
<1>5. hV + V <= RV
  <2>1. q < RV
    <3>1. CASE RV < q
      <4>1. RV * L + L <= q * L
        BY <1>4, <3>1, Multiples
      <4> QED BY <1>1, <1>4, <4>1
    <3>2. CASE RV = q
      BY <1>1, <3>2
    <3> QED BY <1>4, <3>1, <3>2
  <2>2. ~(R < h)
    <3>1. ASSUME R < h PROVE RV + V <= hV
      BY <3>1, Multiples
    <3> QED BY <1>2, <1>4, <2>1, <3>1
  <2>3. R # h
    BY <1>2, <2>1
  <2>4. h < R
    BY <2>2, <2>3
  <2> QED BY <2>4, Multiples
<1> HIDE DEF RV, hV
<1>6. (hV + y) * L + L <= RV * L
  BY <1>4, <1>5, Multiples
<1>7. x + (y - d) * L = (hV + y) * L + r
  <2>1. x = (hV + d) * L + r
    BY <1>1, <1>2, <1>3 DEF hV
  <2>2. (hV + d) * L + (y - d) * L = (hV + y) * L
    BY <1>3, <1>4
  <2>3. (hV + d) * L \in Int /\ (y - d) * L \in Int /\ (hV + y) * L \in Int
    BY <1>3, <1>4
  <2> QED BY <2>1, <2>2, <2>3
<1>8. (hV + y) * L \in Nat
  BY <1>4
<1> QED BY <1>3, <1>6, <1>7, <1>8 DEF RV

LEMMA Bytes ==
    /\ ByteSpace \in Nat \ {0}
    /\ WordSpace = (ByteSpace * ByteSpace) * (ByteSpace * ByteSpace)
    /\ Values(0) = 1 /\ Values(1) = ByteSpace /\ Values(2) = ByteSpace * ByteSpace
    /\ Values(3) = ByteSpace * ByteSpace * ByteSpace /\ Values(4) = WordSpace
<1>1. ByteSpace \in Nat /\ WordSpace = (ByteSpace * ByteSpace) * (ByteSpace * ByteSpace)
  BY TransfersAssumption
<1>2. ByteSpace # 0
  BY <1>1, WordSpaceAssumption
<1> QED BY <1>1, <1>2 DEF Values

Widths == {1, 2, 4}

\* A value of one, two or four bytes is a digit of its word.
LEMMA LanesFit ==
    ASSUME NEW a \in Nat, NEW width \in Widths
    PROVE  /\ Lane(a, width) \in Nat \ {0}
           /\ Values(width) \in Nat \ {0}
           /\ \E R \in Nat \ {0} : (R * Values(width)) * Lane(a, width) = WordSpace
<1> DEFINE B == ByteSpace
<1>1. B \in Nat \ {0} /\ WordSpace = (B * B) * (B * B)
      /\ Values(0) = 1 /\ Values(1) = B /\ Values(2) = B * B
      /\ Values(3) = B * B * B /\ Values(4) = WordSpace
  BY Bytes
<1> HIDE DEF B
<1>2. B * B \in Nat \ {0}
  BY <1>1, Products
<1>3. (B * B) * B \in Nat \ {0} /\ WordSpace \in Nat \ {0}
  BY <1>1, <1>2, Products
<1>4. CASE width = 4
  <2>1. (a % 4) - (a % 4) = 0
    OBVIOUS
  <2>2. Lane(a, width) = 1 /\ Values(width) = WordSpace
    BY <1>1, <1>4, <2>1 DEF Lane
  <2>3. (1 * Values(width)) * Lane(a, width) = WordSpace
    BY <1>3, <2>2
  <2> QED BY <1>3, <2>2, <2>3
<1>5. CASE width = 2
  <2>1. (a % 4) - (a % 2) = 0 \/ (a % 4) - (a % 2) = 2
    OBVIOUS
  <2>2. Values(width) = B * B
    BY <1>1, <1>5
  <2>3. CASE (a % 4) - (a % 2) = 0
    <3>1. Lane(a, width) = 1
      BY <1>1, <1>5, <2>3 DEF Lane
    <3>2. ((B * B) * Values(width)) * Lane(a, width) = WordSpace
      BY <1>1, <1>3, <2>2, <3>1
    <3> QED BY <1>2, <2>2, <3>1, <3>2
  <2>4. CASE (a % 4) - (a % 2) = 2
    <3>1. Lane(a, width) = B * B
      BY <1>1, <1>5, <2>4 DEF Lane
    <3>2. (1 * Values(width)) * Lane(a, width) = WordSpace
      BY <1>1, <1>2, <2>2, <3>1
    <3> QED BY <1>2, <2>2, <3>1, <3>2
  <2> QED BY <2>1, <2>3, <2>4
<1>6. CASE width = 1
  <2>1. (a % 4) - (a % 1) \in {0, 1, 2, 3}
    OBVIOUS
  <2>2. Values(width) = B
    BY <1>1, <1>6
  <2>3. CASE (a % 4) - (a % 1) = 0
    <3>1. Lane(a, width) = 1
      BY <1>1, <1>6, <2>3 DEF Lane
    <3>2. (((B * B) * B) * Values(width)) * Lane(a, width) = WordSpace
      BY <1>1, <2>2, <3>1
    <3> QED BY <1>1, <1>3, <2>2, <3>1, <3>2
  <2>4. CASE (a % 4) - (a % 1) = 1
    <3>1. Lane(a, width) = B
      BY <1>1, <1>6, <2>4 DEF Lane
    <3>2. ((B * B) * Values(width)) * Lane(a, width) = WordSpace
      BY <1>1, <2>2, <3>1
    <3> QED BY <1>1, <1>2, <2>2, <3>1, <3>2
  <2>5. CASE (a % 4) - (a % 1) = 2
    <3>1. Lane(a, width) = B * B
      BY <1>1, <1>6, <2>5 DEF Lane
    <3>2. (B * Values(width)) * Lane(a, width) = WordSpace
      BY <1>1, <2>2, <3>1
    <3> QED BY <1>1, <1>2, <2>2, <3>1, <3>2
  <2>6. CASE (a % 4) - (a % 1) = 3
    <3>1. Lane(a, width) = (B * B) * B
      BY <1>1, <1>6, <2>6 DEF Lane
    <3>2. (1 * Values(width)) * Lane(a, width) = WordSpace
      BY <1>1, <2>2, <3>1
    <3> QED BY <1>1, <1>3, <2>2, <3>1, <3>2
  <2> QED BY <2>1, <2>3, <2>4, <2>5, <2>6
<1> QED BY <1>4, <1>5, <1>6 DEF Widths

\* ReadMemory: a value of its width, which the cells alone decide.
LEMMA ReadFits ==
    ASSUME NEW D, NEW g, Fit(g, D), NEW a \in Word, Cell(a) \in D,
           NEW width \in Widths
    PROVE  /\ ReadMemory(g, a, width) \in 0 .. (Values(width) - 1)
           /\ ReadMemory(g, a, width) \in Nat
           /\ ReadMemory(Full(g), a, width) = ReadMemory(g, a, width)
<1>1. g.cells[Cell(a)] \in Nat
  BY WordsAreNumbers DEF Fit
<1>2. a \in Nat
  BY WordsAreNumbers
<1>3. Lane(a, width) \in Nat \ {0} /\ Values(width) \in Nat \ {0}
  BY <1>2, LanesFit
<1>4. PICK q \in Nat : q = g.cells[Cell(a)] \div Lane(a, width)
  BY <1>1, <1>3, Division
<1>5. q % Values(width) \in 0 .. (Values(width) - 1)
  BY <1>3
<1>6. Full(g).cells = g.cells
  BY FullFits
<1>7. ReadMemory(Full(g), a, width) = ReadMemory(g, a, width)
  BY <1>6 DEF ReadMemory
<1> QED BY <1>3, <1>4, <1>5, <1>7 DEF ReadMemory

\* WriteMemory changes one cell, and leaves a word in it.
LEMMA WriteReplaces ==
    ASSUME NEW g, NEW a, NEW width, NEW x
    PROVE  WriteMemory(g, a, width, x) =
             [g EXCEPT !.cells = [g.cells EXCEPT ![Cell(a)] = g.cells[Cell(a)]
                + ((x % Values(width)) - ReadMemory(g, a, width)) * Lane(a, width)]]
<1> DEFINE k == ((x % Values(width)) - ReadMemory(g, a, width)) * Lane(a, width)
<1>1. WriteMemory(g, a, width, x) = [g EXCEPT !.cells[Cell(a)] = @ + k]
  BY DEF WriteMemory
<1> HIDE DEF k
<1>2. [g EXCEPT !.cells[Cell(a)] = @ + k]
        = [g EXCEPT !.cells = [g.cells EXCEPT ![Cell(a)] = g.cells[Cell(a)] + k]]
  OBVIOUS
<1> QED BY <1>1, <1>2 DEF k

LEMMA WriteKeepsFit ==
    ASSUME NEW D, NEW g, Fit(g, D), NEW a \in Word, Cell(a) \in D,
           NEW width \in Widths, NEW x \in Int
    PROVE  /\ Fit(WriteMemory(g, a, width, x), D)
           /\ WriteMemory(g, a, width, x).mapped = g.mapped
           /\ WriteMemory(Full(g), a, width, x) = Full(WriteMemory(g, a, width, x))
<1> SUFFICES ASSUME NEW r, r = WriteMemory(g, a, width, x)
             PROVE  /\ Fit(r, D) /\ r.mapped = g.mapped
                    /\ WriteMemory(Full(g), a, width, x) = Full(r)
  OBVIOUS
<1> DEFINE change == (x % Values(width)) - ReadMemory(g, a, width)
           w == g.cells[Cell(a)] + change * Lane(a, width)
           c == [g.cells EXCEPT ![Cell(a)] = w]
<1>1. w \in Word
  <2>1. g.cells[Cell(a)] \in Nat /\ g.cells[Cell(a)] < WordSpace
    BY WordsAreNumbers DEF Fit, Word
  <2>2. a \in Nat
    BY WordsAreNumbers
  <2>3. Lane(a, width) \in Nat \ {0} /\ Values(width) \in Nat \ {0}
    BY <2>2, LanesFit
  <2>4. PICK R \in Nat \ {0} : (R * Values(width)) * Lane(a, width) = WordSpace
    BY <2>2, LanesFit
  <2>5. x % Values(width) \in 0 .. (Values(width) - 1)
    BY <2>3
  <2>6. ReadMemory(g, a, width) = (g.cells[Cell(a)] \div Lane(a, width)) % Values(width)
    BY DEF ReadMemory
  <2>7. w \in Nat /\ w < WordSpace
    BY <2>1, <2>3, <2>4, <2>5, <2>6, Digits
  <2> QED BY <2>7, WordsAreNumbers DEF Word
<1>2. ReadMemory(Full(g), a, width) = ReadMemory(g, a, width)
  BY FullFits DEF ReadMemory
<1>3. r = [g EXCEPT !.cells = c]
  BY WriteReplaces
<1>4. WriteMemory(Full(g), a, width, x) = [Full(g) EXCEPT !.cells = c]
  <2>1. Full(g).cells = g.cells
    BY FullFits
  <2> QED BY <1>2, <2>1, FullFits, WriteReplaces
<1> HIDE DEF w
<1>5. c \in [D -> Word]
  BY <1>1 DEF Fit
<1> HIDE DEF c
<1>6. Fit(r, D) /\ r.p = g.p /\ r.mapped = g.mapped /\ r.coprocessors = g.coprocessors
  BY <1>3, <1>5 DEF Fit
<1>7. [Full(g) EXCEPT !.cells = c] = Full([g EXCEPT !.cells = c])
  BY DEF Full, Fit
<1> QED BY <1>3, <1>4, <1>6, <1>7


-----------------------------------------------------------------------------
\* Flags, coprocessors, fetches

\* A machine with another processor.
LEMMA OtherProcessor ==
    ASSUME NEW D, NEW g, Fit(g, D), NEW q, Good(q), NEW r, r = [g EXCEPT !.p = q]
    PROVE  /\ Fit(r, D)
           /\ r.p = q /\ r.cells = g.cells /\ r.mapped = g.mapped
           /\ r.coprocessors = g.coprocessors
           /\ [Full(g) EXCEPT !.p = q] = Full(r)
BY DEF Fit, Full, Good

\* A machine with another carry.
SetCarry(g, b) == [g EXCEPT !.p = SetFlag(@, "c", b).p]

LEMMA WithCarry ==
    ASSUME NEW D, NEW g, Fit(g, D), NEW b \in BOOLEAN
    PROVE  /\ Fit(SetCarry(g, b), D)
           /\ SetCarry(g, b).mapped = g.mapped /\ SetCarry(g, b).cells = g.cells
           /\ SetCarry(g, b).p.regs = g.p.regs
           /\ SetCarry(g, b).p.cpsr.mode = g.p.cpsr.mode
           /\ SetCarry(g, b).p.cpsr.thumb = g.p.cpsr.thumb
           /\ SetCarry(g, b).p.cpsr.c = b
           /\ SetCarry(Full(g), b) = Full(SetCarry(g, b))
           /\ SetCarry(SetCarry(g, b), b) = SetCarry(g, b)
<1> DEFINE status == [g.p.cpsr EXCEPT !.c = b]
           q == [g.p EXCEPT !.cpsr = status]
           r == [g EXCEPT !.p = q]
<1>1. Good(g.p) /\ Full(g).p = g.p
  BY FullFits DEF Fit
<1>2. /\ status \in Status /\ status.mode = g.p.cpsr.mode
      /\ status.thumb = g.p.cpsr.thumb /\ status.c = b
      /\ [status EXCEPT !.c = b] = status
  BY <1>1 DEF Good, Processors, Status
<1>3. \A x : SetFlag(x, "c", b).p = [x EXCEPT !.cpsr = [x.cpsr EXCEPT !.c = b]]
  BY DEF SetFlag, Done
<1>4. /\ SetCarry(g, b) = r
      /\ SetCarry(Full(g), b) = [Full(g) EXCEPT !.p = q]
  BY <1>1, <1>3 DEF SetCarry
<1>5. SetCarry(r, b) = [r EXCEPT !.p = [r.p EXCEPT !.cpsr = [r.p.cpsr EXCEPT !.c = b]]]
  BY <1>3 DEF SetCarry
<1> HIDE DEF status
<1>6. /\ Good(q) /\ q.regs = g.p.regs /\ q.cpsr = status
      /\ [q EXCEPT !.cpsr = status] = q
  BY <1>1, <1>2, ReplaceCPSR DEF Good, Processors
<1> HIDE DEF q
<1>7. Fit(r, D) /\ r.p = q /\ r.cells = g.cells /\ r.mapped = g.mapped
      /\ [Full(g) EXCEPT !.p = q] = Full(r) /\ [r EXCEPT !.p = q] = r
  BY <1>6 DEF Fit, Full, Good
<1> HIDE DEF r
<1>8. SetCarry(r, b) = r
  BY <1>2, <1>5, <1>6, <1>7
<1> QED BY <1>2, <1>4, <1>6, <1>7, <1>8

LEMMA SignsKeepFit ==
    ASSUME NEW D, NEW g, Fit(g, D), NEW t, NEW negative \in BOOLEAN, NEW zero \in BOOLEAN
    PROVE  /\ Fit(WithSigns(g, t, negative, zero), D)
           /\ WithSigns(g, t, negative, zero).mapped = g.mapped
           /\ WithSigns(Full(g), t, negative, zero) = Full(WithSigns(g, t, negative, zero))
<1> SUFFICES ASSUME NEW r, r = WithSigns(g, t, negative, zero)
             PROVE  /\ Fit(r, D) /\ r.mapped = g.mapped
                    /\ WithSigns(Full(g), t, negative, zero) = Full(r)
  OBVIOUS
<1> DEFINE status == [g.p.cpsr EXCEPT !.n = negative, !.z = zero]
           q == [g.p EXCEPT !.cpsr = status]
<1>1. Good(g.p) /\ Full(g).p = g.p
  BY FullFits DEF Fit
<1>2. status \in Status /\ status.mode \in ValidModes
  BY <1>1 DEF Good, Processors, Status
<1>3. Good(q)
  <2> HIDE DEF status
  <2> QED BY <1>1, <1>2, ReplaceCPSR
<1>4. [g EXCEPT !.p.cpsr = [@ EXCEPT !.n = negative, !.z = zero]] = [g EXCEPT !.p = q]
  BY DEF Fit, Good, Processors
<1>5. [Full(g) EXCEPT !.p.cpsr = [@ EXCEPT !.n = negative, !.z = zero]]
        = [Full(g) EXCEPT !.p = q]
  BY <1>1 DEF Full, Fit, Good, Processors
<1> HIDE DEF q
<1>6. CASE ~t.s
  BY <1>6 DEF WithSigns
<1>7. CASE t.s
  <2>1. r = [g EXCEPT !.p = q] /\ WithSigns(Full(g), t, negative, zero) = [Full(g) EXCEPT !.p = q]
    BY <1>4, <1>5, <1>7 DEF WithSigns
  <2> QED BY <1>3, <2>1, OtherProcessor
<1> QED BY <1>6, <1>7


LEMMA HoldingKeepsFit ==
    ASSUME NEW D, NEW g, Fit(g, D), NEW k \in DOMAIN g.coprocessors, NEW x \in Int
    PROVE  /\ Fit(Holding(g, k, x), D) /\ Holding(g, k, x).mapped = g.mapped
           /\ Holding(Full(g), k, x) = Full(Holding(g, k, x))
<1> SUFFICES ASSUME NEW r, r = Holding(g, k, x)
             PROVE  /\ Fit(r, D) /\ r.mapped = g.mapped
                    /\ Holding(Full(g), k, x) = Full(r)
  OBVIOUS
<1> DEFINE c == [g.coprocessors EXCEPT ![k].register = x % WordSpace]
<1>1. x % WordSpace \in Word
  BY Remainders
<1>2. c \in Seq(Coprocessors)
  <2>1. g.coprocessors \in Seq(Coprocessors)
    BY DEF Fit
  <2>2. PICK n \in Nat : g.coprocessors \in [1 .. n -> Coprocessors]
    BY <2>1
  <2>3. [g.coprocessors[k] EXCEPT !.register = x % WordSpace] \in Coprocessors
    BY <1>1, <2>2 DEF Coprocessors
  <2>4. c \in [1 .. n -> Coprocessors]
    BY <2>2, <2>3
  <2> HIDE DEF c
  <2> QED BY <2>4, SeqDef
<1>3. r = [g EXCEPT !.coprocessors = c]
  BY DEF Holding
<1>4. Holding(Full(g), k, x) = [Full(g) EXCEPT !.coprocessors = c]
  BY FullFits DEF Holding
<1> HIDE DEF c
<1>5. Fit(r, D) /\ r.mapped = g.mapped
  BY <1>2, <1>3 DEF Fit
<1>6. [Full(g) EXCEPT !.coprocessors = c] = Full([g EXCEPT !.coprocessors = c])
  BY DEF Full, Fit
<1> QED BY <1>3, <1>4, <1>5, <1>6


LEMMA CalledExists ==
    ASSUME NEW D, NEW g, Fit(g, D), NEW number, NEW k, k = Called(g, number)
    PROVE  /\ k = 0 \/ k \in DOMAIN g.coprocessors
           /\ k \in DOMAIN g.coprocessors => g.coprocessors[k].register \in Word
           /\ Called(Full(g), number) = k
<1> DEFINE matching == {i \in DOMAIN g.coprocessors : g.coprocessors[i].number = number}
<1>1. PICK n \in Nat : g.coprocessors \in [1 .. n -> Coprocessors]
  BY DEF Fit
<1>2. matching \subseteq Nat
  BY <1>1
<1>3. matching # {} => Min(matching) \in matching
  <2> HIDE DEF matching
  <2> QED BY <1>2, MinIsElement
<1>4. k = IF matching = {} THEN 0 ELSE Min(matching)
  BY DEF Called
<1>5. k = 0 \/ k \in DOMAIN g.coprocessors
  BY <1>3, <1>4
<1>6. Called(Full(g), number) = k
  BY FullFits DEF Called
<1> QED BY <1>1, <1>5, <1>6 DEF Coprocessors

-----------------------------------------------------------------------------
\* The shifted offset of a load or store

\* The provers know of 2^n that it counts the subsets of n things.
LEMMA PowersArePositive ==
    ASSUME NEW n \in Nat
    PROVE  2^n \in Nat \ {0}
<1> DEFINE S == 1 .. n
<1>1. IsFiniteSet(S) /\ Cardinality(S) = n
  <2>1. IsFiniteSet(1 .. n) /\ Cardinality(1 .. n) = IF 1 > n THEN 0 ELSE n - 1 + 1
    BY FS_Interval
  <2> QED BY <2>1
<1> HIDE DEF S
<1>2. IsFiniteSet(SUBSET S) /\ Cardinality(SUBSET S) = 2^n
  BY <1>1, FS_SUBSET
<1>3. Cardinality(SUBSET S) \in Nat
  BY <1>2, FS_CardinalityType
<1>4. SUBSET S # {}
  OBVIOUS
<1>5. Cardinality(SUBSET S) # 0
  BY <1>2, <1>4, FS_EmptySet
<1> QED BY <1>2, <1>3, <1>5

LEMMA ShiftsAreNumbers ==
    ASSUME NEW a \in Int, NEW n \in Nat
    PROVE  /\ Barrel!ShiftLeft(a, n) \in Int
           /\ Barrel!ShiftRight(a, n) \in Int
           /\ Barrel!ShiftRightArith(a, n) \in Int
           /\ Barrel!WordValues \in Nat \ {0} /\ WordSpace \div 2 \in Nat
<1>1. WordSpace \div 2 \in Nat \ {0}
  BY WordSpaceAssumption
<1>2. Barrel!WordValues \in Nat \ {0}
  BY <1>1 DEF Barrel!WordValues
<1>3. PICK k \in Nat \ {0} : k = 2^n
  BY PowersArePositive
<1>4. Barrel!ShiftLeft(a, n) \in Int
  BY <1>2, <1>3 DEF Barrel!ShiftLeft
<1>5. Barrel!ShiftRight(a, n) \in Int
  BY <1>3 DEF Barrel!ShiftRight
<1>6. Barrel!Signed(a) \in Int
  BY <1>2 DEF Barrel!Signed
<1>7. Barrel!ShiftRightArith(a, n) \in Int
  BY <1>2, <1>3, <1>6 DEF Barrel!ShiftRightArith
<1> QED BY <1>1, <1>2, <1>4, <1>5, <1>7

ByImmediate(shift, a, n, c) == Barrel!ShiftBy(shift, a, n, FALSE, c)

\* A shift yields a number and a flag.  But for the extended rotation neither
\* the number depends on the carry, nor a second shift changes the flag again.
LEMMA Shifts ==
    ASSUME NEW shift \in Barrel!ShiftTypes, NEW a \in Nat, NEW n \in Nat,
           NEW c, c \in BOOLEAN, NEW r, r = ByImmediate(shift, a, n, c)
    PROVE  /\ r.value \in Int /\ r.carry \in BOOLEAN
           /\ ~(shift = "ror" /\ n = 0) => ByImmediate(shift, a, n, r.carry) = r
<1>0. WordBits \in Nat \ {0} /\ Barrel!WordValues \in Nat \ {0} /\ WordSpace \div 2 \in Nat
  BY TransfersAssumption, ShiftsAreNumbers
<1>1. \A k \in Nat : /\ Barrel!ShiftLeft(a, k) \in Int
                     /\ Barrel!ShiftRight(a, k) \in Int
                     /\ Barrel!ShiftRightArith(a, k) \in Int
  <2>1. a \in Int
    OBVIOUS
  <2>2. ASSUME NEW k \in Nat
        PROVE  /\ Barrel!ShiftLeft(a, k) \in Int
               /\ Barrel!ShiftRight(a, k) \in Int
               /\ Barrel!ShiftRightArith(a, k) \in Int
    BY <2>1, ShiftsAreNumbers
  <2> QED BY <2>2
<1>2. \A x, k : Barrel!Bit(x, k) \in BOOLEAN
  BY DEF Barrel!Bit
<1>3. Barrel!Sign(a) \in BOOLEAN
  BY DEF Barrel!Sign
<1>4. CASE shift = "lsl"
  <2> DEFINE b == Barrel!Bit(a, WordBits - n)
  <2>1. r = Barrel!applyLSL(a, n, c)
        /\ ByImmediate(shift, a, n, r.carry) = Barrel!applyLSL(a, n, r.carry)
    BY <1>4 DEF Barrel!ShiftBy, ByImmediate
  <2>2. b \in BOOLEAN /\ Barrel!ShiftLeft(a, n) \in Int
    BY <1>1, <1>2
  <2>3. CASE n \in 1 .. WordBits
    <3>1. r = [value |-> Barrel!ShiftLeft(a, n), carry |-> b]
          /\ Barrel!applyLSL(a, n, r.carry) = [value |-> Barrel!ShiftLeft(a, n), carry |-> b]
      BY <2>1, <2>3 DEF Barrel!applyLSL
    <3> HIDE DEF b
    <3> QED BY <2>1, <2>2, <3>1
  <2>4. CASE n \notin 1 .. WordBits
    <3>1. r = [value |-> Barrel!ShiftLeft(a, n), carry |-> c]
      BY <2>1, <2>4 DEF Barrel!applyLSL
    <3>2. Barrel!applyLSL(a, n, r.carry) = [value |-> Barrel!ShiftLeft(a, n), carry |-> r.carry]
      BY <2>4 DEF Barrel!applyLSL
    <3>3. r.carry = c /\ r.value = Barrel!ShiftLeft(a, n)
      BY <3>1
    <3> QED BY <2>1, <2>2, <3>1, <3>2, <3>3
  <2> QED BY <2>3, <2>4
<1>5. CASE shift = "lsr"
  <2> DEFINE places == IF n = 0 THEN WordBits ELSE n
  <2>1. /\ r = Barrel!applyLSR(a, n, FALSE, c)
        /\ ByImmediate(shift, a, n, r.carry) = Barrel!applyLSR(a, n, FALSE, r.carry)
    BY <1>5 DEF Barrel!ShiftBy, ByImmediate
  <2>2. \A d : Barrel!applyLSR(a, n, FALSE, d)
                 = [value |-> Barrel!ShiftRight(a, places), carry |-> Barrel!Bit(a, places - 1)]
    BY DEF Barrel!applyLSR
  <2>3. places \in Nat
    BY <1>0
  <2>4. Barrel!ShiftRight(a, places) \in Int /\ Barrel!Bit(a, places - 1) \in BOOLEAN
    <3> HIDE DEF places
    <3> QED BY <1>1, <1>2, <2>3
  <2> HIDE DEF places
  <2>5. r = [value |-> Barrel!ShiftRight(a, places), carry |-> Barrel!Bit(a, places - 1)]
        /\ ByImmediate(shift, a, n, r.carry) = r
    BY <2>1, <2>2
  <2> QED BY <2>4, <2>5
<1>6. CASE shift = "asr"
  <2>1. /\ r = Barrel!applyASR(a, n, FALSE, c)
        /\ ByImmediate(shift, a, n, r.carry) = Barrel!applyASR(a, n, FALSE, r.carry)
    BY <1>6 DEF Barrel!ShiftBy, ByImmediate
  <2>2. CASE n \in 1 .. (WordBits - 1)
    <3>1. \A d : Barrel!applyASR(a, n, FALSE, d)
                 = [value |-> Barrel!ShiftRightArith(a, n), carry |-> Barrel!Bit(a, n - 1)]
      BY <2>2 DEF Barrel!applyASR
    <3>2. r = [value |-> Barrel!ShiftRightArith(a, n), carry |-> Barrel!Bit(a, n - 1)]
        /\ ByImmediate(shift, a, n, r.carry) = r
      BY <2>1, <3>1
    <3> QED BY <1>1, <1>2, <3>2
  <2>3. CASE n \notin 1 .. (WordBits - 1)
    <3> DEFINE x == IF Barrel!Sign(a) THEN Barrel!AllOnes ELSE 0
    <3>1. \A d : Barrel!applyASR(a, n, FALSE, d) = [value |-> x, carry |-> Barrel!Sign(a)]
      BY <2>3 DEF Barrel!applyASR
    <3>2. x \in Int
      BY <1>0 DEF Barrel!AllOnes
    <3> HIDE DEF x
    <3>3. r = [value |-> x, carry |-> Barrel!Sign(a)]
        /\ ByImmediate(shift, a, n, r.carry) = r
      BY <2>1, <3>1
    <3> QED BY <1>3, <3>2, <3>3
  <2> QED BY <2>2, <2>3
<1>7. CASE shift = "ror"
  <2>1. \A d : ByImmediate(shift, a, n, d) = Barrel!applyROR(a, n, FALSE, d)
    BY <1>7 DEF Barrel!ShiftBy, ByImmediate
  <2>2. CASE n = 0
    <3> DEFINE x == Barrel!ShiftRight(a, 1) + (IF c THEN WordSpace \div 2 ELSE 0)
    <3>1. r = [value |-> x, carry |-> Barrel!Bit(a, 0)]
      BY <2>1, <2>2 DEF Barrel!applyROR, Barrel!RotateWithExtend
    <3>2. x \in Int
      <4>1. Barrel!ShiftRight(a, 1) \in Int
        BY <1>1
      <4> QED BY <1>0, <4>1
    <3> HIDE DEF x
    <3>3. r.value \in Int /\ r.carry \in BOOLEAN
      BY <1>2, <3>1, <3>2
    <3> QED BY <1>7, <2>2, <3>3
  <2>3. CASE n # 0
    <3> DEFINE places == Barrel!Reduced(n)
               x == Barrel!ShiftLeft(a, WordBits - places) + Barrel!ShiftRight(a, places)
    <3>1. places \in 1 .. WordBits
      BY <1>0, <2>3 DEF Barrel!Reduced
    <3>2. \A d : Barrel!applyROR(a, n, FALSE, d) = [value |-> x, carry |-> Barrel!Sign(x)]
      BY <2>3 DEF Barrel!applyROR
    <3>3. x \in Int /\ Barrel!Sign(x) \in BOOLEAN
      <4> HIDE DEF places
      <4>1. WordBits - places \in Nat /\ places \in Nat
        BY <1>0, <3>1
      <4>2. Barrel!ShiftLeft(a, WordBits - places) \in Int /\ Barrel!ShiftRight(a, places) \in Int
        BY <1>1, <4>1
      <4> QED BY <4>2 DEF Barrel!Sign
    <3> HIDE DEF x
    <3>4. \A d : ByImmediate(shift, a, n, d) = [value |-> x, carry |-> Barrel!Sign(x)]
      BY <2>1, <3>2
    <3>5. r = [value |-> x, carry |-> Barrel!Sign(x)] /\ ByImmediate(shift, a, n, r.carry) = r
      BY <3>4
    <3> QED BY <3>3, <3>5
  <2> QED BY <2>2, <2>3
<1> QED BY <1>4, <1>5, <1>6, <1>7 DEF Barrel!ShiftTypes

\* The same with names for what a prover would open.
Carries == BOOLEAN

Extended(shift, n) == shift = "ror" /\ n = 0

LEMMA SecondShift ==
    ASSUME NEW shift \in Barrel!ShiftTypes, NEW a \in Nat, NEW n \in Nat,
           NEW c \in Carries, ~Extended(shift, n)
    PROVE  ByImmediate(shift, a, n, ByImmediate(shift, a, n, c).carry)
             = ByImmediate(shift, a, n, c)
<1>1. ~(shift = "ror" /\ n = 0) /\ c \in BOOLEAN
  BY DEF Extended, Carries
<1>2. ASSUME NEW r, r = ByImmediate(shift, a, n, c)
      PROVE  ByImmediate(shift, a, n, r.carry) = r
  BY <1>1, <1>2, Shifts
<1> QED BY <1>2

-----------------------------------------------------------------------------
\* Instructions with and without the pages

\* r, which a machine g with some of the pages does, is what f does with all of
\* them, unless r fails.
Follows(D, g, r, f) ==
    /\ Fit(r.m, D) /\ r.m.mapped = g.mapped /\ r.ok \in BOOLEAN
    /\ r.ok => f = Complete(Full(r.m))

\* Besides, where only pages are missing nothing has been done.
AllOrNothing(D, g, r, f) ==
    /\ Follows(D, g, r, f)
    /\ ~r.ok /\ f.ok => r.m = g

LEMMA AddressIsMapped ==
    ASSUME NEW D, NEW g, Fit(g, D), Covers(D), NEW a \in Word, Mapped(g, a)
    PROVE  Cell(a) \in D /\ Mapped(Full(g), a)
<1>1. a \div PageSize \in Pages
  BY DEF Mapped, Fit
<1>2. Mapped(Full(g), a)
  BY <1>1, FullFits DEF Mapped
<1> QED BY <1>1, <1>2 DEF Covers

LEMMA Completed ==
    ASSUME NEW D, NEW g, NEW h, Fit(h, D), h.mapped = g.mapped,
           NEW r, r = Complete(h), NEW f, f = Complete(Full(h))
    PROVE  AllOrNothing(D, g, r, f)
BY DEF AllOrNothing, Follows, Complete

LEMMA Stopped ==
    ASSUME NEW D, NEW g, Fit(g, D), NEW r, r = Stop(g), NEW f
    PROVE  AllOrNothing(D, g, r, f)
BY DEF AllOrNothing, Follows, Stop

LEMMA Guarded ==
    ASSUME NEW D, NEW g, Fit(g, D), NEW a,
           NEW x, NEW y, Mapped(g, a) => AllOrNothing(D, g, x, y),
           Mapped(g, a) => Mapped(Full(g), a),
           NEW r, r = IF ~Mapped(g, a) THEN Stop(g) ELSE x,
           NEW f, f = IF ~Mapped(Full(g), a) THEN Stop(Full(g)) ELSE y
    PROVE  AllOrNothing(D, g, r, f)
<1>1. CASE Mapped(g, a)
  BY <1>1
<1>2. CASE ~Mapped(g, a)
  BY <1>2, Stopped
<1> QED BY <1>1, <1>2

LEMMA ContinuedIf ==
    ASSUME NEW D, NEW g, Fit(g, D), NEW x, NEW y, AllOrNothing(D, g, x, y),
           NEW b, NEW h, NEW k,
           x.ok /\ b => Fit(h, D) /\ h.mapped = g.mapped /\ k = Full(h),
           NEW r, r = IF x.ok /\ b THEN Complete(h) ELSE x,
           NEW f, f = IF y.ok /\ b THEN Complete(k) ELSE y
    PROVE  AllOrNothing(D, g, r, f)
<1>1. CASE x.ok /\ b
  <2>1. y.ok
    BY <1>1 DEF AllOrNothing, Follows, Complete
  <2>2. r = Complete(h) /\ f = Complete(Full(h))
    BY <1>1, <2>1
  <2> QED BY <1>1, <2>2, Completed
<1>2. CASE ~(x.ok /\ b)
  <2>1. r = x
    BY <1>2
  <2>2. CASE y.ok /\ b
    BY <1>2, <2>1, <2>2 DEF AllOrNothing, Follows
  <2>3. CASE ~(y.ok /\ b)
    BY <2>1, <2>3
  <2> QED BY <2>2, <2>3
<1> QED BY <1>1, <1>2

LEMMA DisplacedIsWord ==
    ASSUME NEW base \in Int, NEW offset \in Int, NEW up
    PROVE  Displaced(base, up, offset) \in Word
<1>1. CASE up
  BY <1>1, Remainders DEF Displaced
<1>2. CASE ~up
  BY <1>2, Remainders DEF Displaced
<1> QED BY <1>1, <1>2

\* One value moved.
LEMMA TransferAgrees ==
    ASSUME NEW D, NEW g, Fit(g, D), Covers(D), NEW load, NEW rd \in 0 .. 15,
           NEW a \in Word, NEW width \in Widths,
           NEW r, r = Transfer(g, load, rd, a, width),
           NEW f, f = Transfer(Full(g), load, rd, a, width)
    PROVE  AllOrNothing(D, g, r, f)
<1> DEFINE read == ReadMemory(g, a, width)
           h == IF load THEN Put(g, rd, read) ELSE WriteMemory(g, a, width, Reg(g, rd))
           k == IF load THEN Put(Full(g), rd, ReadMemory(Full(g), a, width))
                ELSE WriteMemory(Full(g), a, width, Reg(Full(g), rd))
<1>1. Mapped(g, a) => Cell(a) \in D /\ Mapped(Full(g), a)
  BY AddressIsMapped
<1>2. r = IF ~Mapped(g, a) THEN Stop(g) ELSE Complete(h)
  BY DEF Transfer
<1>3. f = IF ~Mapped(Full(g), a) THEN Stop(Full(g)) ELSE Complete(k)
  BY DEF Transfer
<1>4. ASSUME Cell(a) \in D
      PROVE  Fit(h, D) /\ h.mapped = g.mapped /\ k = Full(h)
  <2>1. CASE load
    <3>1. ReadMemory(Full(g), a, width) = read
      BY <1>4, ReadFits
    <3>2. h = Put(g, rd, read) /\ k = Put(Full(g), rd, read)
      BY <2>1, <3>1
    <3>3. read \in Int
      BY <1>4, ReadFits
    <3> HIDE DEF read, h, k
    <3>4. Tracks(D, g, h, k)
      BY <3>2, <3>3, PutTracks
    <3> QED BY <3>4 DEF Tracks
  <2>2. CASE ~load
    <3>1. Reg(g, rd) \in Int
      BY RegIsWord
    <3>2. h = WriteMemory(g, a, width, Reg(g, rd))
          /\ k = WriteMemory(Full(g), a, width, Reg(g, rd))
      BY <2>2, RegIsWord
    <3> HIDE DEF h, k
    <3> QED BY <1>4, <3>1, <3>2, WriteKeepsFit
  <2> QED BY <2>1, <2>2
<1> HIDE DEF h, k
<1>5. Mapped(g, a) => AllOrNothing(D, g, Complete(h), Complete(k))
  BY <1>1, <1>4, Completed
<1> QED BY <1>1, <1>2, <1>3, <1>5, Guarded

-----------------------------------------------------------------------------
\* Format by format

\* The base register as an operand of an ARM load or store.
LEMMA BaseIsWord ==
    ASSUME NEW D, NEW g, Fit(g, D), NEW n \in 0 .. 15, NEW b,
           b = (Reg(g, n) + (IF n = 15 THEN 4 ELSE 0)) % WordSpace
    PROVE  b \in Word
<1>1. Reg(g, n) \in Nat
  BY RegIsWord
<1>2. Reg(g, n) + (IF n = 15 THEN 4 ELSE 0) \in Int
  BY <1>1
<1> QED BY <1>2, Remainders

\* A load of y or a store of x, at a mapped address.
MoveOne(g, load, rd, a, width, x, y) ==
    IF load THEN Put(g, rd, y) ELSE WriteMemory(g, a, width, x)

LEMMA Moved ==
    ASSUME NEW D, NEW g, Fit(g, D), NEW a \in Word, Cell(a) \in D,
           NEW load, NEW rd \in 0 .. 15, NEW x \in Int, NEW y \in Int,
           NEW width \in Widths
    PROVE  Tracks(D, g, MoveOne(g, load, rd, a, width, x, y),
                  MoveOne(Full(g), load, rd, a, width, x, y))
<1>1. CASE load
  <2>1. \A m : MoveOne(m, load, rd, a, width, x, y) = Put(m, rd, y)
    BY <1>1 DEF MoveOne
  <2>2. Tracks(D, g, Put(g, rd, y), Put(Full(g), rd, y))
    BY PutTracks
  <2> QED BY <2>1, <2>2
<1>2. CASE ~load
  <2>1. \A m : MoveOne(m, load, rd, a, width, x, y) = WriteMemory(m, a, width, x)
    BY <1>2 DEF MoveOne
  <2>2. /\ Fit(WriteMemory(g, a, width, x), D)
        /\ WriteMemory(g, a, width, x).mapped = g.mapped
        /\ WriteMemory(Full(g), a, width, x) = Full(WriteMemory(g, a, width, x))
    BY WriteKeepsFit
  <2> QED BY <2>1, <2>2 DEF Tracks
<1> QED BY <1>1, <1>2

LEMMA SignExtensionIsNumber ==
    ASSUME NEW x \in Int, NEW width \in Widths
    PROVE  SignExtended(x, width) \in Int
<1>1. Values(width) \in Nat
  BY LanesFit, 0 \in Nat
<1> QED BY <1>1, WordsAreNumbers DEF SignExtended

LEMMA HalfwordAgrees ==
    ASSUME NEW D, NEW g, Fit(g, D), Covers(D), NEW t,
           t.rd \in 0 .. 15, t.rn \in 0 .. 15, t.rm \in 0 .. 15, t.offset \in Nat,
           NEW r, r = HalfwordDataTransfer(g, t),
           NEW f, f = HalfwordDataTransfer(Full(g), t)
    PROVE  AllOrNothing(D, g, r, f)
<1> DEFINE offset(m) == IF t.immediate THEN t.offset ELSE Reg(m, t.rm)
           base(m)   == (Reg(m, t.rn) + (IF t.rn = 15 THEN 4 ELSE 0)) % WordSpace
           end(m)    == Displaced(base(m), t.up, offset(m))
           address(m) == IF t.preindex THEN end(m) ELSE base(m)
           width     == IF t.halfword \/ ~t.load THEN 2 ELSE 1
           read(m)   == ReadMemory(m, address(m), width)
           y(m)      == IF t.signed THEN SignExtended(read(m), width) ELSE read(m)
           x(m)      == Reg(m, t.rd) + (IF t.rd = 15 THEN 8 ELSE 0)
           moved(m)  == MoveOne(m, t.load, t.rd, address(m), width, x(m), y(m))
           rest(m)   == IF t.preindex /\ ~t.writeBack THEN Complete(moved(m))
                        ELSE Complete(Put(moved(m), t.rn, end(m)))
<1>1. \A m : HalfwordDataTransfer(m, t) =
               IF ~Mapped(m, address(m)) THEN Stop(m) ELSE rest(m)
  BY DEF HalfwordDataTransfer, MoveOne
<1>2. base(g) \in Word /\ base(Full(g)) = base(g)
  BY BaseIsWord, RegIsWord
<1>3. offset(g) \in Nat /\ offset(Full(g)) = offset(g)
  BY RegIsWord
<1>4. width \in Widths
  BY DEF Widths
<1>5. x(g) \in Int
  BY RegIsWord
<1>6. x(Full(g)) = x(g)
  BY RegIsWord
<1>14. end(g) \in Word /\ end(Full(g)) = end(g)
  <2>1. base(g) \in Int
    BY <1>2, WordIsNumber
  <2> HIDE DEF base, offset
  <2> QED BY <1>2, <1>3, <2>1, DisplacedIsWord
<1>7. address(g) \in Word /\ address(Full(g)) = address(g)
  <2> HIDE DEF base, end
  <2> QED BY <1>2, <1>14
<1> HIDE DEF address, end, base, offset, width, x
<1>8. ASSUME Cell(address(g)) \in D
      PROVE  y(g) \in Int /\ y(Full(g)) = y(g)
  <2>1. read(g) \in Int /\ read(Full(g)) = read(g)
    BY <1>4, <1>7, <1>8, ReadFits
  <2>2. SignExtended(read(g), width) \in Int
    <3> HIDE DEF read
    <3> QED BY <1>4, <2>1, SignExtensionIsNumber
  <2> HIDE DEF read
  <2> QED BY <2>1, <2>2
<1> HIDE DEF y
<1>9. ASSUME Cell(address(g)) \in D
      PROVE  Fit(moved(g), D) /\ moved(g).mapped = g.mapped
             /\ moved(Full(g)) = Full(moved(g))
  <2>1. y(g) \in Int
    BY <1>8, <1>9
  <2>2. address(g) \in Word
    BY <1>7
  <2>3. moved(Full(g)) = MoveOne(Full(g), t.load, t.rd, address(g), width, x(g), y(g))
    BY <1>6, <1>7, <1>8, <1>9
  <2>4. Tracks(D, g, moved(g),
               MoveOne(Full(g), t.load, t.rd, address(g), width, x(g), y(g)))
    BY <1>4, <1>5, <1>9, <2>1, <2>2, Moved
  <2> QED BY <2>3, <2>4 DEF Tracks
<1> HIDE DEF moved
<1>10. ASSUME Cell(address(g)) \in D
       PROVE  AllOrNothing(D, g, rest(g), rest(Full(g)))
  <2>1. CASE t.preindex /\ ~t.writeBack
    BY <1>9, <1>10, <2>1, Completed
  <2>2. CASE ~(t.preindex /\ ~t.writeBack)
    <3> DEFINE h == Put(moved(g), t.rn, end(g))
    <3>1. end(g) \in Int
      BY <1>14, WordIsNumber
    <3>2. Fit(h, D) /\ h.mapped = g.mapped /\ Put(Full(moved(g)), t.rn, end(g)) = Full(h)
      <4>1. Fit(moved(g), D) /\ moved(g).mapped = g.mapped
        BY <1>9, <1>10
      <4>2. Tracks(D, moved(g), h, Put(Full(moved(g)), t.rn, end(g)))
        BY <3>1, <4>1, PutTracks
      <4> QED BY <4>1, <4>2 DEF Tracks
    <3>3. rest(g) = Complete(h) /\ rest(Full(g)) = Complete(Full(h))
      BY <1>14, <1>9, <1>10, <2>2, <3>2
    <3> QED BY <3>2, <3>3, Completed
  <2> QED BY <2>1, <2>2
<1>11. Mapped(g, address(g)) => Cell(address(g)) \in D /\ Mapped(Full(g), address(g))
  BY <1>7, AddressIsMapped
<1>12. r = IF ~Mapped(g, address(g)) THEN Stop(g) ELSE rest(g)
  BY <1>1
<1>13. f = IF ~Mapped(Full(g), address(g)) THEN Stop(Full(g)) ELSE rest(Full(g))
  BY <1>1, <1>7
<1> HIDE DEF rest
<1> QED BY <1>10, <1>11, <1>12, <1>13, Guarded

LEMMA SwapAgrees ==
    ASSUME NEW D, NEW g, Fit(g, D), Covers(D), NEW t,
           t.rd \in 0 .. 15, t.rn \in 0 .. 15, t.rm \in 0 .. 15,
           NEW r, r = SingleDataSwap(g, t), NEW f, f = SingleDataSwap(Full(g), t)
    PROVE  AllOrNothing(D, g, r, f)
<1> DEFINE address == Reg(g, t.rn)
           width == IF t.byte THEN 1 ELSE 4
           read == ReadMemory(g, address, width)
           x == Reg(g, t.rm)
           loaded == Put(g, t.rd, read)
           h == WriteMemory(loaded, address, width, x)
           k == WriteMemory(Put(Full(g), t.rd, ReadMemory(Full(g), address, width)),
                            address, width, x)
<1>0. address \in Word
  BY RegIsWord
<1>1. Reg(Full(g), t.rn) = address /\ Reg(Full(g), t.rm) = x
  BY RegIsWord
<1>2. r = IF ~Mapped(g, address) THEN Stop(g) ELSE Complete(h)
  BY DEF SingleDataSwap
<1>3. f = IF ~Mapped(Full(g), address) THEN Stop(Full(g)) ELSE Complete(k)
  BY <1>1 DEF SingleDataSwap
<1>4. width \in Widths
  BY DEF Widths
<1>5. x \in Int
  BY RegIsWord
<1> HIDE DEF address, width, x
<1>6. ASSUME Cell(address) \in D PROVE Fit(h, D) /\ h.mapped = g.mapped /\ k = Full(h)
  <2>1. read \in Int
    BY <1>0, <1>4, <1>6, ReadFits
  <2>2. ReadMemory(Full(g), address, width) = read
    BY <1>0, <1>4, <1>6, ReadFits
  <2> HIDE DEF read
  <2>3. Fit(loaded, D) /\ loaded.mapped = g.mapped /\ Put(Full(g), t.rd, read) = Full(loaded)
    <3>1. Tracks(D, g, loaded, Put(Full(g), t.rd, read))
      BY <2>1, PutTracks
    <3> QED BY <3>1 DEF Tracks
  <2>4. k = WriteMemory(Full(loaded), address, width, x)
    BY <2>2, <2>3
  <2> HIDE DEF loaded, k
  <2>5. /\ Fit(WriteMemory(loaded, address, width, x), D)
        /\ WriteMemory(loaded, address, width, x).mapped = loaded.mapped
        /\ WriteMemory(Full(loaded), address, width, x)
             = Full(WriteMemory(loaded, address, width, x))
    BY <1>0, <1>4, <1>5, <1>6, <2>3, WriteKeepsFit
  <2> QED BY <2>3, <2>4, <2>5
<1>7. Mapped(g, address) => Cell(address) \in D /\ Mapped(Full(g), address)
  BY <1>0, AddressIsMapped
<1> HIDE DEF h, k
<1>8. Mapped(g, address) => AllOrNothing(D, g, Complete(h), Complete(k))
  BY <1>6, <1>7, Completed
<1> QED BY <1>2, <1>3, <1>7, <1>8, Guarded

LEMMA MultiplyAgrees ==
    ASSUME NEW D, NEW g, Fit(g, D), NEW t,
           t.rdHigh \in 0 .. 15, t.rdLow \in 0 .. 15, t.rm \in 0 .. 15, t.rs \in 0 .. 15,
           NEW r, r = Multiply(g, t), NEW f, f = Multiply(Full(g), t)
    PROVE  AllOrNothing(D, g, r, f)
<1> DEFINE x(m) == (Reg(m, t.rm) * Reg(m, t.rs)
                     + (IF t.accumulate THEN Reg(m, t.rdLow) ELSE 0)) % WordSpace
           h == Put(g, t.rdHigh, x(g))
           negative == Barrel!Sign(x(g))
           zero == x(g) = 0
           k == WithSigns(h, t, negative, zero)
<1>1. x(g) \in Int /\ x(Full(g)) = x(g)
  <2>1. Reg(g, t.rm) * Reg(g, t.rs) \in Nat
    BY RegIsWord
  <2>2. (IF t.accumulate THEN Reg(g, t.rdLow) ELSE 0) \in Nat
    BY RegIsWord
  <2>3. x(g) \in Word
    <3>1. (Reg(g, t.rm) * Reg(g, t.rs) + (IF t.accumulate THEN Reg(g, t.rdLow) ELSE 0)) \in Int
      BY <2>1, <2>2
    <3> QED BY <3>1, Remainders
  <2>4. x(Full(g)) = x(g)
    BY RegIsWord
  <2> HIDE DEF x
  <2> QED BY <2>3, <2>4, WordIsNumber
<1>2. r = Complete(k)
  BY DEF Multiply
<1>3. f = Complete(WithSigns(Put(Full(g), t.rdHigh, x(g)), t, negative, zero))
  <2>1. f = Complete(WithSigns(Put(Full(g), t.rdHigh, x(Full(g))), t,
                               Barrel!Sign(x(Full(g))), x(Full(g)) = 0))
    BY DEF Multiply
  <2> HIDE DEF x
  <2> QED BY <1>1, <2>1
<1> HIDE DEF x
<1>4. Fit(h, D) /\ h.mapped = g.mapped /\ Put(Full(g), t.rdHigh, x(g)) = Full(h)
  <2>1. Tracks(D, g, h, Put(Full(g), t.rdHigh, x(g)))
    BY <1>1, PutTracks
  <2> QED BY <2>1 DEF Tracks
<1> HIDE DEF h
<1>5. negative \in BOOLEAN /\ zero \in BOOLEAN
  BY DEF Barrel!Sign
<1> HIDE DEF negative, zero
<1>6. Fit(k, D) /\ k.mapped = g.mapped /\ WithSigns(Full(h), t, negative, zero) = Full(k)
  BY <1>4, <1>5, SignsKeepFit
<1> HIDE DEF k
<1> QED BY <1>2, <1>3, <1>4, <1>6, Completed

LEMMA LongMultiplyAgrees ==
    ASSUME NEW D, NEW g, Fit(g, D), NEW t,
           t.rdHigh \in 0 .. 15, t.rdLow \in 0 .. 15, t.rm \in 0 .. 15, t.rs \in 0 .. 15,
           NEW r, r = LongMultiply(g, t), NEW f, f = LongMultiply(Full(g), t)
    PROVE  AllOrNothing(D, g, r, f)
<1> DEFINE toAdd(m) == IF t.accumulate
                         THEN Reg(m, t.rdHigh) * WordSpace + Reg(m, t.rdLow) ELSE 0
           x(m)     == (Product(m, t) + toAdd(m)) % (WordSpace * WordSpace)
           xlow     == x(g) % WordSpace
           xhigh    == x(g) \div WordSpace
           low      == Put(g, t.rdLow, xlow)
           high     == Put(low, t.rdHigh, xhigh)
           negative == Barrel!Sign(xhigh)
           zero     == x(g) = 0
           k        == WithSigns(high, t, negative, zero)
<1>0. WordSpace \in Nat \ {0} /\ WordSpace * WordSpace \in Nat \ {0}
  BY WordsAreNumbers, Products
<1>1. x(g) \in Int /\ x(Full(g)) = x(g)
  <2>1. /\ Reg(g, t.rm) \in Nat /\ Reg(g, t.rs) \in Nat
        /\ Reg(g, t.rdHigh) \in Nat /\ Reg(g, t.rdLow) \in Nat
        /\ Reg(Full(g), t.rm) = Reg(g, t.rm) /\ Reg(Full(g), t.rs) = Reg(g, t.rs)
        /\ Reg(Full(g), t.rdHigh) = Reg(g, t.rdHigh) /\ Reg(Full(g), t.rdLow) = Reg(g, t.rdLow)
    BY RegIsWord
  <2>2. ASSUME NEW a \in Nat PROVE Barrel!Signed(a) \in Int
    <3>1. Barrel!WordValues \in Nat
      BY ShiftsAreNumbers, 0 \in Int, 0 \in Nat
    <3> QED BY <3>1 DEF Barrel!Signed
  <2>3. Product(g, t) \in Int /\ Product(Full(g), t) = Product(g, t)
    <3>1. Product(g, t) \in Int
      <4>1. Barrel!Signed(Reg(g, t.rm)) * Barrel!Signed(Reg(g, t.rs)) \in Int
        BY <2>1, <2>2
      <4>2. Reg(g, t.rm) * Reg(g, t.rs) \in Int
        BY <2>1
      <4> QED BY <4>1, <4>2 DEF Product
    <3> QED BY <2>1, <3>1 DEF Product
  <2>4. toAdd(g) \in Int /\ toAdd(Full(g)) = toAdd(g)
    <3>1. Reg(g, t.rdHigh) * WordSpace + Reg(g, t.rdLow) \in Int
      BY <1>0, <2>1
    <3> QED BY <2>1, <3>1
  <2> HIDE DEF toAdd
  <2>5. x(Full(g)) = x(g)
    BY <2>3, <2>4
  <2>6. Product(g, t) + toAdd(g) \in Int
    BY <2>3, <2>4
  <2> QED BY <1>0, <2>5, <2>6
<1>2. r = Complete(k)
  BY DEF LongMultiply
<1>3. f = Complete(WithSigns(Put(Put(Full(g), t.rdLow, xlow), t.rdHigh, xhigh), t,
                             negative, zero))
  <2>1. f = Complete(WithSigns(
              Put(Put(Full(g), t.rdLow, x(Full(g)) % WordSpace), t.rdHigh,
                  x(Full(g)) \div WordSpace), t,
              Barrel!Sign(x(Full(g)) \div WordSpace), x(Full(g)) = 0))
    BY DEF LongMultiply
  <2> HIDE DEF x
  <2> QED BY <1>1, <2>1
<1> HIDE DEF x
<1>4. xlow \in Int /\ xhigh \in Int
  BY <1>0, <1>1
<1> HIDE DEF xlow, xhigh
<1>5. Fit(low, D) /\ low.mapped = g.mapped /\ Put(Full(g), t.rdLow, xlow) = Full(low)
  <2>1. Tracks(D, g, low, Put(Full(g), t.rdLow, xlow))
    BY <1>4, PutTracks
  <2> QED BY <2>1 DEF Tracks
<1> HIDE DEF low
<1>6. Fit(high, D) /\ high.mapped = g.mapped /\ Put(Full(low), t.rdHigh, xhigh) = Full(high)
  <2>1. Tracks(D, low, high, Put(Full(low), t.rdHigh, xhigh))
    BY <1>4, <1>5, PutTracks
  <2>2. Fit(high, D) /\ high.mapped = low.mapped /\ Put(Full(low), t.rdHigh, xhigh) = Full(high)
    BY <2>1 DEF Tracks
  <2> QED BY <1>5, <2>1, <2>2
<1> HIDE DEF high
<1>7. negative \in BOOLEAN /\ zero \in BOOLEAN
  BY DEF Barrel!Sign
<1> HIDE DEF negative, zero
<1>8. Fit(k, D) /\ k.mapped = g.mapped /\ WithSigns(Full(high), t, negative, zero) = Full(k)
  BY <1>6, <1>7, SignsKeepFit
<1> HIDE DEF k
<1> QED BY <1>2, <1>3, <1>5, <1>6, <1>8, Completed

LEMMA CoprocOperationAgrees ==
    ASSUME NEW D, NEW g, Fit(g, D), NEW t,
           NEW r, r = CoprocDataOperation(g, t),
           NEW f, f = CoprocDataOperation(Full(g), t)
    PROVE  AllOrNothing(D, g, r, f)
<1> DEFINE k == Called(g, t.number)
<1>1. /\ k = 0 \/ k \in DOMAIN g.coprocessors
      /\ k \in DOMAIN g.coprocessors => g.coprocessors[k].register \in Word
      /\ Called(Full(g), t.number) = k
  BY CalledExists
<1>2. /\ r = Complete(IF k = 0 THEN g ELSE Operation(g, k))
      /\ f = Complete(IF k = 0 THEN Full(g) ELSE Operation(Full(g), k))
  BY <1>1 DEF CoprocDataOperation
<1> HIDE DEF k
<1>3. CASE k = 0
  BY <1>2, <1>3, Completed
<1>4. CASE k # 0
  <2> DEFINE x == g.coprocessors[k].register + 1
             h == Holding(g, k, x)
  <2>1. x \in Int
    BY <1>1, <1>4, WordIsNumber
  <2>2. Operation(g, k) = h /\ Operation(Full(g), k) = Holding(Full(g), k, x)
    BY FullFits DEF Operation
  <2> HIDE DEF x
  <2>3. Fit(h, D) /\ h.mapped = g.mapped /\ Holding(Full(g), k, x) = Full(h)
    BY <1>1, <1>4, <2>1, HoldingKeepsFit
  <2> HIDE DEF h
  <2> QED BY <1>2, <1>4, <2>2, <2>3, Completed
<1> QED BY <1>3, <1>4

LEMMA CoprocRegisterAgrees ==
    ASSUME NEW D, NEW g, Fit(g, D), NEW t, t.rd \in 0 .. 15,
           NEW r, r = CoprocRegisterTransfer(g, t),
           NEW f, f = CoprocRegisterTransfer(Full(g), t)
    PROVE  AllOrNothing(D, g, r, f)
<1> DEFINE k == Called(g, t.number)
<1>1. /\ k = 0 \/ k \in DOMAIN g.coprocessors
      /\ k \in DOMAIN g.coprocessors => g.coprocessors[k].register \in Word
      /\ Called(Full(g), t.number) = k
  BY CalledExists
<1>2. /\ r = Complete(IF k = 0 THEN g ELSE RegisterTransfer(g, k, t.rd, t.load))
      /\ f = Complete(IF k = 0 THEN Full(g) ELSE RegisterTransfer(Full(g), k, t.rd, t.load))
  BY <1>1 DEF CoprocRegisterTransfer
<1> HIDE DEF k
<1>3. CASE k = 0
  BY <1>2, <1>3, Completed
<1>4. CASE k # 0 /\ t.load
  <2> DEFINE x == g.coprocessors[k].register
             h == Put(g, t.rd, x)
  <2>1. x \in Int
    BY <1>1, <1>4, WordIsNumber
  <2>2. RegisterTransfer(g, k, t.rd, t.load) = h
        /\ RegisterTransfer(Full(g), k, t.rd, t.load) = Put(Full(g), t.rd, x)
    BY <1>4, FullFits DEF RegisterTransfer
  <2> HIDE DEF x
  <2>3. Fit(h, D) /\ h.mapped = g.mapped /\ Put(Full(g), t.rd, x) = Full(h)
    <3>1. Tracks(D, g, h, Put(Full(g), t.rd, x))
      BY <2>1, PutTracks
    <3> QED BY <3>1 DEF Tracks
  <2> HIDE DEF h
  <2> QED BY <1>2, <1>4, <2>2, <2>3, Completed
<1>5. CASE k # 0 /\ ~t.load
  <2> DEFINE x == Reg(g, t.rd)
             h == Holding(g, k, x)
  <2>1. x \in Int /\ Reg(Full(g), t.rd) = x
    BY RegIsWord
  <2>2. RegisterTransfer(g, k, t.rd, t.load) = h
        /\ RegisterTransfer(Full(g), k, t.rd, t.load) = Holding(Full(g), k, x)
    BY <1>5, <2>1 DEF RegisterTransfer
  <2> HIDE DEF x
  <2>3. Fit(h, D) /\ h.mapped = g.mapped /\ Holding(Full(g), k, x) = Full(h)
    BY <1>1, <1>5, <2>1, HoldingKeepsFit
  <2> HIDE DEF h
  <2> QED BY <1>2, <1>5, <2>2, <2>3, Completed
<1> QED BY <1>3, <1>4, <1>5

LEMMA CounterTransferAgrees ==
    ASSUME NEW D, NEW g, Fit(g, D), Covers(D), NEW k \in DOMAIN g.coprocessors,
           g.coprocessors[k].register \in Word, NEW load, NEW a \in Word,
           NEW r, r = CounterTransfer(g, k, load, a),
           NEW f, f = CounterTransfer(Full(g), k, load, a)
    PROVE  AllOrNothing(D, g, r, f)
<1> DEFINE h == IF load THEN Holding(g, k, ReadMemory(g, a, 4))
                ELSE WriteMemory(g, a, 4, g.coprocessors[k].register)
           j == IF load THEN Holding(Full(g), k, ReadMemory(Full(g), a, 4))
                ELSE WriteMemory(Full(g), a, 4, Full(g).coprocessors[k].register)
<1>1. Mapped(g, a) => Cell(a) \in D /\ Mapped(Full(g), a)
  BY AddressIsMapped
<1>2. r = IF ~Mapped(g, a) THEN Stop(g) ELSE Complete(h)
  BY DEF CounterTransfer
<1>3. f = IF ~Mapped(Full(g), a) THEN Stop(Full(g)) ELSE Complete(j)
  BY DEF CounterTransfer
<1>4. ASSUME Cell(a) \in D
      PROVE  Fit(h, D) /\ h.mapped = g.mapped /\ j = Full(h)
  <2>1. CASE load
    <3> DEFINE x == ReadMemory(g, a, 4)
    <3>0. 4 \in Widths
      BY DEF Widths
    <3>1. x \in Int
      BY <1>4, <3>0, ReadFits
    <3>2. h = Holding(g, k, x) /\ j = Holding(Full(g), k, x)
      BY <1>4, <2>1, <3>0, ReadFits
    <3> HIDE DEF x, h, j
    <3> QED BY <3>1, <3>2, HoldingKeepsFit
  <2>2. CASE ~load
    <3> DEFINE x == g.coprocessors[k].register
    <3>1. x \in Int
      <4>1. x \in Word
        OBVIOUS
      <4> HIDE DEF x
      <4> QED BY <4>1, WordIsNumber
    <3>4. Full(g).coprocessors = g.coprocessors
      BY FullFits
    <3>2. h = WriteMemory(g, a, 4, x) /\ j = WriteMemory(Full(g), a, 4, x)
      BY <2>2, <3>4
    <3> HIDE DEF h, j, x
    <3>3. 4 \in Widths
      BY DEF Widths
    <3> QED BY <1>4, <3>1, <3>2, <3>3, WriteKeepsFit
  <2> QED BY <2>1, <2>2
<1> HIDE DEF h, j
<1>5. Mapped(g, a) => AllOrNothing(D, g, Complete(h), Complete(j))
  BY <1>1, <1>4, Completed
<1> QED BY <1>1, <1>2, <1>3, <1>5, Guarded

LEMMA CoprocTransferAgrees ==
    ASSUME NEW D, NEW g, Fit(g, D), Covers(D), NEW t,
           t.rn \in 0 .. 15, t.offset \in Nat,
           NEW r, r = CoprocDataTransfer(g, t), NEW f, f = CoprocDataTransfer(Full(g), t)
    PROVE  AllOrNothing(D, g, r, f)
<1> DEFINE k == Called(g, t.number)
           end == Displaced(Reg(g, t.rn), t.up, 4 * t.offset)
           address == IF t.preindex THEN end ELSE Reg(g, t.rn)
           x == IF k = 0 THEN Complete(g) ELSE CounterTransfer(g, k, t.load, address)
           y == IF k = 0 THEN Complete(Full(g)) ELSE CounterTransfer(Full(g), k, t.load, address)
           h == Put(x.m, t.rn, end)
<1>1. /\ k = 0 \/ k \in DOMAIN g.coprocessors
      /\ k \in DOMAIN g.coprocessors => g.coprocessors[k].register \in Word
      /\ Called(Full(g), t.number) = k
  BY CalledExists
<1>2. Reg(g, t.rn) \in Word /\ Reg(g, t.rn) \in Int /\ Reg(Full(g), t.rn) = Reg(g, t.rn)
  BY RegIsWord
<1>3. end \in Word /\ end \in Int
  BY <1>2, DisplacedIsWord, WordIsNumber
<1>4. r = IF x.ok /\ t.writeBack THEN Complete(h) ELSE x
  BY DEF CoprocDataTransfer
<1>5. f = IF y.ok /\ t.writeBack THEN Complete(Put(y.m, t.rn, end)) ELSE y
  BY <1>1, <1>2 DEF CoprocDataTransfer
<1> HIDE DEF end, k
<1>6. address \in Word
  BY <1>2, <1>3
<1> HIDE DEF address
<1>7. AllOrNothing(D, g, x, y)
  <2>1. CASE k = 0
    BY <2>1, Completed
  <2>2. CASE k # 0
    BY <1>1, <1>6, <2>2, CounterTransferAgrees
  <2> QED BY <2>1, <2>2
<1> HIDE DEF x, y
<1>8. ASSUME x.ok PROVE Fit(h, D) /\ h.mapped = g.mapped /\ Put(y.m, t.rn, end) = Full(h)
  <2>1. Fit(x.m, D) /\ x.m.mapped = g.mapped /\ y.m = Full(x.m)
    BY <1>7, <1>8 DEF AllOrNothing, Follows, Complete
  <2>2. Tracks(D, x.m, h, Put(Full(x.m), t.rn, end))
    BY <1>3, <2>1, PutTracks
  <2> QED BY <2>1, <2>2 DEF Tracks
<1> HIDE DEF h
<1> QED BY <1>4, <1>5, <1>7, <1>8, ContinuedIf

-----------------------------------------------------------------------------
\* THUMB formats

\* The pc as an operand.
LEMMA PCIsWord ==
    ASSUME NEW D, NEW g, Fit(g, D)
    PROVE  /\ PC(g.p) \in Word /\ PC(g.p) \in Nat /\ PC(Full(g).p) = PC(g.p)
           /\ AlignedPC(g) \in Nat /\ AlignedPC(Full(g)) = AlignedPC(g)
<1>1. PC(g.p) \in Word
  BY Reads DEF Fit
<1>2. PC(g.p) \in Nat
  BY <1>1, WordIsNumber
<1>3. PC(Full(g).p) = PC(g.p)
  BY FullFits
<1> DEFINE x == (PC(g.p) + 2) % WordSpace
<1>4. x \in Nat
  BY <1>2, WordsAreNumbers
<1>5. AlignedPC(g) = Cell(x) /\ AlignedPC(Full(g)) = Cell(x)
  BY <1>3 DEF AlignedPC
<1> HIDE DEF x
<1>6. Cell(x) \in Nat
  BY <1>4 DEF Cell
<1> QED BY <1>1, <1>2, <1>3, <1>5, <1>6

LEMMA PcRelativeAgrees ==
    ASSUME NEW D, NEW g, Fit(g, D), Covers(D), NEW t, t.rd \in 0 .. 15, t.offset \in Nat,
           NEW r, r = PcRelativeLoad(g, t), NEW f, f = PcRelativeLoad(Full(g), t)
    PROVE  AllOrNothing(D, g, r, f)
<1> DEFINE a == (AlignedPC(g) + 4 * t.offset) % WordSpace
<1>1. r = Transfer(g, TRUE, t.rd, a, 4) /\ f = Transfer(Full(g), TRUE, t.rd, a, 4)
  BY PCIsWord DEF PcRelativeLoad
<1>2. AlignedPC(g) + 4 * t.offset \in Int
  BY PCIsWord
<1>3. a \in Word
  BY <1>2, Remainders
<1>4. 4 \in Widths
  BY DEF Widths
<1> HIDE DEF a
<1> QED BY <1>1, <1>3, <1>4, TransferAgrees

LEMMA RegisterOffsetAgrees ==
    ASSUME NEW D, NEW g, Fit(g, D), Covers(D), NEW t,
           t.rd \in 0 .. 15, t.rb \in 0 .. 15, t.ro \in 0 .. 15,
           NEW r, r = LoadStoreRegisterOffset(g, t),
           NEW f, f = LoadStoreRegisterOffset(Full(g), t)
    PROVE  AllOrNothing(D, g, r, f)
<1> DEFINE a == (Reg(g, t.rb) + Reg(g, t.ro)) % WordSpace
           width == IF t.byte THEN 1 ELSE 4
<1>1. /\ r = Transfer(g, t.load, t.rd, a, width)
      /\ f = Transfer(Full(g), t.load, t.rd, a, width)
  BY RegIsWord DEF LoadStoreRegisterOffset
<1>2. Reg(g, t.rb) + Reg(g, t.ro) \in Int
  BY RegIsWord
<1>3. a \in Word
  BY <1>2, Remainders
<1>4. width \in Widths
  BY DEF Widths
<1> HIDE DEF a, width
<1> QED BY <1>1, <1>3, <1>4, TransferAgrees

LEMMA SignExtendedAgrees ==
    ASSUME NEW D, NEW g, Fit(g, D), Covers(D), NEW t,
           t.rd \in 0 .. 15, t.rb \in 0 .. 15, t.ro \in 0 .. 15,
           NEW r, r = LoadStoreSignExtendedHalfword(g, t),
           NEW f, f = LoadStoreSignExtendedHalfword(Full(g), t)
    PROVE  AllOrNothing(D, g, r, f)
<1> DEFINE a == (Reg(g, t.rb) + Reg(g, t.ro)) % WordSpace
           width == IF t.signExtend /\ ~t.halfword THEN 1 ELSE 2
           x == Transfer(g, t.signExtend \/ t.halfword, t.rd, a, width)
           y == Transfer(Full(g), t.signExtend \/ t.halfword, t.rd, a, width)
           h == Put(x.m, t.rd, SignExtended(Reg(x.m, t.rd), width))
           k == Put(y.m, t.rd, SignExtended(Reg(y.m, t.rd), width))
<1>1. r = IF x.ok /\ t.signExtend THEN Complete(h) ELSE x
  BY DEF LoadStoreSignExtendedHalfword
<1>2. f = IF y.ok /\ t.signExtend THEN Complete(k) ELSE y
  <2>1. Reg(Full(g), t.rb) = Reg(g, t.rb) /\ Reg(Full(g), t.ro) = Reg(g, t.ro)
    BY RegIsWord
  <2> QED BY <2>1 DEF LoadStoreSignExtendedHalfword
<1>3. Reg(g, t.rb) + Reg(g, t.ro) \in Int
  BY RegIsWord
<1>4. a \in Word
  BY <1>3, Remainders
<1>5. width \in Widths
  BY DEF Widths
<1> HIDE DEF a, width
<1>6. AllOrNothing(D, g, x, y)
  <2> DEFINE load == t.signExtend \/ t.halfword
             rd == t.rd
  <2>1. x = Transfer(g, load, rd, a, width) /\ y = Transfer(Full(g), load, rd, a, width)
    OBVIOUS
  <2>2. rd \in 0 .. 15
    OBVIOUS
  <2> HIDE DEF x, y, load, rd
  <2> QED BY <1>4, <1>5, <2>1, <2>2, TransferAgrees
<1> HIDE DEF x, y
<1>7. ASSUME x.ok PROVE Fit(h, D) /\ h.mapped = g.mapped /\ k = Full(h)
  <2>1. Fit(x.m, D) /\ x.m.mapped = g.mapped /\ y.m = Full(x.m)
    BY <1>6, <1>7 DEF AllOrNothing, Follows, Complete
  <2>0. Reg(x.m, t.rd) \in Int
    BY <2>1, RegIsWord
  <2>2. Reg(y.m, t.rd) = Reg(x.m, t.rd)
    BY <2>1, RegIsWord
  <2> DEFINE z == SignExtended(Reg(x.m, t.rd), width)
  <2>3. z \in Int
    BY <1>5, <2>0, SignExtensionIsNumber
  <2>4. h = Put(x.m, t.rd, z) /\ k = Put(Full(x.m), t.rd, z)
    BY <2>1, <2>2
  <2> HIDE DEF z, h, k
  <2>5. Tracks(D, x.m, h, k)
    BY <2>1, <2>3, <2>4, PutTracks
  <2> QED BY <2>1, <2>5 DEF Tracks
<1> HIDE DEF h, k
<1> QED BY <1>1, <1>2, <1>6, <1>7, ContinuedIf

LEMMA ImmediateOffsetAgrees ==
    ASSUME NEW D, NEW g, Fit(g, D), Covers(D), NEW t,
           t.rd \in 0 .. 15, t.rb \in 0 .. 15, t.offset \in Nat,
           NEW r, r = LoadStoreImmediateOffset(g, t),
           NEW f, f = LoadStoreImmediateOffset(Full(g), t)
    PROVE  AllOrNothing(D, g, r, f)
<1> DEFINE width == IF t.byte THEN 1 ELSE 4
           a == (Reg(g, t.rb) + width * t.offset) % WordSpace
<1>1. /\ r = Transfer(g, t.load, t.rd, a, width)
      /\ f = Transfer(Full(g), t.load, t.rd, a, width)
  BY RegIsWord DEF LoadStoreImmediateOffset
<1>2. width \in Widths
  BY DEF Widths
<1> HIDE DEF width
<1>3. Reg(g, t.rb) + width * t.offset \in Int
  <2>1. width \in Nat
    BY <1>2 DEF Widths
  <2> QED BY <2>1, RegIsWord
<1>4. a \in Word
  BY <1>3, Remainders
<1> HIDE DEF a
<1> QED BY <1>1, <1>2, <1>4, TransferAgrees

LEMMA HalfwordOffsetAgrees ==
    ASSUME NEW D, NEW g, Fit(g, D), Covers(D), NEW t,
           t.rd \in 0 .. 15, t.rb \in 0 .. 15, t.offset \in Nat,
           NEW r, r = LoadStoreHalfword(g, t), NEW f, f = LoadStoreHalfword(Full(g), t)
    PROVE  AllOrNothing(D, g, r, f)
<1> DEFINE a == (Reg(g, t.rb) + 2 * t.offset) % WordSpace
<1>1. r = Transfer(g, t.load, t.rd, a, 2) /\ f = Transfer(Full(g), t.load, t.rd, a, 2)
  BY RegIsWord DEF LoadStoreHalfword
<1>2. Reg(g, t.rb) + 2 * t.offset \in Int
  BY RegIsWord
<1>3. a \in Word
  BY <1>2, Remainders
<1>4. 2 \in Widths
  BY DEF Widths
<1> HIDE DEF a
<1> QED BY <1>1, <1>3, <1>4, TransferAgrees

LEMMA SPRelativeAgrees ==
    ASSUME NEW D, NEW g, Fit(g, D), Covers(D), NEW t, t.rd \in 0 .. 15, t.offset \in Nat,
           NEW r, r = SPRelativeLoadStore(g, t), NEW f, f = SPRelativeLoadStore(Full(g), t)
    PROVE  AllOrNothing(D, g, r, f)
<1> DEFINE a == (Reg(g, 13) + 4 * t.offset) % WordSpace
<1>0. Reg(g, 13) \in Nat /\ Reg(Full(g), 13) = Reg(g, 13)
  <2>1. 13 \in 0 .. 15
    OBVIOUS
  <2> QED BY <2>1, RegIsWord
<1>1. r = Transfer(g, t.load, t.rd, a, 4) /\ f = Transfer(Full(g), t.load, t.rd, a, 4)
  BY <1>0 DEF SPRelativeLoadStore
<1>2. Reg(g, 13) + 4 * t.offset \in Int
  BY <1>0
<1>3. a \in Word
  BY <1>2, Remainders
<1>4. 4 \in Widths
  BY DEF Widths
<1> HIDE DEF a
<1> QED BY <1>1, <1>3, <1>4, TransferAgrees

\* An instruction that only computes a register.
LEMMA ComputedAgrees ==
    ASSUME NEW D, NEW g, Fit(g, D), NEW n \in 0 .. 15, NEW x \in Int,
           NEW r, r = Complete(Put(g, n, x)), NEW f, f = Complete(Put(Full(g), n, x))
    PROVE  AllOrNothing(D, g, r, f)
<1> DEFINE h == Put(g, n, x)
<1>1. Fit(h, D) /\ h.mapped = g.mapped /\ Put(Full(g), n, x) = Full(h)
  <2>1. Tracks(D, g, h, Put(Full(g), n, x))
    BY PutTracks
  <2> QED BY <2>1 DEF Tracks
<1>2. r = Complete(h) /\ f = Complete(Full(h))
  BY <1>1
<1> HIDE DEF h
<1> QED BY <1>1, <1>2, Completed

LEMMA LoadAddressAgrees ==
    ASSUME NEW D, NEW g, Fit(g, D), NEW t, t.rd \in 0 .. 15, t.offset \in Nat,
           NEW r, r = LoadAddress(g, t), NEW f, f = LoadAddress(Full(g), t)
    PROVE  AllOrNothing(D, g, r, f)
<1> DEFINE x == (IF t.loadSP THEN Reg(g, 13) ELSE AlignedPC(g)) + 4 * t.offset
<1>1. Reg(g, 13) \in Nat /\ Reg(Full(g), 13) = Reg(g, 13)
  <2>1. 13 \in 0 .. 15
    OBVIOUS
  <2> QED BY <2>1, RegIsWord
<1>2. x \in Int
  BY <1>1, PCIsWord
<1>3. r = Complete(Put(g, t.rd, x)) /\ f = Complete(Put(Full(g), t.rd, x))
  BY <1>1, PCIsWord DEF LoadAddress
<1> HIDE DEF x
<1> QED BY <1>2, <1>3, ComputedAgrees

LEMMA AddToSPAgrees ==
    ASSUME NEW D, NEW g, Fit(g, D), NEW t, t.offset \in Nat,
           NEW r, r = AddToStackPointer(g, t), NEW f, f = AddToStackPointer(Full(g), t)
    PROVE  AllOrNothing(D, g, r, f)
<1> DEFINE x == Displaced(Reg(g, 13), ~t.negative, 4 * t.offset)
<1>0. 13 \in 0 .. 15
  OBVIOUS
<1>1. Reg(g, 13) \in Nat /\ Reg(Full(g), 13) = Reg(g, 13)
  BY <1>0, RegIsWord
<1>2. x \in Int
  <2>1. x \in Word
    BY <1>1, DisplacedIsWord
  <2> QED BY <2>1, WordIsNumber
<1>3. r = Complete(Put(g, 13, x)) /\ f = Complete(Put(Full(g), 13, x))
  BY <1>1 DEF AddToStackPointer
<1> HIDE DEF x
<1> QED BY <1>0, <1>2, <1>3, ComputedAgrees

LEMMA BranchHighAgrees ==
    ASSUME NEW D, NEW g, Fit(g, D), NEW t, t.offset \in Nat,
           NEW r, r = LongBranchHigh(g, t), NEW f, f = LongBranchHigh(Full(g), t)
    PROVE  AllOrNothing(D, g, r, f)
<1> DEFINE high == IF 2 * t.offset >= 2^BranchBits THEN t.offset - 2^BranchBits ELSE t.offset
           x == PC(g.p) + 2 + high * 2^(BranchBits + 1)
<1>0. 14 \in 0 .. 15
  OBVIOUS
<1>1. 2^BranchBits \in Int /\ 2^(BranchBits + 1) \in Int
  BY TransfersAssumption, PowersArePositive, BranchBits \in Nat, BranchBits + 1 \in Nat
<1>2. x \in Int
  <2>1. high \in Int
    BY <1>1
  <2> HIDE DEF high
  <2>2. high * 2^(BranchBits + 1) \in Int
    BY <1>1, <2>1
  <2> QED BY <2>2, PCIsWord
<1>3. r = Complete(Put(g, 14, x)) /\ f = Complete(Put(Full(g), 14, x))
  BY PCIsWord DEF LongBranchHigh
<1> HIDE DEF x
<1> QED BY <1>0, <1>2, <1>3, ComputedAgrees

LEMMA BranchLowAgrees ==
    ASSUME NEW D, NEW g, Fit(g, D), NEW t, t.offset \in Nat,
           NEW r, r = LongBranchLow(g, t), NEW f, f = LongBranchLow(Full(g), t)
    PROVE  AllOrNothing(D, g, r, f)
<1> DEFINE x == Reg(g, 14) + 2 * t.offset
           back == PC(g.p) + 1 - (PC(g.p) % 2)
           h == Put(g, 14, back)
<1>0. 14 \in 0 .. 15 /\ 15 \in 0 .. 15
  OBVIOUS
<1>1. x \in Int /\ back \in Int
  BY <1>0, RegIsWord, PCIsWord
<1>2. r = Complete(Put(h, 15, x)) /\ f = Complete(Put(Put(Full(g), 14, back), 15, x))
  BY <1>0, RegIsWord, PCIsWord DEF LongBranchLow
<1> HIDE DEF x, back
<1>3. Fit(h, D) /\ h.mapped = g.mapped /\ Put(Full(g), 14, back) = Full(h)
  <2>1. Tracks(D, g, h, Put(Full(g), 14, back))
    BY <1>0, <1>1, PutTracks
  <2> QED BY <2>1 DEF Tracks
<1> HIDE DEF h
<1>4. AllOrNothing(D, h, r, f)
  BY <1>0, <1>1, <1>2, <1>3, ComputedAgrees
<1> QED BY <1>2, <1>3, <1>4 DEF AllOrNothing, Follows, Complete

-----------------------------------------------------------------------------
\* SingleDataTransfer: the shifter's carry, then the access

\* The machine after the shifter, the offset, and the access from there.
Shifted(g, t) == ByImmediate(t.shift, Reg(g, t.rm), t.amount, g.p.cpsr.c)

Ready(g, t) == IF t.immediate THEN g ELSE SetCarry(g, Shifted(g, t).carry)

Offset(g, t) == IF t.immediate THEN t.offset ELSE Shifted(g, t).value

Access(g, t, offset) ==
    LET base    == (Reg(g, t.rn) + (IF t.rn = 15 THEN 4 ELSE 0)) % WordSpace
        end     == Displaced(base, t.up, offset)
        address == IF t.preindex THEN end ELSE base
        width   == IF t.byte THEN 1 ELSE 4
        moved   == IF t.load THEN Put(g, t.rd, ReadMemory(g, address, width))
                   ELSE WriteMemory(g, address, width,
                                    Reg(g, t.rd) + (IF t.rd = 15 THEN 8 ELSE 0))
    IN  IF ~Mapped(g, address) THEN Stop(g)
        ELSE IF t.preindex /\ ~t.writeBack THEN Complete(moved)
        ELSE IF t.rn = 15 THEN Stop(moved)
        ELSE Complete(Put(moved, t.rn, end))

\* What Ready keeps, and that it makes no difference a second time.
LEMMA ReadyFits ==
    ASSUME NEW D, NEW g, Fit(g, D), NEW t,
           t.rm \in 0 .. 15, t.shift \in Barrel!ShiftTypes, t.amount \in Nat,
           t.offset \in Nat, NEW h, h = Ready(g, t)
    PROVE  /\ Fit(h, D) /\ h.mapped = g.mapped /\ h.cells = g.cells
           /\ h.p.regs = g.p.regs /\ h.p.cpsr.mode = g.p.cpsr.mode
           /\ h.p.cpsr.thumb = g.p.cpsr.thumb
           /\ Ready(Full(g), t) = Full(h)
           /\ Offset(g, t) \in Int /\ Offset(Full(g), t) = Offset(g, t)
           /\ t.immediate \/ ~(t.shift = "ror" /\ t.amount = 0)
                => Ready(h, t) = h /\ Offset(h, t) = Offset(g, t)
<1>1. CASE t.immediate
  <2>1. h = g /\ Ready(Full(g), t) = Full(g)
    BY <1>1 DEF Ready
  <2>2. \A m : Offset(m, t) = t.offset /\ Ready(m, t) = m
    BY <1>1 DEF Offset, Ready
  <2>3. t.offset \in Int
    OBVIOUS
  <2> QED BY <2>1, <2>2, <2>3
<1>2. CASE ~t.immediate
  <2> DEFINE s == Shifted(g, t)
  <2>1. g.p.cpsr.c \in BOOLEAN
    BY DEF Fit, Good, Processors, Status
  <2>2. Reg(g, t.rm) \in Nat
    BY RegIsWord
  <2>3. s = ByImmediate(t.shift, Reg(g, t.rm), t.amount, g.p.cpsr.c)
    BY DEF Shifted
  <2>4. Shifted(Full(g), t) = s
    BY RegIsWord, FullFits DEF Shifted
  <2>5. /\ Offset(g, t) = s.value /\ Offset(Full(g), t) = s.value
        /\ h = SetCarry(g, s.carry)
        /\ Ready(Full(g), t) = SetCarry(Full(g), s.carry)
    BY <1>2, <2>4 DEF Ready, Offset
  <2> HIDE DEF s
  <2>6. s.value \in Int /\ s.carry \in BOOLEAN
    <3>1. ASSUME NEW x, x = ByImmediate(t.shift, Reg(g, t.rm), t.amount, g.p.cpsr.c)
          PROVE  x.value \in Int /\ x.carry \in BOOLEAN
      BY <2>1, <2>2, <3>1, Shifts
    <3> QED BY <2>3, <3>1
  <2>7. /\ Fit(h, D)
        /\ h.mapped = g.mapped /\ h.cells = g.cells /\ h.p.regs = g.p.regs
        /\ h.p.cpsr.mode = g.p.cpsr.mode /\ h.p.cpsr.thumb = g.p.cpsr.thumb
        /\ h.p.cpsr.c = s.carry
        /\ SetCarry(Full(g), s.carry) = Full(h)
        /\ SetCarry(h, s.carry) = h
    BY <2>5, <2>6, WithCarry
  <2>8. ASSUME ~(t.shift = "ror" /\ t.amount = 0)
        PROVE  Ready(h, t) = h /\ Offset(h, t) = Offset(g, t)
    <3>1. Reg(h, t.rm) = Reg(g, t.rm)
      BY <2>7, SameRegisters
    <3>2. Shifted(h, t) = ByImmediate(t.shift, Reg(g, t.rm), t.amount, s.carry)
      BY <2>7, <3>1 DEF Shifted
    <3>3. Shifted(h, t) = s
      <4>1. ASSUME NEW x, x = ByImmediate(t.shift, Reg(g, t.rm), t.amount, g.p.cpsr.c)
            PROVE  ByImmediate(t.shift, Reg(g, t.rm), t.amount, x.carry) = x
        <5> DEFINE a == Reg(g, t.rm)
                   c == g.p.cpsr.c
                   shift == t.shift
                   n == t.amount
        <5>1. /\ a \in Nat /\ n \in Nat /\ shift \in Barrel!ShiftTypes /\ c \in Carries
              /\ ~Extended(shift, n)
          BY <2>1, <2>2, <2>8 DEF Carries, Extended
        <5>2. x = ByImmediate(shift, a, n, c)
          BY <4>1
        <5> HIDE DEF a, c, shift, n
        <5>3. ByImmediate(shift, a, n, x.carry) = x
          BY <5>1, <5>2, SecondShift
        <5> QED BY <5>3 DEF shift, a, n
      <4> QED BY <2>3, <3>2, <4>1
    <3> QED BY <1>2, <2>5, <2>7, <3>3 DEF Offset, Ready
  <2> QED BY <1>2, <2>5, <2>6, <2>7, <2>8
<1> QED BY <1>1, <1>2

LEMMA SingleIsReadyThenAccess ==
    ASSUME NEW D, NEW g, Fit(g, D), NEW t, t.rd \in 0 .. 15, t.rn \in 0 .. 15,
           t.rm \in 0 .. 15, t.shift \in Barrel!ShiftTypes, t.amount \in Nat,
           t.offset \in Nat
    PROVE  SingleDataTransfer(g, t) =
             IF ~t.immediate /\ (t.byRegister \/ t.rm = 15) THEN Stop(g)
             ELSE Access(Ready(g, t), t, Offset(g, t))
<1> DEFINE h == Ready(g, t)
<1>1. /\ Fit(h, D) /\ h.mapped = g.mapped /\ h.cells = g.cells
      /\ h.p.regs = g.p.regs /\ h.p.cpsr.mode = g.p.cpsr.mode
  BY ReadyFits
<1>2. SingleDataTransfer(g, t) =
        LET base    == (Reg(g, t.rn) + (IF t.rn = 15 THEN 4 ELSE 0)) % WordSpace
            end     == Displaced(base, t.up, Offset(g, t))
            address == IF t.preindex THEN end ELSE base
            width   == IF t.byte THEN 1 ELSE 4
            moved   == IF t.load THEN Put(h, t.rd, ReadMemory(g, address, width))
                       ELSE WriteMemory(h, address, width,
                                        Reg(g, t.rd) + (IF t.rd = 15 THEN 8 ELSE 0))
        IN  IF ~t.immediate /\ (t.byRegister \/ t.rm = 15) THEN Stop(g)
            ELSE IF ~Mapped(g, address) THEN Stop(h)
            ELSE IF t.preindex /\ ~t.writeBack THEN Complete(moved)
            ELSE IF t.rn = 15 THEN Stop(moved)
            ELSE Complete(Put(moved, t.rn, end))
  BY DEF SingleDataTransfer, Ready, Offset, Shifted, ByImmediate, SetCarry
<1> HIDE DEF h
<1>3. Reg(h, t.rn) = Reg(g, t.rn) /\ Reg(h, t.rd) = Reg(g, t.rd)
  BY <1>1, SameRegisters
<1>4. \A a, width : ReadMemory(h, a, width) = ReadMemory(g, a, width)
  BY <1>1 DEF ReadMemory
<1>5. \A a : Mapped(h, a) = Mapped(g, a)
  BY <1>1 DEF Mapped
<1>6. SingleDataTransfer(g, t) =
             IF ~t.immediate /\ (t.byRegister \/ t.rm = 15) THEN Stop(g)
             ELSE Access(h, t, Offset(g, t))
  BY <1>2, <1>3, <1>4, <1>5 DEF Access
<1> QED BY <1>6 DEF h

LEMMA AccessAgrees ==
    ASSUME NEW D, NEW g, Fit(g, D), Covers(D), NEW t,
           t.rd \in 0 .. 15, t.rn \in 0 .. 15, NEW offset \in Int,
           NEW r, r = Access(g, t, offset), NEW f, f = Access(Full(g), t, offset)
    PROVE  AllOrNothing(D, g, r, f)
<1> DEFINE base(m)   == (Reg(m, t.rn) + (IF t.rn = 15 THEN 4 ELSE 0)) % WordSpace
           end(m)    == Displaced(base(m), t.up, offset)
           address(m) == IF t.preindex THEN end(m) ELSE base(m)
           width     == IF t.byte THEN 1 ELSE 4
           y(m)      == ReadMemory(m, address(m), width)
           x(m)      == Reg(m, t.rd) + (IF t.rd = 15 THEN 8 ELSE 0)
           moved(m)  == MoveOne(m, t.load, t.rd, address(m), width, x(m), y(m))
           rest(m)   == IF t.preindex /\ ~t.writeBack THEN Complete(moved(m))
                        ELSE IF t.rn = 15 THEN Stop(moved(m))
                        ELSE Complete(Put(moved(m), t.rn, end(m)))
<1>1. \A m : Access(m, t, offset) =
               IF ~Mapped(m, address(m)) THEN Stop(m) ELSE rest(m)
  BY DEF Access, MoveOne
<1>2. base(g) \in Word /\ base(Full(g)) = base(g)
  BY BaseIsWord, RegIsWord
<1>4. width \in Widths
  BY DEF Widths
<1>5. x(g) \in Int
  BY RegIsWord
<1>6. x(Full(g)) = x(g)
  BY RegIsWord
<1>14. end(g) \in Word /\ end(Full(g)) = end(g)
  <2>1. base(g) \in Int
    BY <1>2, WordIsNumber
  <2> HIDE DEF base
  <2> QED BY <1>2, <2>1, DisplacedIsWord
<1>7. address(g) \in Word /\ address(Full(g)) = address(g)
  <2> HIDE DEF base, end
  <2> QED BY <1>2, <1>14
<1> HIDE DEF address, end, base, width, x
<1>8. ASSUME Cell(address(g)) \in D
      PROVE  y(g) \in Int /\ y(Full(g)) = y(g)
  BY <1>4, <1>7, <1>8, ReadFits
<1> HIDE DEF y
<1>9. ASSUME Cell(address(g)) \in D
      PROVE  Fit(moved(g), D) /\ moved(g).mapped = g.mapped
             /\ moved(Full(g)) = Full(moved(g))
  <2>1. y(g) \in Int
    BY <1>8, <1>9
  <2>2. address(g) \in Word
    BY <1>7
  <2>3. moved(Full(g)) = MoveOne(Full(g), t.load, t.rd, address(g), width, x(g), y(g))
    BY <1>6, <1>7, <1>8, <1>9
  <2>4. Tracks(D, g, moved(g),
               MoveOne(Full(g), t.load, t.rd, address(g), width, x(g), y(g)))
    BY <1>4, <1>5, <1>9, <2>1, <2>2, Moved
  <2> QED BY <2>3, <2>4 DEF Tracks
<1> HIDE DEF moved
<1>10. ASSUME Cell(address(g)) \in D
       PROVE  AllOrNothing(D, g, rest(g), rest(Full(g)))
  <2>1. CASE t.preindex /\ ~t.writeBack
    BY <1>9, <1>10, <2>1, Completed
  <2>2. CASE ~(t.preindex /\ ~t.writeBack) /\ t.rn = 15
    <3>1. rest(g) = Stop(moved(g)) /\ rest(Full(g)) = Stop(moved(Full(g)))
      BY <2>2
    <3>2. rest(g).ok = FALSE /\ rest(g).m = moved(g) /\ rest(Full(g)).ok = FALSE
      BY <3>1 DEF Stop
    <3>3. Fit(moved(g), D) /\ moved(g).mapped = g.mapped
      BY <1>9, <1>10
    <3> HIDE DEF rest
    <3> QED BY <3>2, <3>3 DEF AllOrNothing, Follows
  <2>3. CASE ~(t.preindex /\ ~t.writeBack) /\ t.rn # 15
    <3> DEFINE h == Put(moved(g), t.rn, end(g))
    <3>1. end(g) \in Int
      BY <1>14, WordIsNumber
    <3>2. Fit(h, D) /\ h.mapped = g.mapped /\ Put(Full(moved(g)), t.rn, end(g)) = Full(h)
      <4>1. Fit(moved(g), D) /\ moved(g).mapped = g.mapped
        BY <1>9, <1>10
      <4>2. Tracks(D, moved(g), h, Put(Full(moved(g)), t.rn, end(g)))
        BY <3>1, <4>1, PutTracks
      <4> QED BY <4>1, <4>2 DEF Tracks
    <3>3. /\ rest(g) = Complete(h)
          /\ rest(Full(g)) = Complete(Put(moved(Full(g)), t.rn, end(Full(g))))
      BY <2>3
    <3>4. moved(Full(g)) = Full(moved(g)) /\ end(Full(g)) = end(g)
      BY <1>9, <1>10, <1>14
    <3> HIDE DEF rest, h
    <3>5. rest(Full(g)) = Complete(Full(h))
      BY <3>2, <3>3, <3>4
    <3>6. rest(g) = Complete(h) /\ Fit(h, D) /\ h.mapped = g.mapped
      BY <3>2, <3>3
    <3> QED BY <3>5, <3>6, Completed
  <2> QED BY <2>1, <2>2, <2>3
<1>11. Mapped(g, address(g)) => Cell(address(g)) \in D /\ Mapped(Full(g), address(g))
  BY <1>7, AddressIsMapped
<1>12. r = IF ~Mapped(g, address(g)) THEN Stop(g) ELSE rest(g)
  BY <1>1
<1>13. f = IF ~Mapped(Full(g), address(g)) THEN Stop(Full(g)) ELSE rest(Full(g))
  BY <1>1, <1>7
<1> HIDE DEF rest
<1> QED BY <1>10, <1>11, <1>12, <1>13, Guarded

-----------------------------------------------------------------------------
\* Running again

\* The machine h with the pc that g has.
Returned(g, h) == Put(h, 15, PC(g.p))

\* The instruction t, which left h of g, does again what it would have done, and
\* its condition and size are read as before.
Resumes(g, t, h) ==
    /\ h.p.cpsr.thumb = g.p.cpsr.thumb
    /\ "onCarry" \in DOMAIN t /\ t.onCarry => h.p.cpsr.c = g.p.cpsr.c
    /\ Emulate(Full(Returned(g, h)), t) = Emulate(Full(g), t)

Retriable(D, g, t) ==
    LET r == Emulate(g, t)
        f == Emulate(Full(g), t)
    IN  /\ Follows(D, g, r, f)
        /\ ~r.ok /\ f.ok /\ Restartable(t) => Resumes(g, t, r.m)

LEMMA SlotsDiffer ==
    ASSUME NEW mode, NEW n \in 0 .. 15, NEW k \in 0 .. 15, n # k
    PROVE  RegisterSlot(mode, n) # RegisterSlot(mode, k)
BY DEF RegisterSlot

LEMMA PCSlot ==
    ASSUME NEW mode
    PROVE  RegisterSlot(mode, 15) = <<userMode, 15>> /\ <<userMode, 15>> \in Slots
BY DEF RegisterSlot, Slots

\* A pc put back leaves the rest alone.
PuttingBack(g, h) == [h.p.regs EXCEPT ![<<userMode, 15>>] = g.p.regs[<<userMode, 15>>]]

LEMMA ReturnedFits ==
    ASSUME NEW D, NEW g, Fit(g, D), NEW h, Fit(h, D), NEW k, k = Returned(g, h)
    PROVE  /\ Fit(k, D) /\ k.mapped = h.mapped /\ k.cells = h.cells
           /\ k.coprocessors = h.coprocessors
           /\ k.p.cpsr = h.p.cpsr /\ k.p.spsr = h.p.spsr
           /\ k.p.regs = PuttingBack(g, h)
<1>0. PC(g.p) \in Word
  BY PCIsWord
<1>1. PC(g.p) = g.p.regs[<<userMode, 15>>]
  BY Reads DEF Fit
<1>6. PC(g.p) \in Int
  BY <1>0, WordIsNumber
<1>2. PC(g.p) % WordSpace = PC(g.p)
  BY <1>0, <1>6, Remainders
<1>3. 15 \in 0 .. 15
  OBVIOUS
<1>4. k = Put(h, 15, PC(g.p))
  BY DEF Returned
<1>5. Storing(h.p, 15, PC(g.p)) = PuttingBack(g, h)
  BY <1>1, PCSlot DEF Storing, PuttingBack
<1>7. /\ Fit(Put(h, 15, PC(g.p)), D) /\ Put(h, 15, PC(g.p)).mapped = h.mapped
  <2>1. Tracks(D, h, Put(h, 15, PC(g.p)), Put(Full(h), 15, PC(g.p)))
    BY <1>3, <1>6, PutTracks
  <2> QED BY <2>1 DEF Tracks
<1>8. /\ Put(h, 15, PC(g.p)).p.cpsr = h.p.cpsr /\ Put(h, 15, PC(g.p)).p.spsr = h.p.spsr
      /\ Put(h, 15, PC(g.p)).p.regs = Storing(h.p, 15, PC(g.p) % WordSpace)
      /\ Put(h, 15, PC(g.p)).cells = h.cells
      /\ Put(h, 15, PC(g.p)).coprocessors = h.coprocessors
  BY <1>3, <1>6, PutStores
<1> QED BY <1>2, <1>4, <1>5, <1>7, <1>8

LEMMA SamePCReturns ==
    ASSUME NEW D, NEW g, Fit(g, D), NEW h, Fit(h, D),
           h.p.regs = g.p.regs
    PROVE  Returned(g, h) = h
<1> DEFINE k == Returned(g, h)
<1>1. /\ Fit(k, D) /\ k.mapped = h.mapped /\ k.cells = h.cells
      /\ k.coprocessors = h.coprocessors
      /\ k.p.cpsr = h.p.cpsr /\ k.p.spsr = h.p.spsr
      /\ k.p.regs = PuttingBack(g, h)
  BY ReturnedFits
<1> HIDE DEF k
<1>2. k.p.regs = h.p.regs
  <2>1. h.p.regs \in [Slots -> Word]
    BY DEF Fit, Processors
  <2> QED BY <1>1, <2>1 DEF PuttingBack
<1>3. k.p = h.p
  <2>1. k.p \in Processors /\ h.p \in Processors
    BY <1>1 DEF Fit
  <2> QED BY <1>1, <1>2, <2>1 DEF Processors
<1>4. k = h
  BY <1>1, <1>3, SameMachine
<1> QED BY <1>4 DEF k

LEMMA AtomicIsRetriable ==
    ASSUME NEW D, NEW g, Fit(g, D), NEW t,
           AllOrNothing(D, g, Emulate(g, t), Emulate(Full(g), t))
    PROVE  Retriable(D, g, t)
<1>1. Returned(g, g) = g
  BY SamePCReturns
<1> QED BY <1>1 DEF Retriable, AllOrNothing, Resumes

LEMMA SingleIsRetriable ==
    ASSUME NEW D, NEW g, Fit(g, D), Covers(D), NEW t, t.format = "single",
           t.rd \in 0 .. 15, t.rn \in 0 .. 15,
           t.rm \in 0 .. 15, t.shift \in Barrel!ShiftTypes, t.amount \in Nat,
           t.offset \in Nat
    PROVE  Retriable(D, g, t)
<1> DEFINE r == Emulate(g, t)
           f == Emulate(Full(g), t)
           bad == ~t.immediate /\ (t.byRegister \/ t.rm = 15)
           h == Ready(g, t)
           offset == Offset(g, t)
<1>1. \A m : Emulate(m, t) = SingleDataTransfer(m, t)
  BY DEF Emulate
<1>2. /\ Fit(h, D) /\ h.mapped = g.mapped
      /\ h.p.regs = g.p.regs /\ h.p.cpsr.mode = g.p.cpsr.mode
      /\ h.p.cpsr.thumb = g.p.cpsr.thumb
      /\ Ready(Full(g), t) = Full(h)
      /\ offset \in Int /\ Offset(Full(g), t) = offset
      /\ t.immediate \/ ~(t.shift = "ror" /\ t.amount = 0)
                => Ready(h, t) = h /\ Offset(h, t) = offset
  BY ReadyFits
<1>3. r = IF bad THEN Stop(g) ELSE Access(h, t, offset)
  BY <1>1, SingleIsReadyThenAccess
<1>4. f = IF bad THEN Stop(Full(g)) ELSE Access(Full(h), t, offset)
  <2>1. Fit(Full(g), D)
    BY FullFits
  <2>2. SingleDataTransfer(Full(g), t) =
          IF bad THEN Stop(Full(g)) ELSE Access(Ready(Full(g), t), t, Offset(Full(g), t))
    BY <2>1, SingleIsReadyThenAccess
  <2> QED BY <1>1, <1>2, <2>2
<1>5. t.immediate => h = g
  BY DEF Ready
<1> HIDE DEF h, offset, r, f
<1>6. CASE bad
  <2>1. AllOrNothing(D, g, r, f)
    BY <1>3, <1>6, Stopped
  <2> QED BY <2>1, AtomicIsRetriable DEF r, f
<1>7. CASE ~bad
  <2>1. AllOrNothing(D, h, r, f)
    BY <1>2, <1>3, <1>4, <1>7, AccessAgrees
  <2>2. Follows(D, g, r, f)
    BY <1>2, <2>1 DEF AllOrNothing, Follows
  <2>3. ASSUME ~r.ok, f.ok, Restartable(t) PROVE Resumes(g, t, r.m)
    <3>1. r.m = h
      BY <2>1, <2>3 DEF AllOrNothing
    <3>2. t.immediate \/ ~(t.onCarry \/ (t.shift = "ror" /\ t.amount = 0))
      BY <2>3 DEF Restartable
    <3>3. Ready(h, t) = h /\ Offset(h, t) = offset
      BY <1>2, <3>2
    <3>4. Returned(g, h) = h
      BY <1>2, SamePCReturns
    <3>5. Emulate(Full(h), t) = f
      <4>1. Fit(Full(h), D)
        BY <1>2, FullFits
      <4>2. SingleDataTransfer(Full(h), t)
              = IF bad THEN Stop(Full(h)) ELSE Access(Ready(Full(h), t), t, Offset(Full(h), t))
        BY <4>1, SingleIsReadyThenAccess
      <4>3. Ready(Full(h), t) = Full(Ready(h, t)) /\ Offset(Full(h), t) = Offset(h, t)
        BY <1>2, ReadyFits
      <4> QED BY <1>1, <1>4, <1>7, <3>3, <4>2, <4>3
    <3>6. t.onCarry => h.p.cpsr.c = g.p.cpsr.c
      BY <1>5, <3>2
    <3> QED BY <1>2, <3>1, <3>4, <3>5, <3>6 DEF Resumes, f
  <2> QED BY <2>2, <2>3 DEF Retriable, r, f
<1> QED BY <1>6, <1>7

-----------------------------------------------------------------------------
\* The loops over a block

LEMMA MoreIsReached ==
    ASSUME NEW D, NEW g, Fit(g, D), NEW moves
    PROVE  /\ Reached(g, moves) \subseteq Reached(Full(g), moves)
           /\ Reached(Full(g), moves) \subseteq DOMAIN moves
<1>1. \A a : Mapped(g, a) => Mapped(Full(g), a)
  BY DEF Fit, Mapped, Full
<1> QED BY <1>1 DEF Reached

\* What is reached depends on the pages alone.
LEMMA SameReached ==
    ASSUME NEW g, NEW h, h.mapped = g.mapped, NEW moves
    PROVE  Reached(h, moves) = Reached(g, moves)
BY DEF Reached, Mapped

\* The words stored, and that storing them again, after some of them have been
\* stored, is the same.
LEMMA StoresAgree ==
    ASSUME NEW D, NEW g, Fit(g, D), NEW n \in Nat, NEW moves, DOMAIN moves = 1 .. n,
           \A i \in 1 .. n : moves[i].value \in Word,
           NEW r, r = StoreWords(g, moves), NEW f, f = StoreWords(Full(g), moves)
    PROVE  /\ Follows(D, g, r, f)
           /\ r.m.p = g.p /\ r.m.coprocessors = g.coprocessors
           /\ f.m.p = g.p /\ f.ok \in BOOLEAN
           /\ f.ok => StoreWords(Full(r.m), moves) = f
<1> DEFINE at(m, c) == {i \in Reached(m, moves) : Cell(moves[i].address) = c}
           stored(m) == [c \in DOMAIN m.cells |->
                           IF at(m, c) = {} THEN m.cells[c] ELSE moves[Min(at(m, c))].value]
           after(m)  == [m EXCEPT !.cells = stored(m)]
<1>1. \A m : StoreWords(m, moves) = [m |-> after(m), ok |-> Reached(m, moves) = DOMAIN moves]
  BY DEF StoreWords
<1>2. ASSUME NEW c \in D, at(g, c) # {} PROVE moves[Min(at(g, c))].value \in Word
  <2>1. at(g, c) \subseteq 1 .. n
    BY DEF Reached
  <2> HIDE DEF at
  <2>2. at(g, c) \subseteq Nat
    BY <2>1
  <2>3. Min(at(g, c)) \in at(g, c)
    BY <1>2, <2>2, MinIsElement
  <2> QED BY <2>1, <2>3
<1> DEFINE b == stored(g)
<1>3. b \in [D -> Word]
  <2>1. DOMAIN g.cells = D /\ \A c \in D : g.cells[c] \in Word
    BY DEF Fit
  <2> HIDE DEF at
  <2> QED BY <1>2, <2>1
<1>4. r.m = [g EXCEPT !.cells = b]
  <2>1. r.m = after(g)
    <3> HIDE DEF after
    <3> QED BY <1>1
  <2> QED BY <2>1
<1>5. /\ Full(g).p = g.p /\ Full(g).cells = g.cells /\ Fit(Full(g), D)
      /\ f.m = [Full(g) EXCEPT !.cells = stored(Full(g))]
  <2>1. f.m = after(Full(g))
    <3> HIDE DEF after
    <3> QED BY <1>1
  <2> QED BY <2>1, FullFits
<1>6. r.ok = (Reached(g, moves) = DOMAIN moves) /\ f.ok = (Reached(Full(g), moves) = DOMAIN moves)
  <2> HIDE DEF after
  <2> QED BY <1>1
<1>7. r.m.p = g.p /\ r.m.coprocessors = g.coprocessors /\ r.m.mapped = g.mapped
      /\ r.m.cells = b /\ Fit(r.m, D) /\ f.m.p = g.p
  <2> HIDE DEF b
  <2>1. f.m.p = g.p
    BY <1>5 DEF Fit
  <2> QED BY <1>3, <1>4, <2>1 DEF Fit
<1>8. ASSUME r.ok PROVE f = Complete(Full(r.m))
  <2>1. Reached(Full(g), moves) = Reached(g, moves)
    BY <1>6, <1>8, MoreIsReached
  <2>2. stored(Full(g)) = b
    BY <1>5, <2>1
  <2> HIDE DEF b
  <2>3. f = [m |-> [Full(g) EXCEPT !.cells = b], ok |-> TRUE]
    BY <1>1, <1>6, <1>8, <2>1, <2>2
  <2>4. [Full(g) EXCEPT !.cells = b] = Full(r.m)
    BY <1>4 DEF Full, Fit
  <2> QED BY <2>3, <2>4 DEF Complete
<1>9. ASSUME f.ok PROVE StoreWords(Full(r.m), moves) = f
  <2> DEFINE k == Full(r.m)
  <2>1. Fit(k, D) /\ k.p = g.p /\ k.cells = b /\ k.mapped = Full(g).mapped
        /\ k.coprocessors = Full(g).coprocessors
    BY <1>7, FullFits
  <2>7. Fit(Full(g), D) /\ Full(g).p = g.p
    BY FullFits
  <2> HIDE DEF k
  <2>2. Reached(k, moves) = Reached(Full(g), moves)
    BY <2>1, SameReached
  <2>3. \A c : at(k, c) = at(Full(g), c)
    BY <2>2
  <2>4. ASSUME NEW c, at(Full(g), c) = {} PROVE at(g, c) = {}
    BY <2>4, MoreIsReached
  <2>5. stored(k) = stored(Full(g))
    <3>1. DOMAIN k.cells = D /\ DOMAIN Full(g).cells = D /\ Full(g).cells = g.cells
      BY <1>5, <2>1 DEF Fit
    <3>2. \A c \in D : at(Full(g), c) = {} => k.cells[c] = g.cells[c]
      <4>1. \A c \in D : at(g, c) = {} => b[c] = g.cells[c]
        BY DEF Fit
      <4> HIDE DEF b, at
      <4> QED BY <2>1, <2>4, <4>1
    <3> HIDE DEF b, at
    <3> QED BY <2>3, <3>1, <3>2
  <2>6. after(k) = after(Full(g))
    <3> DEFINE x == stored(Full(g))
    <3> HIDE DEF x, stored
    <3> DEFINE e == Full(g)
    <3>2. Fit(e, D) /\ k.p = e.p /\ k.mapped = e.mapped /\ k.coprocessors = e.coprocessors
      BY <2>1, <2>7
    <3> HIDE DEF e
    <3>3. [k EXCEPT !.cells = x] = [e EXCEPT !.cells = x]
      BY <2>1, <3>2 DEF Fit
    <3>1. [k EXCEPT !.cells = x] = [Full(g) EXCEPT !.cells = x]
      BY <3>3 DEF e
    <3> QED BY <2>5, <3>1 DEF x
  <2> QED BY <1>1, <2>2, <2>6 DEF k
<1> HIDE DEF b
<1> QED BY <1>6, <1>7, <1>8, <1>9 DEF Follows

\* The moves of a load into a slot, and the registers after the load.
Into(g, moves, s) ==
    {i \in Reached(g, moves) : RegisterSlot(g.p.cpsr.mode, moves[i].register) = s}

LoadedRegs(g, moves) ==
    [s \in Slots |-> IF Into(g, moves, s) = {} THEN g.p.regs[s]
                     ELSE ReadMemory(g, moves[Min(Into(g, moves, s))].address, 4)]

LEMMA LoadWordsLoads ==
    ASSUME NEW D, NEW g, Fit(g, D), NEW moves
    PROVE  LoadWords(g, moves)
             = [m  |-> [g EXCEPT !.p = [g.p EXCEPT !.regs = LoadedRegs(g, moves)]],
                ok |-> Reached(g, moves) = DOMAIN moves]
<1> DEFINE b == LoadedRegs(g, moves)
<1>1. LoadWords(g, moves) = [m  |-> [g EXCEPT !.p.regs = b],
                             ok |-> Reached(g, moves) = DOMAIN moves]
  BY DEF LoadWords, LoadedRegs, Into
<1> HIDE DEF b
<1>2. [g EXCEPT !.p.regs = b] = [g EXCEPT !.p = [g.p EXCEPT !.regs = b]]
  OBVIOUS
<1> QED BY <1>1, <1>2 DEF b

\* The word a move loads.
LEMMA LoadedIsWord ==
    ASSUME NEW D, NEW g, Fit(g, D), Covers(D), NEW n \in Nat, NEW moves,
           DOMAIN moves = 1 .. n, NEW i \in Reached(g, moves), moves[i].address \in Word
    PROVE  ReadMemory(g, moves[i].address, 4) \in Word
<1>1. i \in 1 .. n /\ Mapped(g, moves[i].address)
  BY DEF Reached
<1>2. Cell(moves[i].address) \in D
  BY <1>1, AddressIsMapped
<1>3. 4 \in Widths
  BY DEF Widths
<1>4. ReadMemory(g, moves[i].address, 4) \in 0 .. (Values(4) - 1)
  BY <1>2, <1>3, ReadFits
<1>5. Values(4) = WordSpace
  BY Bytes
<1> QED BY <1>4, <1>5 DEF Word

LEMMA IntoIsReached ==
    ASSUME NEW g, NEW n \in Nat, NEW moves, DOMAIN moves = 1 .. n, NEW s,
           Into(g, moves, s) # {}
    PROVE  Min(Into(g, moves, s)) \in Reached(g, moves)
<1>1. Into(g, moves, s) \subseteq Reached(g, moves) /\ Reached(g, moves) \subseteq 1 .. n
  BY DEF Into, Reached
<1> DEFINE S == Into(g, moves, s)
<1> HIDE DEF S
<1>2. S \subseteq Nat /\ S # {}
  BY <1>1 DEF S
<1>3. Min(S) \in S
  BY <1>2, MinIsElement
<1> QED BY <1>1, <1>3 DEF S

LEMMA LoadedRegsFit ==
    ASSUME NEW D, NEW g, Fit(g, D), Covers(D), NEW n \in Nat, NEW moves,
           DOMAIN moves = 1 .. n, \A i \in 1 .. n : moves[i].address \in Word
    PROVE  LoadedRegs(g, moves) \in [Slots -> Word]
<1>1. ASSUME NEW s \in Slots, Into(g, moves, s) # {}
      PROVE  ReadMemory(g, moves[Min(Into(g, moves, s))].address, 4) \in Word
  <2>1. Min(Into(g, moves, s)) \in Reached(g, moves)
    BY <1>1, IntoIsReached
  <2>2. Reached(g, moves) \subseteq 1 .. n
    BY DEF Reached
  <2> QED BY <2>1, <2>2, LoadedIsWord
<1>2. g.p.regs \in [Slots -> Word]
  BY DEF Fit, Processors
<1> QED BY <1>1, <1>2 DEF LoadedRegs

\* The words loaded, and that loading them again, after some of them have been
\* loaded and the pc has been put back, is the same.
LEMMA LoadsAgree ==
    ASSUME NEW D, NEW g, Fit(g, D), Covers(D), NEW n \in Nat, NEW moves,
           DOMAIN moves = 1 .. n, \A i \in 1 .. n : moves[i].address \in Word,
           NEW r, r = LoadWords(g, moves), NEW f, f = LoadWords(Full(g), moves)
    PROVE  /\ Follows(D, g, r, f)
           /\ r.m.p.cpsr = g.p.cpsr /\ f.ok \in BOOLEAN
           /\ r.m.p.regs = LoadedRegs(g, moves)
           /\ f.ok => LoadWords(Full(Returned(g, r.m)), moves) = f
<1> DEFINE b == LoadedRegs(g, moves)
           d == LoadedRegs(Full(g), moves)
           q == [g.p EXCEPT !.regs = b]
<1>0. Fit(Full(g), D) /\ Full(g).p = g.p /\ Full(g).cells = g.cells
  BY FullFits
<1>1. r = [m |-> [g EXCEPT !.p = q], ok |-> Reached(g, moves) = DOMAIN moves]
  BY LoadWordsLoads
<1>2. f = [m  |-> [Full(g) EXCEPT !.p = [g.p EXCEPT !.regs = d]],
           ok |-> Reached(Full(g), moves) = DOMAIN moves]
  BY <1>0, LoadWordsLoads
<1>3. b \in [Slots -> Word]
  BY LoadedRegsFit
<1> HIDE DEF b, d
<1>4. Good(q) /\ q.regs = b /\ q.cpsr = g.p.cpsr /\ q.spsr = g.p.spsr
  BY <1>3 DEF Fit, Good, Processors
<1>5. /\ Fit(r.m, D) /\ r.m.p = q /\ r.m.cells = g.cells /\ r.m.mapped = g.mapped
      /\ r.m.coprocessors = g.coprocessors
      /\ [Full(g) EXCEPT !.p = q] = Full(r.m)
  <2> HIDE DEF q
  <2>1. r.m = [g EXCEPT !.p = q]
    BY <1>1
  <2> QED BY <1>4, <2>1, OtherProcessor
<1>6. r.ok = (Reached(g, moves) = DOMAIN moves) /\ f.ok = (Reached(Full(g), moves) = DOMAIN moves)
  <2> HIDE DEF q
  <2> QED BY <1>1, <1>2
<1>7. ASSUME NEW s PROVE Into(g, moves, s) \subseteq Into(Full(g), moves, s)
  BY <1>0, MoreIsReached DEF Into
<1>8. \A a : ReadMemory(Full(g), a, 4) = ReadMemory(g, a, 4)
  BY <1>0 DEF ReadMemory
<1>9. ASSUME r.ok PROVE f = Complete(Full(r.m))
  <2>1. Reached(Full(g), moves) = Reached(g, moves)
    BY <1>6, <1>9, MoreIsReached
  <2>2. \A s : Into(Full(g), moves, s) = Into(g, moves, s)
    BY <1>0, <2>1 DEF Into
  <2>3. d = b
    BY <1>0, <1>8, <2>2 DEF b, d, LoadedRegs
  <2>4. f = [m |-> [Full(g) EXCEPT !.p = q], ok |-> TRUE]
    BY <1>2, <1>6, <1>9, <2>1, <2>3
  <2> HIDE DEF q
  <2> QED BY <1>5, <2>4 DEF Complete
<1>10. ASSUME f.ok PROVE LoadWords(Full(Returned(g, r.m)), moves) = f
  <2> DEFINE h == Returned(g, r.m)
             k == Full(h)
             j == r.m
  <2>0. h = Returned(g, j) /\ Fit(j, D)
    BY <1>5
  <2> HIDE DEF h, j
  <2>1. /\ Fit(h, D) /\ h.mapped = j.mapped /\ h.cells = j.cells
        /\ h.coprocessors = j.coprocessors
        /\ h.p.cpsr = j.p.cpsr /\ h.p.spsr = j.p.spsr
        /\ h.p.regs = PuttingBack(g, j)
    BY <2>0, ReturnedFits
  <2> USE DEF j
  <2>11. /\ Fit(k, D) /\ k.p = h.p /\ k.cells = h.cells /\ k.mapped = Pages
         /\ k.coprocessors = h.coprocessors
    BY <2>1, FullFits
  <2>12. Full(g).mapped = Pages
    BY FullFits
  <2>2. /\ Fit(k, D) /\ k.p = h.p /\ k.cells = g.cells /\ k.mapped = Full(g).mapped
        /\ k.coprocessors = g.coprocessors
    BY <1>5, <2>1, <2>11, <2>12
  <2> HIDE DEF k
  <2>3. Reached(k, moves) = Reached(Full(g), moves)
    BY <2>2, SameReached
  <2>4. k.p.cpsr = g.p.cpsr /\ k.p.spsr = g.p.spsr
    BY <1>4, <1>5, <2>1, <2>2
  <2>5. \A s : Into(k, moves, s) = Into(Full(g), moves, s)
    BY <1>0, <2>3, <2>4 DEF Into
  <2>6. \A a : ReadMemory(k, a, 4) = ReadMemory(Full(g), a, 4)
    BY <1>0, <2>2 DEF ReadMemory
  <2>7. ASSUME NEW s \in Slots, Into(Full(g), moves, s) = {}
        PROVE  k.p.regs[s] = g.p.regs[s]
    <3>1. Into(g, moves, s) = {}
      BY <1>7, <2>7
    <3>2. b[s] = g.p.regs[s]
      BY <3>1 DEF b, LoadedRegs
    <3>3. k.p.regs = [b EXCEPT ![<<userMode, 15>>] = g.p.regs[<<userMode, 15>>]]
      BY <1>4, <1>5, <2>1, <2>2 DEF PuttingBack
    <3> QED BY <1>3, <3>2, <3>3
  <2>8. LoadedRegs(k, moves) = d
    <3>1. \A s \in Slots : Into(Full(g), moves, s) = {} => k.p.regs[s] = Full(g).p.regs[s]
      BY <1>0, <2>7
    <3> QED BY <2>5, <2>6, <3>1 DEF d, LoadedRegs
  <2>9. LoadWords(k, moves) = [m  |-> [k EXCEPT !.p = [k.p EXCEPT !.regs = d]],
                               ok |-> Reached(Full(g), moves) = DOMAIN moves]
    BY <2>2, <2>3, <2>8, LoadWordsLoads
  <2>10. [k.p EXCEPT !.regs = d] = [g.p EXCEPT !.regs = d]
    BY <1>0, <2>2, <2>4 DEF Fit, Processors
  <2> DEFINE e == [g.p EXCEPT !.regs = d]
  <2>13. [k EXCEPT !.p = e] = [Full(g) EXCEPT !.p = e]
    <3> HIDE DEF e
    <3>1. Full(g).coprocessors = g.coprocessors
      BY FullFits
    <3> QED BY <1>0, <2>2, <3>1 DEF Fit
  <2> QED BY <1>2, <2>9, <2>10, <2>13 DEF k, h
<1>11. r.m.p.regs = b /\ r.m.p.cpsr = g.p.cpsr
  BY <1>4, <1>5
<1> HIDE DEF q
<1> QED BY <1>5, <1>6, <1>9, <1>10, <1>11 DEF Follows, b

-----------------------------------------------------------------------------
\* Blocks that are stored

\* The base written after the last word.
Written(x, b, n, e) == IF x.ok /\ b THEN Complete(Put(x.m, n, e)) ELSE x

\* r and f are x and y with the base written.
FollowsAfter(D, g, x, y, r, f) ==
    /\ Follows(D, g, r, f)
    /\ ~r.ok => r.m = x.m
    /\ f.ok => y.ok

LEMMA WrittenFollows ==
    ASSUME NEW D, NEW g, NEW x, NEW y, Follows(D, g, x, y),
           NEW b, NEW n \in 0 .. 15, NEW e \in Int
    PROVE  FollowsAfter(D, g, x, y, Written(x, b, n, e), Written(y, b, n, e))
<1> SUFFICES ASSUME NEW r, r = Written(x, b, n, e), NEW f, f = Written(y, b, n, e)
             PROVE  /\ Follows(D, g, r, f)
                    /\ ~r.ok => r.m = x.m
                    /\ f.ok => y.ok
  BY DEF FollowsAfter
<1>1. CASE x.ok /\ b
  <2> DEFINE h == Put(x.m, n, e)
  <2>1. Fit(x.m, D) /\ x.m.mapped = g.mapped /\ y = Complete(Full(x.m))
    BY <1>1 DEF Follows
  <2>2. y.ok /\ y.m = Full(x.m)
    BY <2>1 DEF Complete
  <2>3. Fit(h, D) /\ h.mapped = x.m.mapped /\ Put(Full(x.m), n, e) = Full(h)
    <3>1. Tracks(D, x.m, h, Put(Full(x.m), n, e))
      BY <2>1, PutTracks
    <3> QED BY <3>1 DEF Tracks
  <2>4. r = Complete(h) /\ f = Complete(Full(h))
    BY <1>1, <2>2, <2>3 DEF Written
  <2> HIDE DEF h
  <2>5. r.ok = TRUE /\ r.m = h /\ f = Complete(Full(r.m))
    BY <2>4 DEF Complete
  <2> QED BY <2>1, <2>2, <2>3, <2>5 DEF Follows
<1>2. CASE ~(x.ok /\ b)
  <2>1. r = x
    BY <1>2 DEF Written
  <2>2. CASE y.ok /\ b
    <3>1. ~x.ok
      BY <1>2, <2>2
    <3> QED BY <2>1, <2>2, <3>1 DEF Follows
  <2>3. CASE ~(y.ok /\ b)
    BY <2>1, <2>3 DEF Written
  <2> QED BY <2>2, <2>3
<1> QED BY <1>1, <1>2

LEMMA StoringIsRetriable ==
    ASSUME NEW D, NEW g, Fit(g, D), NEW N \in Nat, NEW moves, DOMAIN moves = 1 .. N,
           \A i \in 1 .. N : moves[i].value \in Word,
           NEW b, NEW n \in 0 .. 15, NEW e \in Int, NEW t,
           \A m : m.p = g.p => Emulate(m, t) = Written(StoreWords(m, moves), b, n, e)
    PROVE  Retriable(D, g, t)
<1> DEFINE x == StoreWords(g, moves)
           y == StoreWords(Full(g), moves)
           r == Emulate(g, t)
           f == Emulate(Full(g), t)
<1>1. /\ Follows(D, g, x, y)
      /\ x.m.p = g.p /\ x.m.coprocessors = g.coprocessors
      /\ y.m.p = g.p /\ y.ok \in BOOLEAN
      /\ y.ok => StoreWords(Full(x.m), moves) = y
  BY StoresAgree
<1>2. r = Written(x, b, n, e)
  OBVIOUS
<1>3. f = Written(y, b, n, e)
  <2>1. Full(g).p = g.p
    BY FullFits
  <2> QED BY <2>1
<1>4. \A m : m.p = g.p => Emulate(m, t) = Written(StoreWords(m, moves), b, n, e)
  OBVIOUS
<1> HIDE DEF x, y, r, f
<1>7. Follows(D, g, x, y)
  BY <1>1
<1>5. Follows(D, g, r, f) /\ (~r.ok => r.m = x.m) /\ (f.ok => y.ok)
  <2>1. FollowsAfter(D, g, x, y, Written(x, b, n, e), Written(y, b, n, e))
    BY <1>7, WrittenFollows
  <2> QED BY <1>2, <1>3, <2>1 DEF FollowsAfter
<1>6. ASSUME ~r.ok, f.ok PROVE Resumes(g, t, r.m)
  <2>1. Fit(x.m, D) /\ x.m.p.regs = g.p.regs
    BY <1>1 DEF Follows
  <2>2. Returned(g, x.m) = x.m
    BY <2>1, SamePCReturns
  <2>3. Full(x.m).p = g.p
    BY <1>1, <2>1, FullFits
  <2>4. Emulate(Full(x.m), t) = f
    BY <1>1, <1>3, <1>4, <1>5, <1>6, <2>3
  <2>5. r.m = x.m
    BY <1>5, <1>6
  <2> QED BY <1>1, <2>2, <2>4, <2>5 DEF Resumes, f
<1> QED BY <1>5, <1>6 DEF Retriable, r, f

\* The order of a block names the registers of its list, each of them once.
LEMMA OrderIsList ==
    ASSUME NEW list \in SUBSET (0 .. 15), NEW up
    PROVE  /\ Cardinality(list) \in Nat
           /\ Order(list, up) \in [1 .. Cardinality(list) -> list]
           /\ \A i, j \in 1 .. Cardinality(list) :
                 i # j => Order(list, up)[i] # Order(list, up)[j]
<1> DEFINE s == Ascending(list)
           n == Cardinality(list)
<1>1. n \in Nat /\ Sorted(s, list)
  BY AscendingIsSorted
<1>2. s \in [1 .. n -> list] /\ \A i, j \in 1 .. n : i < j => s[i] < s[j]
  BY <1>1 DEF Sorted
<1> HIDE DEF s, n
<1>3. \A i, j \in 1 .. n : i # j => s[i] # s[j]
  <2>1. ASSUME NEW i \in 1 .. n, NEW j \in 1 .. n, i # j PROVE s[i] # s[j]
    <3>1. s[i] \in 0 .. 15 /\ s[j] \in 0 .. 15
      BY <1>2
    <3>2. i < j \/ j < i
      BY <1>1, <2>1
    <3> QED BY <1>2, <3>1, <3>2
  <2> QED BY <2>1
<1>4. Len(s) = n
  BY <1>1, <1>2, LenProperties, SeqDef
<1> DEFINE v == [i \in 1 .. n |-> s[(n - i) + 1]]
<1>5. Reverse(s) = v
  BY <1>4 DEF Reverse
<1>6. v \in [1 .. n -> list] /\ \A i, j \in 1 .. n : i # j => v[i] # v[j]
  <2>1. \A i \in 1 .. n : (n - i) + 1 \in 1 .. n
    BY <1>1
  <2>2. \A i, j \in 1 .. n : i # j => (n - i) + 1 # (n - j) + 1
    BY <1>1
  <2> QED BY <1>2, <1>3, <2>1, <2>2
<1>7. Order(list, up) = s \/ Order(list, up) = v
  BY <1>5 DEF Order, s
<1> HIDE DEF v
<1> QED BY <1>1, <1>2, <1>3, <1>6, <1>7 DEF n

\* The words of a stm.
StoredRegister(g, t, n) == IF t.forceUser THEN GetUserRegister(g.p, n).value ELSE Reg(g, n)

StoreMoves(g, t) ==
    [i \in DOMAIN Order(t.list, t.up) |->
        [address |-> BlockAddress(Reg(g, t.rn), t, i),
         value   |-> StoredRegister(g, t, Order(t.list, t.up)[i])]]

LEMMA BlockEndIsNumber ==
    ASSUME NEW base \in Int, NEW t, t.list \in SUBSET (0 .. 15)
    PROVE  BlockEnd(base, t) \in Word /\ BlockEnd(base, t) \in Int
<1>1. 4 * Cardinality(t.list) \in Int
  BY ListsAreFinite
<1>2. BlockEnd(base, t) \in Word
  BY <1>1, DisplacedIsWord DEF BlockEnd
<1> QED BY <1>2, WordIsNumber

LEMMA UserRegisterIsWord ==
    ASSUME NEW D, NEW g, Fit(g, D), NEW n \in 0 .. 15
    PROVE  GetUserRegister(g.p, n).value \in Word
<1>1. <<userMode, n>> \in Slots /\ g.p.regs \in [Slots -> Word]
  BY DEF Slots, Fit, Processors
<1>2. 0 \in Word
  BY WordsAreNumbers
<1> QED BY <1>1, <1>2 DEF GetUserRegister

LEMMA BlockStoreIsRetriable ==
    ASSUME NEW D, NEW g, Fit(g, D), NEW t, t.format = "block", ~t.load,
           t.rn \in 0 .. 15, t.list \in SUBSET (0 .. 15)
    PROVE  Retriable(D, g, t)
<1> DEFINE order == Order(t.list, t.up)
           n == Cardinality(t.list)
           moves == StoreMoves(g, t)
           e == BlockEnd(Reg(g, t.rn), t)
<1>1. n \in Nat /\ order \in [1 .. n -> t.list]
  BY OrderIsList
<1>2. DOMAIN moves = 1 .. n
  BY <1>1 DEF StoreMoves
<1>3. ASSUME NEW i \in 1 .. n PROVE moves[i].value \in Word
  <2>1. order[i] \in 0 .. 15
    BY <1>1
  <2>2. moves[i].value = StoredRegister(g, t, order[i])
    BY <1>1 DEF StoreMoves
  <2> HIDE DEF order, moves
  <2>3. Reg(g, order[i]) \in Word
    BY <2>1, RegIsWord
  <2>4. GetUserRegister(g.p, order[i]).value \in Word
    BY <2>1, UserRegisterIsWord
  <2> QED BY <2>2, <2>3, <2>4 DEF StoredRegister
<1>4. e \in Int
  BY RegIsWord, BlockEndIsNumber
<1>5. ASSUME NEW m, m.p = g.p
      PROVE  Emulate(m, t) = Written(StoreWords(m, moves), t.writeBack, t.rn, e)
  <2>1. Emulate(m, t) = blockDataStore(m, t)
    BY DEF Emulate, BlockTransfer
  <2>2. StoreMoves(m, t) = moves /\ Reg(m, t.rn) = Reg(g, t.rn)
    BY <1>5 DEF StoreMoves, StoredRegister, Reg
  <2>3. blockDataStore(m, t)
          = Written(StoreWords(m, StoreMoves(m, t)), t.writeBack, t.rn,
                    BlockEnd(Reg(m, t.rn), t))
    BY DEF blockDataStore, StoreMoves, StoredRegister, Written
  <2> QED BY <2>1, <2>2, <2>3
<1> HIDE DEF moves, e, n
<1>6. \A m : m.p = g.p => Emulate(m, t) = Written(StoreWords(m, moves), t.writeBack, t.rn, e)
  BY <1>5
<1> QED BY <1>1, <1>2, <1>3, <1>4, <1>6, StoringIsRetriable

-----------------------------------------------------------------------------
\* Blocks that are loaded into a bank

LoadBank(q, b) == IF b.forceUser /\ 15 \notin b.list THEN userMode ELSE q.cpsr.mode

LoadSlots(q, b) == {RegisterSlot(LoadBank(q, b), n) : n \in b.loaded}

LoadedWord(q, b, s) ==
    b.word[CHOOSE n \in b.loaded : RegisterSlot(LoadBank(q, b), n) = s]

BlockRegs(q, b) ==
    [s \in Slots |-> IF s \in LoadSlots(q, b) THEN LoadedWord(q, b, s) ELSE q.regs[s]]

\* What follows the loads.
BlockTail(loaded, b) ==
    LET based == IF b.writeBack /\ b.rn \notin b.list
                   THEN SetRegister(loaded, b.rn, b.end).p ELSE loaded
        saved == GetSPSR(based)
    IN  IF b.loaded # b.list THEN Fail(loaded)
        ELSE IF ~(b.forceUser /\ 15 \in b.list) THEN Done(based)
        ELSE IF saved.ok THEN SetCPSR(based, saved.value)
        ELSE Fail(based)

LEMMA BlockParts ==
    ASSUME NEW q, NEW b
    PROVE  /\ BlockDataLoad(q, b) = [q EXCEPT !.regs = BlockRegs(q, b)]
           /\ BlockDataTransfer(q, b) = BlockTail(BlockDataLoad(q, b), b)
<1>1. BlockDataLoad(q, b) = [q EXCEPT !.regs = BlockRegs(q, b)]
  BY DEF BlockDataLoad, BlockRegs, LoadSlots, LoadedWord, LoadBank
<1>2. BlockDataTransfer(q, b) = BlockTail(BlockDataLoad(q, b), b)
  BY DEF BlockDataTransfer, BlockTail
<1> QED BY <1>1, <1>2

\* What a block loads: registers of its list, and a word for each.
Loads(b) ==
    /\ b.loaded \subseteq b.list /\ b.list \in SUBSET (0 .. 15)
    /\ \A n \in b.loaded : b.word[n] \in Word
    /\ b.rn \in 0 .. 15 /\ b.end \in Word

LEMMA BlockDataLoadKeeps ==
    ASSUME NEW q, Good(q), NEW b, Loads(b), NEW h, h = BlockDataLoad(q, b)
    PROVE  /\ Good(h) /\ h.cpsr = q.cpsr /\ h.spsr = q.spsr
           /\ h.regs = BlockRegs(q, b)
<1> DEFINE after == BlockRegs(q, b)
<1>1. h = [q EXCEPT !.regs = after]
  BY BlockParts
<1>2. ASSUME NEW s \in LoadSlots(q, b) PROVE LoadedWord(q, b, s) \in Word
  <2>1. \E n \in b.loaded : RegisterSlot(LoadBank(q, b), n) = s
    BY <1>2 DEF LoadSlots
  <2>2. (CHOOSE n \in b.loaded : RegisterSlot(LoadBank(q, b), n) = s) \in b.loaded
    BY <2>1, Zenon
  <2> QED BY <2>2 DEF LoadedWord, Loads
<1>3. after \in [Slots -> Word]
  BY <1>2 DEF BlockRegs, Good, Processors
<1> HIDE DEF after
<1>4. Good(h) /\ h.cpsr = q.cpsr /\ h.spsr = q.spsr /\ h.regs = after
  BY <1>1, <1>3 DEF Good, Processors
<1> QED BY <1>4 DEF after

LEMMA BlockTailKeeps ==
    ASSUME NEW h, Good(h), NEW b, Loads(b)
    PROVE  /\ Good(BlockTail(h, b).p) /\ BlockTail(h, b).ok \in BOOLEAN
           /\ b.loaded # b.list => BlockTail(h, b) = Fail(h)
<1> DEFINE based == IF b.writeBack /\ b.rn \notin b.list
                      THEN SetRegister(h, b.rn, b.end).p ELSE h
           saved == GetSPSR(based)
<1>1. BlockTail(h, b) = IF b.loaded # b.list THEN Fail(h)
                        ELSE IF ~(b.forceUser /\ 15 \in b.list) THEN Done(based)
                        ELSE IF saved.ok THEN SetCPSR(based, saved.value)
                        ELSE Fail(based)
  BY DEF BlockTail
<1>2. Good(based)
  <2>1. b.rn \in Nat /\ b.end \in Word
    BY DEF Loads
  <2>2. Good(SetRegister(h, b.rn, b.end).p)
    <3> DEFINE n == b.rn
    <3>1. n \in Nat
      BY <2>1
    <3> HIDE DEF n
    <3>2. Good(SetRegister(h, n, b.end).p)
      BY <2>1, <3>1, SetRegisterKeeps DEF Keeps
    <3> QED BY <3>2 DEF n
  <2> QED BY <2>2
<1> HIDE DEF based
<1>3. saved.value \in Status
  BY <1>2, Reads
<1> HIDE DEF saved
<1>4. Good(SetCPSR(based, saved.value).p) /\ SetCPSR(based, saved.value).ok \in BOOLEAN
  BY <1>2, <1>3, SetCPSRKeeps DEF Keeps
<1>5. ASSUME NEW q, Good(q)
      PROVE  /\ Good(Fail(q).p) /\ Fail(q).ok \in BOOLEAN
             /\ Good(Done(q).p) /\ Done(q).ok \in BOOLEAN
  BY <1>5 DEF Fail, Done
<1>6. CASE b.loaded # b.list
  <2>1. BlockTail(h, b) = Fail(h)
    BY <1>1, <1>6
  <2> QED BY <1>5, <2>1
<1>7. CASE b.loaded = b.list
  <2>1. \/ BlockTail(h, b) = Done(based)
        \/ BlockTail(h, b) = SetCPSR(based, saved.value)
        \/ BlockTail(h, b) = Fail(based)
    BY <1>1, <1>7
  <2>2. Good(BlockTail(h, b).p) /\ BlockTail(h, b).ok \in BOOLEAN
    BY <1>2, <1>4, <1>5, <2>1
  <2> QED BY <1>7, <2>2
<1> QED BY <1>6, <1>7

\* The addresses of an ldm, the registers it can read, and their words.
BlockMoves(base, t) ==
    [i \in DOMAIN Order(t.list, t.up) |-> [address |-> BlockAddress(base, t, i)]]

Place(t, n) == CHOOSE i \in DOMAIN Order(t.list, t.up) : Order(t.list, t.up)[i] = n

ReadRegisters(g, t) ==
    {Order(t.list, t.up)[i] : i \in Reached(g, BlockMoves(Reg(g, t.rn), t))}

WordFor(g, t, n) ==
    ReadMemory(g, BlockMoves(Reg(g, t.rn), t)[Place(t, n)].address, 4)

LEMMA blockDataLoadIs ==
    ASSUME NEW g, NEW t
    PROVE  blockDataLoad(g, t) =
             [rn |-> t.rn, list |-> t.list, loaded |-> ReadRegisters(g, t),
              word |-> [n \in ReadRegisters(g, t) |-> WordFor(g, t, n)],
              forceUser |-> t.forceUser, writeBack |-> t.writeBack,
              end |-> BlockEnd(Reg(g, t.rn), t)]
BY DEF blockDataLoad, ReadRegisters, WordFor, Place, BlockMoves

LEMMA BlockMovesAreTyped ==
    ASSUME NEW base \in Int, NEW t, t.list \in SUBSET (0 .. 15), NEW n,
           n = Cardinality(t.list)
    PROVE  /\ n \in Nat /\ DOMAIN BlockMoves(base, t) = 1 .. n
           /\ \A i \in 1 .. n : BlockMoves(base, t)[i].address \in Word
<1>1. n \in Nat /\ DOMAIN Order(t.list, t.up) = 1 .. n
  BY OrderIsList
<1>2. ASSUME NEW i \in 1 .. n PROVE BlockAddress(base, t, i) \in Word
  <2>1. 4 * (IF t.preindex THEN i ELSE i - 1) \in Int
    BY <1>1
  <2> QED BY <2>1, DisplacedIsWord DEF BlockAddress
<1> QED BY <1>1, <1>2 DEF BlockMoves

\* Each register has one place in the order.
LEMMA PlaceOfRegister ==
    ASSUME NEW t, t.list \in SUBSET (0 .. 15), NEW i \in DOMAIN Order(t.list, t.up)
    PROVE  Place(t, Order(t.list, t.up)[i]) = i
<1> DEFINE n == Cardinality(t.list)
           order == Order(t.list, t.up)
           k == Place(t, order[i])
<1>1. DOMAIN order = 1 .. n /\ \A x, y \in 1 .. n : x # y => order[x] # order[y]
  BY OrderIsList
<1>2. k \in DOMAIN order /\ order[k] = order[i]
  BY Zenon DEF Place
<1> HIDE DEF k, order, n
<1>3. k = i
  BY <1>1, <1>2 DEF order
<1> QED BY <1>3 DEF k, order

LEMMA BlockLoads ==
    ASSUME NEW D, NEW g, Fit(g, D), Covers(D), NEW t,
           t.rn \in 0 .. 15, t.list \in SUBSET (0 .. 15)
    PROVE  Loads(blockDataLoad(g, t))
<1> DEFINE base == Reg(g, t.rn)
           moves == BlockMoves(base, t)
           n == Cardinality(t.list)
           order == Order(t.list, t.up)
<1>1. base \in Int
  BY RegIsWord
<1> HIDE DEF base
<1>2. n \in Nat /\ DOMAIN moves = 1 .. n /\ \A i \in 1 .. n : moves[i].address \in Word
  BY <1>1, BlockMovesAreTyped
<1>3. order \in [1 .. n -> t.list]
  BY OrderIsList
<1> HIDE DEF moves, n
<1>4. ReadRegisters(g, t) \subseteq t.list
  <2>1. ReadRegisters(g, t) = {order[i] : i \in Reached(g, moves)}
    BY DEF ReadRegisters, moves, base
  <2>2. Reached(g, moves) \subseteq 1 .. n
    BY <1>2 DEF Reached
  <2> HIDE DEF order
  <2> QED BY <1>3, <2>1, <2>2
<1>5. ASSUME NEW k \in ReadRegisters(g, t) PROVE WordFor(g, t, k) \in Word
  <2>1. PICK i \in Reached(g, moves) : k = order[i]
    BY DEF ReadRegisters, moves, base
  <2>2. i \in 1 .. n
    BY <1>2 DEF Reached
  <2>3. Place(t, k) = i
    BY <1>3, <2>1, <2>2, PlaceOfRegister
  <2>4. WordFor(g, t, k) = ReadMemory(g, moves[i].address, 4)
    BY <2>3 DEF WordFor, moves, base
  <2> QED BY <1>2, <2>2, <2>4, LoadedIsWord
<1>6. BlockEnd(base, t) \in Word
  BY <1>1, BlockEndIsNumber
<1> QED BY <1>4, <1>5, <1>6, blockDataLoadIs DEF Loads, base

\* What a block loads depends on its base, the pages and the words.
LEMMA SameBlock ==
    ASSUME NEW g, NEW h, NEW t, h.mapped = g.mapped, h.cells = g.cells,
           Reg(h, t.rn) = Reg(g, t.rn)
    PROVE  blockDataLoad(h, t) = blockDataLoad(g, t)
<1>1. ReadRegisters(h, t) = ReadRegisters(g, t)
  BY SameReached DEF ReadRegisters
<1>2. \A n : WordFor(h, t, n) = WordFor(g, t, n)
  BY DEF WordFor, ReadMemory
<1> QED BY <1>1, <1>2, blockDataLoadIs

\* With all the pages a block loads no fewer registers, and the same words.
LEMMA BlockWithAllPages ==
    ASSUME NEW D, NEW g, Fit(g, D), Covers(D), NEW t,
           t.rn \in 0 .. 15, t.list \in SUBSET (0 .. 15),
           NEW b, b = blockDataLoad(g, t), NEW F, F = blockDataLoad(Full(g), t)
    PROVE  /\ b.loaded \subseteq F.loaded /\ b.loaded \subseteq b.list
           /\ b.list = t.list /\ F.list = t.list /\ b.rn = t.rn
           /\ F.forceUser = b.forceUser
           /\ b.loaded = b.list => F = b
<1>0. Reg(Full(g), t.rn) = Reg(g, t.rn) /\ Full(g).cells = g.cells /\ Fit(Full(g), D)
  BY RegIsWord, FullFits
<1>1. ReadRegisters(g, t) \subseteq ReadRegisters(Full(g), t)
  BY <1>0, MoreIsReached DEF ReadRegisters
<1>2. \A n : WordFor(Full(g), t, n) = WordFor(g, t, n)
  BY <1>0 DEF WordFor, ReadMemory
<1>3. Loads(b) /\ Loads(F)
  BY <1>0, BlockLoads
<1>4. /\ b.rn = t.rn /\ b.list = t.list /\ b.loaded = ReadRegisters(g, t)
      /\ b.forceUser = t.forceUser
  BY blockDataLoadIs
<1>5. /\ F.list = t.list /\ F.loaded = ReadRegisters(Full(g), t) /\ F.forceUser = t.forceUser
  BY blockDataLoadIs
<1>6. ASSUME b.loaded = b.list PROVE F = b
  <2>1. ReadRegisters(Full(g), t) = ReadRegisters(g, t)
    BY <1>1, <1>3, <1>4, <1>5, <1>6 DEF Loads
  <2> QED BY <1>0, <1>2, <2>1, blockDataLoadIs
<1> QED BY <1>1, <1>3, <1>4, <1>5, <1>6 DEF Loads

\* The bank that t chooses, and the registers after all of its words, are the
\* same although some of the words have been loaded before.
LEMMA BlockRegsAgain ==
    ASSUME NEW D, NEW g, Fit(g, D), NEW b, Loads(b), NEW F, Loads(F),
           b.loaded \subseteq F.loaded, F.list = b.list, F.forceUser = b.forceUser,
           NEW h, Good(h), h.cpsr = g.p.cpsr,
           NEW j, Fit(j, D), j.p.regs = BlockRegs(g.p, b), h.regs = PuttingBack(g, j)
    PROVE  BlockRegs(h, F) = BlockRegs(g.p, F)
<1>1. /\ LoadBank(h, F) = LoadBank(g.p, F)
      /\ LoadBank(g.p, b) = LoadBank(g.p, F)
  BY DEF LoadBank
<1>2. /\ LoadSlots(h, F) = LoadSlots(g.p, F)
      /\ LoadSlots(g.p, b) \subseteq LoadSlots(g.p, F)
  BY <1>1 DEF LoadSlots
<1>3. \A s : LoadedWord(h, F, s) = LoadedWord(g.p, F, s)
  BY <1>1 DEF LoadedWord
<1>4. ASSUME NEW s \in Slots, s \notin LoadSlots(g.p, F)
      PROVE  h.regs[s] = g.p.regs[s]
  <2>1. j.p.regs[s] = g.p.regs[s]
    BY <1>2, <1>4 DEF BlockRegs
  <2>2. j.p.regs \in [Slots -> Word]
    BY DEF Fit, Processors
  <2> QED BY <2>1, <2>2 DEF PuttingBack
<1> QED BY <1>2, <1>3, <1>4 DEF BlockRegs

LEMMA SlotsDifferAnywhere ==
    ASSUME NEW m1, NEW m2, NEW n \in 0 .. 15, NEW k \in 0 .. 15, n # k
    PROVE  RegisterSlot(m1, n) # RegisterSlot(m2, k)
BY DEF RegisterSlot

\* A base that is not on the list is read again as it was.
LEMMA BaseIsKept ==
    ASSUME NEW D, NEW g, Fit(g, D), NEW b, Loads(b), b.rn \notin b.list,
           NEW j, Fit(j, D), j.p.regs = BlockRegs(g.p, b), j.p.cpsr = g.p.cpsr
    PROVE  Reg(Returned(g, j), b.rn) = Reg(g, b.rn)
<1> DEFINE h == Returned(g, j)
           s == RegisterSlot(g.p.cpsr.mode, b.rn)
<1>0. h = Returned(g, j)
  OBVIOUS
<1>1. b.rn \in 0 .. 15
  BY DEF Loads
<1> HIDE DEF h
<1>2. Fit(h, D) /\ h.p.cpsr = j.p.cpsr /\ h.p.regs = PuttingBack(g, j)
  BY <1>0, ReturnedFits
<1>3. Reg(h, b.rn) = h.p.regs[s] /\ Reg(g, b.rn) = g.p.regs[s]
  <2> DEFINE n == b.rn
  <2>1. n \in 0 .. 15
    BY <1>1
  <2> HIDE DEF n
  <2>2. Reg(h, n) = h.p.regs[RegisterSlot(h.p.cpsr.mode, n)]
    BY <1>2, <2>1, RegIsWord
  <2>3. Reg(g, n) = g.p.regs[RegisterSlot(g.p.cpsr.mode, n)]
    BY <2>1, RegIsWord
  <2> QED BY <1>2, <2>2, <2>3 DEF n
<1>4. s \in Slots
  BY <1>1, SlotExists DEF Fit, Good
<1>5. s \notin LoadSlots(g.p, b)
  BY <1>1, SlotsDifferAnywhere DEF LoadSlots, Loads
<1> HIDE DEF s
<1>6. j.p.regs[s] = g.p.regs[s]
  BY <1>4, <1>5 DEF BlockRegs
<1>7. j.p.regs \in [Slots -> Word]
  BY DEF Fit, Processors
<1>8. h.p.regs[s] = g.p.regs[s]
  BY <1>2, <1>4, <1>6, <1>7 DEF PuttingBack
<1> QED BY <1>0, <1>3, <1>8

LEMMA BlockLoadIsRetriable ==
    ASSUME NEW D, NEW g, Fit(g, D), Covers(D), NEW t, t.format = "block", t.load,
           t.rn \in 0 .. 15, t.list \in SUBSET (0 .. 15)
    PROVE  Retriable(D, g, t)
<1> DEFINE b == blockDataLoad(g, t)
           F == blockDataLoad(Full(g), t)
           low == BlockDataLoad(g.p, b)
           all == BlockDataLoad(g.p, F)
           x == BlockTail(low, b)
           y == BlockTail(all, F)
           r == Emulate(g, t)
           f == Emulate(Full(g), t)
<1>0. Fit(Full(g), D) /\ Full(g).p = g.p /\ Good(g.p) /\ Full(g).mapped = Pages
      /\ Full(g).coprocessors = g.coprocessors /\ Full(g).cells = g.cells
  BY FullFits DEF Fit
<1>1. \A m : Emulate(m, t) =
               [m  |-> [m EXCEPT !.p = BlockTail(BlockDataLoad(m.p, blockDataLoad(m, t)),
                                                 blockDataLoad(m, t)).p],
                ok |-> BlockTail(BlockDataLoad(m.p, blockDataLoad(m, t)),
                                 blockDataLoad(m, t)).ok]
  BY BlockParts DEF Emulate, BlockTransfer
<1>2. r.m = [g EXCEPT !.p = x.p] /\ r.ok = x.ok
  <2>1. r = [m |-> [g EXCEPT !.p = x.p], ok |-> x.ok]
    BY <1>1
  <2> HIDE DEF r, x
  <2> QED BY <2>1
<1>3. f = [m |-> [Full(g) EXCEPT !.p = y.p], ok |-> y.ok]
  BY <1>0, <1>1
<1>4. Loads(b) /\ Loads(F)
  BY <1>0, BlockLoads
<1>5. /\ b.loaded \subseteq F.loaded /\ b.loaded \subseteq b.list
      /\ b.list = t.list /\ F.list = t.list /\ b.rn = t.rn
      /\ F.forceUser = b.forceUser
      /\ b.loaded = b.list => F = b
  BY BlockWithAllPages
<1> HIDE DEF b, F
<1>6. /\ Good(low) /\ low.cpsr = g.p.cpsr /\ low.spsr = g.p.spsr
      /\ low.regs = BlockRegs(g.p, b)
  BY <1>0, <1>4, BlockDataLoadKeeps
<1>7. /\ Good(x.p) /\ x.ok \in BOOLEAN /\ (b.loaded # b.list => x = Fail(low))
  BY <1>4, <1>6, BlockTailKeeps
<1>8. b.loaded = b.list => y = x
  BY <1>5
<1> HIDE DEF low, x
<1>9. /\ Fit(r.m, D) /\ r.m.p = x.p /\ r.m.cells = g.cells /\ r.m.mapped = g.mapped
      /\ r.m.coprocessors = g.coprocessors /\ [Full(g) EXCEPT !.p = x.p] = Full(r.m)
  BY <1>2, <1>7, OtherProcessor
<1> HIDE DEF y, r, f
<1>10. ASSUME r.ok PROVE f = Complete(Full(r.m))
  <2>1. y = x
    <3>1. x.ok /\ ~Fail(low).ok
      BY <1>2, <1>10 DEF Fail
    <3> QED BY <1>7, <1>8, <3>1
  <2> QED BY <1>2, <1>3, <1>9, <1>10, <2>1 DEF Complete
<1>11. Follows(D, g, r, f)
  BY <1>2, <1>7, <1>9, <1>10 DEF Follows
<1>12. ASSUME ~r.ok, f.ok, Restartable(t) PROVE Resumes(g, t, r.m)
  <2> DEFINE j == r.m
             h == Returned(g, j)
             k == Full(h)
  <2>1. x = Fail(low) /\ t.rn \notin t.list
    <3>1. y.ok /\ ~x.ok
      BY <1>2, <1>3, <1>12
    <3>2. b.loaded # b.list
      BY <1>8, <3>1
    <3> QED BY <1>7, <1>12, <3>2 DEF Restartable
  <2>2. Fit(j, D) /\ j.p = low /\ h = Returned(g, j)
    BY <1>9, <2>1 DEF Fail
  <2> HIDE DEF h, j
  <2>3. /\ Fit(h, D) /\ h.mapped = j.mapped /\ h.cells = j.cells
        /\ h.coprocessors = j.coprocessors
        /\ h.p.cpsr = j.p.cpsr /\ h.p.spsr = j.p.spsr
        /\ h.p.regs = PuttingBack(g, j)
    BY <2>2, ReturnedFits
  <2>16. Reg(k, t.rn) = Reg(h, t.rn)
    BY <2>3, RegIsWord
  <2>4. Fit(k, D) /\ k.p = h.p /\ k.cells = h.cells /\ k.mapped = Pages
        /\ k.coprocessors = h.coprocessors /\ Reg(k, t.rn) = Reg(h, t.rn)
    BY <2>3, <2>16, FullFits
  <2>5. Reg(h, b.rn) = Reg(g, b.rn)
    BY <1>4, <1>5, <1>6, <2>1, <2>2, BaseIsKept
  <2>6. Reg(k, t.rn) = Reg(Full(g), t.rn)
    BY <1>5, <2>4, <2>5, RegIsWord
  <2>7. k.cells = Full(g).cells
    BY <1>0, <1>9, <2>3, <2>4 DEF j
  <2> HIDE DEF k
  <2>8. blockDataLoad(k, t) = F
    BY <1>0, <2>4, <2>6, <2>7, SameBlock DEF F
  <2>9. Good(k.p) /\ k.p.cpsr = g.p.cpsr /\ k.p.spsr = g.p.spsr
    BY <1>6, <2>2, <2>3, <2>4 DEF Fit
  <2>10. BlockRegs(k.p, F) = BlockRegs(g.p, F)
    <3>1. k.p.regs = PuttingBack(g, j) /\ j.p.regs = BlockRegs(g.p, b)
      BY <1>6, <2>2, <2>3, <2>4
    <3>2. F.list = b.list
      BY <1>5
    <3> QED BY <1>4, <1>5, <2>2, <2>9, <3>1, <3>2, BlockRegsAgain
  <2>11. BlockDataLoad(k.p, F) = all
    <3> DEFINE regs == BlockRegs(g.p, F)
    <3>1. BlockDataLoad(k.p, F) = [k.p EXCEPT !.regs = regs] /\ all = [g.p EXCEPT !.regs = regs]
      BY <2>10, BlockParts
    <3> HIDE DEF regs, all
    <3> QED BY <1>0, <2>9, <3>1 DEF Good, Processors
  <2>12. Emulate(k, t) = [m |-> [k EXCEPT !.p = y.p], ok |-> y.ok]
    BY <1>1, <2>8, <2>11 DEF y
  <2>13. [k EXCEPT !.p = y.p] = [Full(g) EXCEPT !.p = y.p]
    <3> DEFINE q == y.p
    <3> HIDE DEF q
    <3>1. k.mapped = Full(g).mapped /\ k.coprocessors = Full(g).coprocessors
      BY <1>0, <1>9, <2>3, <2>4 DEF j
    <3>2. [k EXCEPT !.p = q] = [Full(g) EXCEPT !.p = q]
      BY <1>0, <2>3, <2>4, <2>7, <3>1 DEF Fit, k
    <3> QED BY <3>2 DEF q
  <2>14. Emulate(k, t) = f
    BY <1>3, <2>12, <2>13
  <2>15. j.p.cpsr = g.p.cpsr
    BY <1>6, <2>2
  <2> QED BY <2>14, <2>15 DEF Resumes, f, k, h, j
<1> QED BY <1>11, <1>12 DEF Retriable, r, f

-----------------------------------------------------------------------------
\* THUMB blocks

\* A list of registers and perhaps one more.
WithExtra(list, extra, n) == Ascending(list) \o (IF extra THEN <<n>> ELSE <<>>)

ListOf(s, S) == Len(s) \in Nat /\ s \in [1 .. Len(s) -> S]

LEMMA ListWithExtra ==
    ASSUME NEW list \in SUBSET (0 .. 15), NEW extra, NEW n \in 0 .. 15
    PROVE  /\ ListOf(WithExtra(list, extra, n), list \union {n})
           /\ ListOf(Reverse(WithExtra(list, extra, n)), list \union {n})
<1> SUFFICES ASSUME NEW s, s = WithExtra(list, extra, n)
             PROVE  /\ Len(s) \in Nat /\ s \in [1 .. Len(s) -> list \union {n}]
                    /\ Reverse(s) \in [1 .. Len(s) -> list \union {n}]
                    /\ Len(Reverse(s)) = Len(s)
  BY DEF ListOf
<1> DEFINE S == list \union {n}
           order == Ascending(list)
           tail == IF extra THEN <<n>> ELSE <<>>
<1>1. order \in Seq(S)
  <2>1. Cardinality(list) \in Nat /\ order \in [1 .. Cardinality(list) -> list]
    BY AscendingIsSorted DEF Sorted
  <2>2. order \in [1 .. Cardinality(list) -> S]
    BY <2>1
  <2> QED BY <2>1, <2>2, SeqDef
<1>2. tail \in Seq(S)
  <2>1. n \in S
    OBVIOUS
  <2> HIDE DEF S
  <2>2. <<n>> \in Seq(S)
    BY <2>1
  <2>3. <<>> \in Seq(S)
    BY EmptySeq
  <2> QED BY <2>2, <2>3
<1>3. s = order \o tail
  BY DEF WithExtra
<1> HIDE DEF S, order, tail
<1>4. s \in Seq(S)
  BY <1>1, <1>2, <1>3, ConcatProperties
<1>5. Len(s) \in Nat /\ s \in [1 .. Len(s) -> S]
  BY <1>4, LenProperties
<1> DEFINE k == Len(s)
           v == [i \in 1 .. k |-> s[(k - i) + 1]]
<1>6. Reverse(s) = v
  BY DEF Reverse
<1> HIDE DEF k
<1>7. k \in Nat /\ s \in [1 .. k -> S]
  BY <1>5 DEF k
<1>8. v \in [1 .. k -> S]
  <2>1. \A i \in 1 .. k : (k - i) + 1 \in 1 .. k
    BY <1>7
  <2> QED BY <1>7, <2>1
<1> HIDE DEF v
<1>9. Len(v) = k
  <2>1. v \in Seq(S)
    BY <1>7, <1>8, SeqDef
  <2> QED BY <1>7, <1>8, <2>1, LenProperties
<1> QED BY <1>5, <1>6, <1>8, <1>9 DEF S, k

PushOrder(t) == Reverse(WithExtra(t.list, t.extra, 14))

PushMoves(g, t) ==
    [i \in DOMAIN PushOrder(t) |->
        [address |-> Displaced(Reg(g, 13), FALSE, 4 * i),
         value   |-> Reg(g, PushOrder(t)[i])]]

PushEnd(g, t) == Displaced(Reg(g, 13), FALSE, 4 * Len(PushOrder(t)))

LEMMA PushParts ==
    ASSUME NEW m, NEW t
    PROVE  pushRegisters(m, t)
             = Written(StoreWords(m, PushMoves(m, t)), TRUE, 13, PushEnd(m, t))
BY Zenon DEF pushRegisters, Written, PushMoves, PushEnd, PushOrder, WithExtra

LEMMA PushIsRetriable ==
    ASSUME NEW D, NEW g, Fit(g, D), NEW t, ~t.load,
           \A m : Emulate(m, t) = PushPopRegisters(m, t),
           t.list \in SUBSET (0 .. 15)
    PROVE  Retriable(D, g, t)
<1> DEFINE order == PushOrder(t)
           n == Len(order)
           moves == PushMoves(g, t)
           e == PushEnd(g, t)
<1>0. 13 \in 0 .. 15 /\ 14 \in 0 .. 15
  OBVIOUS
<1>1. n \in Nat /\ order \in [1 .. n -> 0 .. 15]
  <2>1. ListOf(order, t.list \union {14})
    BY <1>0, ListWithExtra DEF PushOrder
  <2> HIDE DEF order
  <2> QED BY <2>1 DEF ListOf
<1>2. ASSUME NEW m, m.p = g.p
      PROVE  Emulate(m, t) = Written(StoreWords(m, moves), TRUE, 13, e)
  <2>1. Emulate(m, t) = pushRegisters(m, t)
    BY DEF PushPopRegisters
  <2>2. PushMoves(m, t) = moves /\ PushEnd(m, t) = e
    BY <1>2 DEF PushMoves, PushEnd, Reg
  <2> QED BY <2>1, <2>2, PushParts
<1> HIDE DEF n
<1>3. DOMAIN moves = 1 .. n
  BY <1>1 DEF PushMoves
<1>4. ASSUME NEW i \in 1 .. n PROVE moves[i].value \in Word
  <2>1. order[i] \in 0 .. 15
    BY <1>1
  <2>2. moves[i].value = Reg(g, order[i])
    BY <1>1 DEF PushMoves
  <2> HIDE DEF moves, order
  <2> QED BY <2>1, <2>2, RegIsWord
<1>5. e \in Int
  <2>0. Reg(g, 13) \in Nat
    BY <1>0, RegIsWord
  <2>1. Reg(g, 13) - 4 * n \in Int
    BY <1>1, <2>0
  <2>2. e = (Reg(g, 13) - 4 * n) % WordSpace
    BY DEF PushEnd, Displaced, n
  <2>3. (Reg(g, 13) - 4 * n) % WordSpace \in Word
    BY <2>1, Remainders
  <2> HIDE DEF e
  <2>4. e \in Word
    BY <2>2, <2>3
  <2> QED BY <2>4, WordIsNumber
<1> HIDE DEF moves, e
<1>6. \A m : m.p = g.p => Emulate(m, t) = Written(StoreWords(m, moves), TRUE, 13, e)
  BY <1>2
<1> QED BY <1>0, <1>1, <1>3, <1>4, <1>5, <1>6, StoringIsRetriable

\* Loads into the current bank, and what follows them.
LEMMA LoadingIsRetriable ==
    ASSUME NEW D, NEW g, Fit(g, D), Covers(D), NEW N \in Nat, NEW moves,
           DOMAIN moves = 1 .. N, \A i \in 1 .. N : moves[i].address \in Word,
           NEW b, NEW n \in 0 .. 15, NEW e \in Int, NEW t,
           Emulate(g, t) = Written(LoadWords(g, moves), b, n, e),
           Emulate(Full(g), t) = Written(LoadWords(Full(g), moves), b, n, e),
           NEW k, k = Full(Returned(g, LoadWords(g, moves).m)),
           Restartable(t) => Emulate(k, t) = Written(LoadWords(k, moves), b, n, e)
    PROVE  Retriable(D, g, t)
<1> DEFINE x == LoadWords(g, moves)
           y == LoadWords(Full(g), moves)
           r == Emulate(g, t)
           f == Emulate(Full(g), t)
<1>1. /\ Follows(D, g, x, y) /\ x.m.p.cpsr = g.p.cpsr
      /\ y.ok => LoadWords(Full(Returned(g, x.m)), moves) = y
  BY LoadsAgree
<1>2. /\ r = Written(x, b, n, e) /\ f = Written(y, b, n, e)
      /\ k = Full(Returned(g, x.m))
  OBVIOUS
<1> HIDE DEF x, y, r, f
<1>3. Follows(D, g, x, y)
  BY <1>1
<1>6. r = Written(x, b, n, e)
  BY <1>2
<1>7. f = Written(y, b, n, e)
  BY <1>2
<1>4. Follows(D, g, r, f) /\ (~r.ok => r.m = x.m) /\ (f.ok => y.ok)
  <2>1. FollowsAfter(D, g, x, y, Written(x, b, n, e), Written(y, b, n, e))
    BY <1>3, WrittenFollows
  <2> QED BY <1>6, <1>7, <2>1 DEF FollowsAfter
<1>5. ASSUME ~r.ok, f.ok, Restartable(t) PROVE Resumes(g, t, r.m)
  <2>1. r.m = x.m /\ LoadWords(k, moves) = y
    BY <1>1, <1>2, <1>4, <1>5
  <2>2. Emulate(k, t) = f
    BY <1>2, <1>5, <2>1
  <2> QED BY <1>1, <1>2, <2>1, <2>2 DEF Resumes, f
<1> QED BY <1>4, <1>5 DEF Retriable, r, f

\* A register that is not loaded is read again as it was.
Spares(moves, N, n) == \A i \in 1 .. N : moves[i].register \in (0 .. 15) \ {n}

LEMMA RegisterIsKept ==
    ASSUME NEW D, NEW g, Fit(g, D), Covers(D), NEW N \in Nat, NEW moves,
           DOMAIN moves = 1 .. N, \A i \in 1 .. N : moves[i].address \in Word,
           NEW n \in 0 .. 15, Spares(moves, N, n),
           NEW k, k = Full(Returned(g, LoadWords(g, moves).m))
    PROVE  Reg(k, n) = Reg(g, n)
<1> DEFINE j == LoadWords(g, moves).m
           h == Returned(g, j)
           s == RegisterSlot(g.p.cpsr.mode, n)
<1>1. Fit(j, D) /\ j.p.cpsr = g.p.cpsr /\ j.p.regs = LoadedRegs(g, moves)
  BY LoadsAgree DEF Follows
<1>2. h = Returned(g, j) /\ k = Full(h)
  OBVIOUS
<1> HIDE DEF j, h
<1>3. Fit(h, D) /\ h.p.cpsr = j.p.cpsr /\ h.p.regs = PuttingBack(g, j)
  BY <1>1, <1>2, ReturnedFits
<1>4. Reg(k, n) = h.p.regs[s] /\ Reg(g, n) = g.p.regs[s]
  <2>1. Reg(h, n) = h.p.regs[s] /\ Reg(Full(h), n) = Reg(h, n)
    BY <1>1, <1>3, RegIsWord
  <2>2. Reg(g, n) = g.p.regs[s]
    BY RegIsWord
  <2> QED BY <1>2, <2>1, <2>2
<1>5. s \in Slots
  BY SlotExists DEF Fit, Good
<1>6. Into(g, moves, s) = {}
  BY SlotsDiffer DEF Into, Reached, Spares
<1> HIDE DEF s
<1>7. j.p.regs[s] = g.p.regs[s]
  BY <1>1, <1>5, <1>6 DEF LoadedRegs
<1>8. j.p.regs \in [Slots -> Word]
  BY <1>1 DEF Fit, Processors
<1>9. h.p.regs[s] = g.p.regs[s]
  BY <1>3, <1>5, <1>7, <1>8 DEF PuttingBack
<1> QED BY <1>4, <1>9

LEMMA PopIsRetriable ==
    ASSUME NEW D, NEW g, Fit(g, D), Covers(D), NEW t, t.load,
           \A m : Emulate(m, t) = PushPopRegisters(m, t),
           t.list \in SUBSET (0 .. 7)
    PROVE  Retriable(D, g, t)
<1> DEFINE order == WithExtra(t.list, t.extra, 15)
           N == Len(order)
           base == Reg(g, 13)
           moves == [i \in DOMAIN order |->
                       [address  |-> (base + 4 * (i - 1)) % WordSpace,
                        register |-> order[i]]]
           k == Full(Returned(g, LoadWords(g, moves).m))
<1>0. 13 \in 0 .. 15 /\ 15 \in 0 .. 15 /\ t.list \in SUBSET (0 .. 15)
  OBVIOUS
<1>1. N \in Nat /\ order \in [1 .. N -> t.list \union {15}]
  <2>1. ListOf(order, t.list \union {15})
    BY <1>0, ListWithExtra
  <2> HIDE DEF order
  <2> QED BY <2>1 DEF ListOf
<1>2. ASSUME NEW m, Reg(m, 13) = base
      PROVE  Emulate(m, t) = Written(LoadWords(m, moves), FALSE, 13, 0)
  <2>1. Emulate(m, t) = popRegisters(m, t)
    BY DEF PushPopRegisters
  <2>2. popRegisters(m, t) = LoadWords(m, moves)
    BY <1>2, Zenon DEF popRegisters, WithExtra
  <2> QED BY <2>1, <2>2 DEF Written
<1> HIDE DEF order, N
<1>3. DOMAIN moves = 1 .. N
  BY <1>1
<1>4. ASSUME NEW i \in 1 .. N
      PROVE  moves[i].address \in Word /\ moves[i].register \in (0 .. 15) \ {13}
  <2>1. base + 4 * (i - 1) \in Int
    BY <1>0, RegIsWord
  <2>2. (base + 4 * (i - 1)) % WordSpace \in Word
    BY <2>1, Remainders
  <2>3. order[i] \in (0 .. 15) \ {13}
    <3> DEFINE S == (0 .. 15) \ {13}
    <3>1. t.list \union {15} \subseteq S
      OBVIOUS
    <3> HIDE DEF S
    <3>2. order[i] \in t.list \union {15}
      BY <1>1, <1>4
    <3> QED BY <3>1, <3>2 DEF S
  <2> HIDE DEF base
  <2> QED BY <1>1, <2>2, <2>3
<1>5. Reg(Full(g), 13) = base
  BY <1>0, RegIsWord
<1> HIDE DEF moves
<1>6. k = Full(Returned(g, LoadWords(g, moves).m))
  OBVIOUS
<1> HIDE DEF k
<1>9. Spares(moves, N, 13)
  BY <1>4 DEF Spares
<1>7. Reg(k, 13) = base
  BY <1>0, <1>1, <1>3, <1>4, <1>6, <1>9, RegisterIsKept
<1>8. /\ Emulate(g, t) = Written(LoadWords(g, moves), FALSE, 13, 0)
      /\ Emulate(Full(g), t) = Written(LoadWords(Full(g), moves), FALSE, 13, 0)
      /\ Emulate(k, t) = Written(LoadWords(k, moves), FALSE, 13, 0)
  BY <1>2, <1>5, <1>7
<1> DEFINE b == FALSE
           sp == 13
           e == 0
<1>10. /\ Emulate(g, t) = Written(LoadWords(g, moves), b, sp, e)
       /\ Emulate(Full(g), t) = Written(LoadWords(Full(g), moves), b, sp, e)
       /\ Emulate(k, t) = Written(LoadWords(k, moves), b, sp, e)
       /\ sp \in 0 .. 15 /\ e \in Int
  BY <1>8
<1>11. N \in Nat /\ \A i \in 1 .. N : moves[i].address \in Word
  BY <1>1, <1>4
<1> HIDE DEF b, sp, e
<1>12. Emulate(k, t) = Written(LoadWords(k, moves), b, sp, e)
  BY <1>10
<1> QED BY <1>3, <1>6, <1>10, <1>11, <1>12, LoadingIsRetriable

\* The moves of a THUMB ldmia or stmia.
MultipleMoves(g, t) ==
    [i \in DOMAIN Ascending(t.list) |->
        IF t.load THEN [address  |-> (Reg(g, t.rb) + 4 * (i - 1)) % WordSpace,
                        register |-> Ascending(t.list)[i]]
        ELSE [address |-> (Reg(g, t.rb) + 4 * (i - 1)) % WordSpace,
              value   |-> Reg(g, Ascending(t.list)[i])]]

MultipleEnd(g, t) == (Reg(g, t.rb) + 4 * ((Len(Ascending(t.list)) + 1) - 1)) % WordSpace

LEMMA MultipleParts ==
    ASSUME NEW m, NEW t, t.format = "multiple"
    PROVE  Emulate(m, t) =
             Written(IF t.load THEN LoadWords(m, MultipleMoves(m, t))
                     ELSE StoreWords(m, MultipleMoves(m, t)), TRUE, t.rb, MultipleEnd(m, t))
<1>1. Emulate(m, t) = MultipleLoadStore(m, t)
  BY DEF Emulate
<1>2. CASE t.load
  BY <1>1, <1>2 DEF MultipleLoadStore, MultipleMoves, MultipleEnd, Written
<1>3. CASE ~t.load
  BY <1>1, <1>3 DEF MultipleLoadStore, MultipleMoves, MultipleEnd, Written
<1> QED BY <1>2, <1>3

LEMMA MultipleIsRetriable ==
    ASSUME NEW D, NEW g, Fit(g, D), Covers(D), NEW t, t.format = "multiple",
           t.rb \in 0 .. 15, t.list \in SUBSET (0 .. 15)
    PROVE  Retriable(D, g, t)
<1> DEFINE order == Ascending(t.list)
           N == Cardinality(t.list)
           base == Reg(g, t.rb)
           moves == MultipleMoves(g, t)
           e == MultipleEnd(g, t)
           k == Full(Returned(g, LoadWords(g, moves).m))
<1>1. N \in Nat /\ order \in [1 .. N -> t.list]
  BY AscendingIsSorted DEF Sorted
<1>2. Len(order) = N
  BY <1>1, SeqDef, LenProperties
<1>3. base \in Int /\ Reg(Full(g), t.rb) = base
  BY RegIsWord
<1>4. \A i \in 1 .. N : (base + 4 * (i - 1)) % WordSpace \in Word
  <2>1. ASSUME NEW i \in 1 .. N PROVE (base + 4 * (i - 1)) % WordSpace \in Word
    <3>1. base + 4 * (i - 1) \in Int
      BY <1>3
    <3> QED BY <3>1, Remainders
  <2> QED BY <2>1
<1>5. e \in Int
  <2>1. base + 4 * ((N + 1) - 1) \in Int
    BY <1>1, <1>3
  <2>2. e \in Word
    BY <1>2, <2>1, Remainders DEF MultipleEnd
  <2> QED BY <2>2, WordIsNumber
<1>6. DOMAIN moves = 1 .. N
  BY <1>1 DEF MultipleMoves
<1>7. CASE ~t.load
  <2>1. ASSUME NEW i \in 1 .. N PROVE moves[i].value \in Word
    <3>1. order[i] \in 0 .. 15
      BY <1>1
    <3>2. moves[i].value = Reg(g, order[i])
      BY <1>1, <1>7 DEF MultipleMoves
    <3> HIDE DEF moves, order
    <3> QED BY <3>1, <3>2, RegIsWord
  <2>2. ASSUME NEW m, m.p = g.p
        PROVE  Emulate(m, t) = Written(StoreWords(m, moves), TRUE, t.rb, e)
    <3>1. MultipleMoves(m, t) = moves /\ MultipleEnd(m, t) = e
      BY <2>2 DEF MultipleMoves, MultipleEnd, Reg
    <3> QED BY <1>7, <3>1, MultipleParts
  <2> HIDE DEF moves, e
  <2>3. \A m : m.p = g.p => Emulate(m, t) = Written(StoreWords(m, moves), TRUE, t.rb, e)
    BY <2>2
  <2> QED BY <1>1, <1>5, <1>6, <2>1, <2>3, StoringIsRetriable
<1>8. CASE t.load
  <2>1. ASSUME NEW i \in 1 .. N
        PROVE  moves[i].address \in Word /\ moves[i].register = order[i]
               /\ order[i] \in t.list
    BY <1>1, <1>4, <1>8 DEF MultipleMoves
  <2>2. ASSUME NEW m, Reg(m, t.rb) = base
        PROVE  Emulate(m, t) = Written(LoadWords(m, moves), TRUE, t.rb, e)
    <3>1. MultipleMoves(m, t) = moves /\ MultipleEnd(m, t) = e
      BY <1>8, <2>2 DEF MultipleMoves, MultipleEnd
    <3> QED BY <1>8, <3>1, MultipleParts
  <2> HIDE DEF moves, e, N, order
  <2>3. k = Full(Returned(g, LoadWords(g, moves).m))
    OBVIOUS
  <2> HIDE DEF k
  <2>4. ASSUME Restartable(t) PROVE Emulate(k, t) = Written(LoadWords(k, moves), TRUE, t.rb, e)
    <3>1. t.rb \notin t.list
      BY <1>8, <2>4 DEF Restartable
    <3>2. \A i \in 1 .. N : moves[i].register \in (0 .. 15) \ {t.rb}
      BY <2>1, <3>1
    <3> DEFINE n == t.rb
    <3>3. n \in 0 .. 15
      OBVIOUS
    <3>7. Spares(moves, N, n)
      BY <3>2 DEF Spares
    <3>5. N \in Nat
      BY <1>1
    <3>6. \A i \in 1 .. N : moves[i].address \in Word
      BY <2>1
    <3> HIDE DEF n
    <3>4. Reg(k, n) = Reg(g, n)
      BY <1>6, <2>3, <3>3, <3>5, <3>6, <3>7, RegisterIsKept
    <3> QED BY <2>2, <3>4 DEF n
  <2>5. /\ Emulate(g, t) = Written(LoadWords(g, moves), TRUE, t.rb, e)
        /\ Emulate(Full(g), t) = Written(LoadWords(Full(g), moves), TRUE, t.rb, e)
    BY <1>3, <2>2
  <2> QED BY <1>1, <1>5, <1>6, <2>1, <2>3, <2>4, <2>5, LoadingIsRetriable
<1> QED BY <1>7, <1>8

-----------------------------------------------------------------------------
\* Every instruction

LEMMA Dispatch ==
    ASSUME NEW t, NEW m
    PROVE  /\ t.format = "halfword" => Emulate(m, t) = HalfwordDataTransfer(m, t)
           /\ t.format = "swap" => Emulate(m, t) = SingleDataSwap(m, t)
           /\ t.format = "multiply" => Emulate(m, t) = Multiply(m, t)
           /\ t.format = "longMultiply" => Emulate(m, t) = LongMultiply(m, t)
           /\ t.format = "coprocOperation" => Emulate(m, t) = CoprocDataOperation(m, t)
           /\ t.format = "coprocTransfer" => Emulate(m, t) = CoprocDataTransfer(m, t)
           /\ t.format = "coprocRegister" => Emulate(m, t) = CoprocRegisterTransfer(m, t)
           /\ t.format = "pcRelative" => Emulate(m, t) = PcRelativeLoad(m, t)
           /\ t.format = "registerOffset" => Emulate(m, t) = LoadStoreRegisterOffset(m, t)
           /\ t.format = "signExtended"
                => Emulate(m, t) = LoadStoreSignExtendedHalfword(m, t)
           /\ t.format = "immediateOffset"
                => Emulate(m, t) = LoadStoreImmediateOffset(m, t)
           /\ t.format = "halfwordOffset" => Emulate(m, t) = LoadStoreHalfword(m, t)
           /\ t.format = "spRelative" => Emulate(m, t) = SPRelativeLoadStore(m, t)
           /\ t.format = "loadAddress" => Emulate(m, t) = LoadAddress(m, t)
           /\ t.format = "addToSP" => Emulate(m, t) = AddToStackPointer(m, t)
           /\ t.format = "pushPop" => Emulate(m, t) = PushPopRegisters(m, t)
           /\ t.format = "branchHigh" => Emulate(m, t) = LongBranchHigh(m, t)
           /\ t.format = "branchLow" => Emulate(m, t) = LongBranchLow(m, t)
BY DEF Emulate

\* A format whose methods do all or nothing can be run again.
LEMMA AtomicFormats ==
    ASSUME NEW D, NEW g, Fit(g, D), Covers(D), NEW t \in ARMFormats,
           t.format \notin {"single", "block"}
    PROVE  Retriable(D, g, t)
<1> DEFINE r == Emulate(g, t)
           f == Emulate(Full(g), t)
<1>1. CASE t.format = "halfword"
  <2>1. t.rd \in 0 .. 15 /\ t.rn \in 0 .. 15 /\ t.rm \in 0 .. 15 /\ t.offset \in Nat
    BY <1>1 DEF ARMFormats, Registers
  <2>2. r = HalfwordDataTransfer(g, t) /\ f = HalfwordDataTransfer(Full(g), t)
    BY <1>1, Dispatch
  <2> HIDE DEF r, f
  <2>3. AllOrNothing(D, g, r, f)
    BY <2>1, <2>2, HalfwordAgrees
  <2> QED BY <2>3, AtomicIsRetriable DEF r, f
<1>2. CASE t.format = "swap"
  <2>1. t.rd \in 0 .. 15 /\ t.rn \in 0 .. 15 /\ t.rm \in 0 .. 15
    BY <1>2 DEF ARMFormats, Registers
  <2>2. r = SingleDataSwap(g, t) /\ f = SingleDataSwap(Full(g), t)
    BY <1>2, Dispatch
  <2> HIDE DEF r, f
  <2>3. AllOrNothing(D, g, r, f)
    BY <2>1, <2>2, SwapAgrees
  <2> QED BY <2>3, AtomicIsRetriable DEF r, f
<1>3. CASE t.format = "multiply"
  <2>1. /\ t.rdHigh \in 0 .. 15 /\ t.rdLow \in 0 .. 15
        /\ t.rm \in 0 .. 15 /\ t.rs \in 0 .. 15
    BY <1>3 DEF ARMFormats, Registers
  <2>2. r = Multiply(g, t) /\ f = Multiply(Full(g), t)
    BY <1>3, Dispatch
  <2> HIDE DEF r, f
  <2>3. AllOrNothing(D, g, r, f)
    BY <2>1, <2>2, MultiplyAgrees
  <2> QED BY <2>3, AtomicIsRetriable DEF r, f
<1>4. CASE t.format = "longMultiply"
  <2>1. /\ t.rdHigh \in 0 .. 15 /\ t.rdLow \in 0 .. 15
        /\ t.rm \in 0 .. 15 /\ t.rs \in 0 .. 15
    BY <1>4 DEF ARMFormats, Registers
  <2>2. r = LongMultiply(g, t) /\ f = LongMultiply(Full(g), t)
    BY <1>4, Dispatch
  <2> HIDE DEF r, f
  <2>3. AllOrNothing(D, g, r, f)
    BY <2>1, <2>2, LongMultiplyAgrees
  <2> QED BY <2>3, AtomicIsRetriable DEF r, f
<1>5. CASE t.format = "coprocOperation"
  <2>2. r = CoprocDataOperation(g, t) /\ f = CoprocDataOperation(Full(g), t)
    BY <1>5, Dispatch
  <2> HIDE DEF r, f
  <2>3. AllOrNothing(D, g, r, f)
    BY <2>2, CoprocOperationAgrees
  <2> QED BY <2>3, AtomicIsRetriable DEF r, f
<1>6. CASE t.format = "coprocTransfer"
  <2>1. t.rn \in 0 .. 15 /\ t.offset \in Nat
    BY <1>6 DEF ARMFormats, Registers
  <2>2. r = CoprocDataTransfer(g, t) /\ f = CoprocDataTransfer(Full(g), t)
    BY <1>6, Dispatch
  <2> HIDE DEF r, f
  <2>3. AllOrNothing(D, g, r, f)
    BY <2>1, <2>2, CoprocTransferAgrees
  <2> QED BY <2>3, AtomicIsRetriable DEF r, f
<1>7. CASE t.format = "coprocRegister"
  <2>1. t.rd \in 0 .. 15
    BY <1>7 DEF ARMFormats, Registers
  <2>2. r = CoprocRegisterTransfer(g, t) /\ f = CoprocRegisterTransfer(Full(g), t)
    BY <1>7, Dispatch
  <2> HIDE DEF r, f
  <2>3. AllOrNothing(D, g, r, f)
    BY <2>1, <2>2, CoprocRegisterAgrees
  <2> QED BY <2>3, AtomicIsRetriable DEF r, f
<1> QED BY <1>1, <1>2, <1>3, <1>4, <1>5, <1>6, <1>7 DEF ARMFormats

LEMMA AtomicTHUMBFormats ==
    ASSUME NEW D, NEW g, Fit(g, D), Covers(D), NEW t \in THUMBFormats,
           t.format \notin {"pushPop", "multiple"}
    PROVE  Retriable(D, g, t)
<1> DEFINE r == Emulate(g, t)
           f == Emulate(Full(g), t)
<1>1. CASE t.format = "pcRelative"
  <2>1. t.rd \in 0 .. 15 /\ t.offset \in Nat
    BY <1>1 DEF THUMBFormats, LowRegisters
  <2>2. r = PcRelativeLoad(g, t) /\ f = PcRelativeLoad(Full(g), t)
    BY <1>1, Dispatch
  <2> HIDE DEF r, f
  <2>3. AllOrNothing(D, g, r, f)
    BY <2>1, <2>2, PcRelativeAgrees
  <2> QED BY <2>3, AtomicIsRetriable DEF r, f
<1>2. CASE t.format = "registerOffset"
  <2>1. t.rd \in 0 .. 15 /\ t.rb \in 0 .. 15 /\ t.ro \in 0 .. 15
    BY <1>2 DEF THUMBFormats, LowRegisters
  <2>2. r = LoadStoreRegisterOffset(g, t) /\ f = LoadStoreRegisterOffset(Full(g), t)
    BY <1>2, Dispatch
  <2> HIDE DEF r, f
  <2>3. AllOrNothing(D, g, r, f)
    BY <2>1, <2>2, RegisterOffsetAgrees
  <2> QED BY <2>3, AtomicIsRetriable DEF r, f
<1>3. CASE t.format = "signExtended"
  <2>1. t.rd \in 0 .. 15 /\ t.rb \in 0 .. 15 /\ t.ro \in 0 .. 15
    BY <1>3 DEF THUMBFormats, LowRegisters
  <2>2. r = LoadStoreSignExtendedHalfword(g, t) /\ f = LoadStoreSignExtendedHalfword(Full(g), t)
    BY <1>3, Dispatch
  <2> HIDE DEF r, f
  <2>3. AllOrNothing(D, g, r, f)
    BY <2>1, <2>2, SignExtendedAgrees
  <2> QED BY <2>3, AtomicIsRetriable DEF r, f
<1>4. CASE t.format = "immediateOffset"
  <2>1. t.rd \in 0 .. 15 /\ t.rb \in 0 .. 15 /\ t.offset \in Nat
    BY <1>4 DEF THUMBFormats, LowRegisters
  <2>2. r = LoadStoreImmediateOffset(g, t) /\ f = LoadStoreImmediateOffset(Full(g), t)
    BY <1>4, Dispatch
  <2> HIDE DEF r, f
  <2>3. AllOrNothing(D, g, r, f)
    BY <2>1, <2>2, ImmediateOffsetAgrees
  <2> QED BY <2>3, AtomicIsRetriable DEF r, f
<1>5. CASE t.format = "halfwordOffset"
  <2>1. t.rd \in 0 .. 15 /\ t.rb \in 0 .. 15 /\ t.offset \in Nat
    BY <1>5 DEF THUMBFormats, LowRegisters
  <2>2. r = LoadStoreHalfword(g, t) /\ f = LoadStoreHalfword(Full(g), t)
    BY <1>5, Dispatch
  <2> HIDE DEF r, f
  <2>3. AllOrNothing(D, g, r, f)
    BY <2>1, <2>2, HalfwordOffsetAgrees
  <2> QED BY <2>3, AtomicIsRetriable DEF r, f
<1>6. CASE t.format = "spRelative"
  <2>1. t.rd \in 0 .. 15 /\ t.offset \in Nat
    BY <1>6 DEF THUMBFormats, LowRegisters
  <2>2. r = SPRelativeLoadStore(g, t) /\ f = SPRelativeLoadStore(Full(g), t)
    BY <1>6, Dispatch
  <2> HIDE DEF r, f
  <2>3. AllOrNothing(D, g, r, f)
    BY <2>1, <2>2, SPRelativeAgrees
  <2> QED BY <2>3, AtomicIsRetriable DEF r, f
<1>7. CASE t.format = "loadAddress"
  <2>1. t.rd \in 0 .. 15 /\ t.offset \in Nat
    BY <1>7 DEF THUMBFormats, LowRegisters
  <2>2. r = LoadAddress(g, t) /\ f = LoadAddress(Full(g), t)
    BY <1>7, Dispatch
  <2> HIDE DEF r, f
  <2>3. AllOrNothing(D, g, r, f)
    BY <2>1, <2>2, LoadAddressAgrees
  <2> QED BY <2>3, AtomicIsRetriable DEF r, f
<1>8. CASE t.format = "addToSP"
  <2>1. t.offset \in Nat
    BY <1>8 DEF THUMBFormats, LowRegisters
  <2>2. r = AddToStackPointer(g, t) /\ f = AddToStackPointer(Full(g), t)
    BY <1>8, Dispatch
  <2> HIDE DEF r, f
  <2>3. AllOrNothing(D, g, r, f)
    BY <2>1, <2>2, AddToSPAgrees
  <2> QED BY <2>3, AtomicIsRetriable DEF r, f
<1>9. CASE t.format = "branchHigh"
  <2>0. \A x \in 0 .. (2^BranchBits - 1) : x \in Nat
    BY PowersArePositive, TransfersAssumption
  <2>1. t.offset \in Nat
    BY <1>9, <2>0 DEF THUMBFormats
  <2>2. r = LongBranchHigh(g, t) /\ f = LongBranchHigh(Full(g), t)
    BY <1>9, Dispatch
  <2> HIDE DEF r, f
  <2>3. AllOrNothing(D, g, r, f)
    BY <2>1, <2>2, BranchHighAgrees
  <2> QED BY <2>3, AtomicIsRetriable DEF r, f
<1>10. CASE t.format = "branchLow"
  <2>0. \A x \in 0 .. (2^BranchBits - 1) : x \in Nat
    BY PowersArePositive, TransfersAssumption
  <2>1. t.offset \in Nat
    BY <1>10, <2>0 DEF THUMBFormats
  <2>2. r = LongBranchLow(g, t) /\ f = LongBranchLow(Full(g), t)
    BY <1>10, Dispatch
  <2> HIDE DEF r, f
  <2>3. AllOrNothing(D, g, r, f)
    BY <2>1, <2>2, BranchLowAgrees
  <2> QED BY <2>3, AtomicIsRetriable DEF r, f
<1> QED BY <1>1, <1>2, <1>3, <1>4, <1>5, <1>6, <1>7, <1>8, <1>9, <1>10 DEF THUMBFormats

\* An instruction with some of the pages does what it would do with all of them
\* or fails, and one that fails for want of a page can be run again.
LEMMA EmulateIsRetriable ==
    ASSUME NEW D, NEW g, Fit(g, D), Covers(D), NEW t \in ARMFormats \union THUMBFormats
    PROVE  Retriable(D, g, t)
<1>1. CASE t \in ARMFormats
  <2>1. CASE t.format = "single"
    <3>1. /\ t.rd \in 0 .. 15 /\ t.rn \in 0 .. 15 /\ t.rm \in 0 .. 15
          /\ t.shift \in Barrel!ShiftTypes /\ t.amount \in Nat /\ t.offset \in Nat
      BY <1>1, <2>1 DEF ARMFormats, Registers
    <3> QED BY <2>1, <3>1, SingleIsRetriable
  <2>2. CASE t.format = "block"
    <3>1. t.rn \in 0 .. 15 /\ t.list \in SUBSET (0 .. 15)
      BY <1>1, <2>2 DEF ARMFormats, Registers
    <3>2. CASE t.load
      BY <2>2, <3>1, <3>2, BlockLoadIsRetriable
    <3>3. CASE ~t.load
      BY <2>2, <3>1, <3>3, BlockStoreIsRetriable
    <3> QED BY <3>2, <3>3
  <2>3. CASE t.format \notin {"single", "block"}
    BY <1>1, <2>3, AtomicFormats
  <2> QED BY <2>1, <2>2, <2>3
<1>2. CASE t \in THUMBFormats
  <2>1. CASE t.format = "pushPop"
    <3>1. t.list \in SUBSET (0 .. 7)
      BY <1>2, <2>1 DEF THUMBFormats, LowRegisters
    <3>2. t.list \in SUBSET (0 .. 15)
      BY <3>1
    <3>3. \A m : Emulate(m, t) = PushPopRegisters(m, t)
      BY <2>1, Dispatch
    <3>4. CASE t.load
      BY <3>1, <3>3, <3>4, PopIsRetriable
    <3>5. CASE ~t.load
      BY <3>2, <3>3, <3>5, PushIsRetriable
    <3> QED BY <3>4, <3>5
  <2>2. CASE t.format = "multiple"
    <3>1. t.rb \in 0 .. 15 /\ t.list \in SUBSET (0 .. 15)
      BY <1>2, <2>2 DEF THUMBFormats, LowRegisters
    <3> QED BY <2>2, <3>1, MultipleIsRetriable
  <2>3. CASE t.format \notin {"pushPop", "multiple"}
    BY <1>2, <2>3, AtomicTHUMBFormats
  <2> QED BY <2>1, <2>2, <2>3
<1> QED BY <1>1, <1>2

-----------------------------------------------------------------------------
\* RunNextInstruction

\* What has been done before Emulate.
AfterFetch(g) == [g EXCEPT !.p = Fetched(@)]

\* The pc after the fetch.
Ahead(q) == (PC(q) + (IF q.cpsr.thumb THEN 2 ELSE 4)) % WordSpace

Skipped(g, t) == "onCarry" \in DOMAIN t /\ t.onCarry /\ ~g.p.cpsr.c

LEMMA RunParts ==
    ASSUME NEW g, NEW t
    PROVE  RunNextInstruction(g, t) =
             IF ~Mapped(g, PC(g.p)) THEN Stop(g)
             ELSE IF Skipped(g, t) THEN Complete(AfterFetch(g))
             ELSE Emulate(AfterFetch(g), t)
BY DEF RunNextInstruction, Skipped, AfterFetch

LEMMA AheadIsWord ==
    ASSUME NEW q, Good(q)
    PROVE  Ahead(q) \in Word
<1>1. PC(q) \in Nat
  BY Reads, WordSpaceAssumption DEF Word
<1> QED BY <1>1, WordSpaceAssumption DEF Word, Ahead

\* The registers with x in the pc.
Moving(q, x) == [q.regs EXCEPT ![<<userMode, 15>>] = x]

LEMMA FetchFits ==
    ASSUME NEW D, NEW g, Fit(g, D), NEW k, k = AfterFetch(g)
    PROVE  /\ Fit(k, D) /\ k.mapped = g.mapped /\ k.cells = g.cells
           /\ k.coprocessors = g.coprocessors
           /\ k.p.cpsr = g.p.cpsr /\ k.p.spsr = g.p.spsr
           /\ k.p.regs = Moving(g.p, Ahead(g.p))
           /\ AfterFetch(Full(g)) = Full(k)
<1> DEFINE x == Ahead(g.p)
           q == Fetched(g.p)
<1>1. Good(g.p) /\ x \in Word
  BY AheadIsWord DEF Fit
<1>2. q = SetRegister(g.p, 15, x).p
  BY DEF Fetched, Ahead
<1> HIDE DEF x
<1>3. q.regs = Moving(g.p, x)
  BY <1>1, <1>2, PCSlot DEF SetRegister, Done, Good, Processors, Moving
<1> HIDE DEF q
<1>4. Good(q) /\ q.cpsr = g.p.cpsr /\ q.spsr = g.p.spsr
  BY <1>1, <1>2, WritesPC
<1>5. k = [g EXCEPT !.p = q] /\ AfterFetch(Full(g)) = [Full(g) EXCEPT !.p = q]
  BY FullFits DEF AfterFetch, q
<1>6. /\ Fit(k, D)
      /\ k.p = q /\ k.cells = g.cells /\ k.mapped = g.mapped
      /\ k.coprocessors = g.coprocessors
      /\ [Full(g) EXCEPT !.p = q] = Full(k)
  BY <1>4, <1>5, OtherProcessor
<1> QED BY <1>3, <1>4, <1>5, <1>6 DEF x

\* To put the pc back and fetch again is to put back the pc after the fetch.
LEMMA FetchedAgain ==
    ASSUME NEW D, NEW g, Fit(g, D), NEW h, Fit(h, D),
           h.p.cpsr.thumb = g.p.cpsr.thumb
    PROVE  /\ Fit(Returned(g, h), D) /\ PC(Returned(g, h).p) = PC(g.p)
           /\ Returned(g, h).p.cpsr = h.p.cpsr
           /\ AfterFetch(Returned(g, h)) = Returned(AfterFetch(g), h)
<1> DEFINE j == Returned(g, h)
           k == AfterFetch(g)
           left == AfterFetch(j)
           right == Returned(k, h)
           pc == <<userMode, 15>>
<1>1. /\ Fit(j, D) /\ j.mapped = h.mapped /\ j.cells = h.cells
      /\ j.coprocessors = h.coprocessors
      /\ j.p.cpsr = h.p.cpsr /\ j.p.spsr = h.p.spsr
      /\ j.p.regs = PuttingBack(g, h)
  BY ReturnedFits
<1>2. /\ Fit(k, D) /\ k.p.regs = Moving(g.p, Ahead(g.p))
  BY FetchFits
<1> HIDE DEF j, k
<1>3. /\ Fit(left, D) /\ left.mapped = j.mapped /\ left.cells = j.cells
      /\ left.coprocessors = j.coprocessors
      /\ left.p.cpsr = j.p.cpsr /\ left.p.spsr = j.p.spsr
      /\ left.p.regs = Moving(j.p, Ahead(j.p))
  BY <1>1, FetchFits
<1>4. /\ Fit(right, D) /\ right.mapped = h.mapped /\ right.cells = h.cells
      /\ right.coprocessors = h.coprocessors
      /\ right.p.cpsr = h.p.cpsr /\ right.p.spsr = h.p.spsr
      /\ right.p.regs = PuttingBack(k, h)
  BY <1>2, ReturnedFits
<1> HIDE DEF left, right
<1>5. /\ g.p.regs \in [Slots -> Word] /\ h.p.regs \in [Slots -> Word] /\ pc \in Slots
  BY PCSlot DEF Fit, Processors
<1>6. PC(j.p) = PC(g.p)
  <2>1. PC(j.p) = j.p.regs[pc] /\ PC(g.p) = g.p.regs[pc]
    BY <1>1, Reads DEF Fit
  <2> QED BY <1>1, <1>5, <2>1 DEF PuttingBack
<1>7. Ahead(j.p) = Ahead(g.p)
  BY <1>1, <1>6 DEF Ahead
<1>8. left.p.regs = right.p.regs
  <2> DEFINE x == Ahead(g.p)
  <2>1. left.p.regs = [[h.p.regs EXCEPT ![pc] = g.p.regs[pc]] EXCEPT ![pc] = x]
    BY <1>1, <1>3, <1>7 DEF PuttingBack, Moving
  <2>2. right.p.regs = [h.p.regs EXCEPT ![pc] = [g.p.regs EXCEPT ![pc] = x][pc]]
    BY <1>2, <1>4 DEF PuttingBack, Moving
  <2> HIDE DEF x, pc
  <2> QED BY <1>5, <2>1, <2>2
<1>9. left.p = right.p
  <2>1. left.p \in Processors /\ right.p \in Processors
    BY <1>3, <1>4 DEF Fit
  <2> QED BY <1>1, <1>3, <1>4, <1>8, <2>1 DEF Processors
<1>10. left = right
  BY <1>1, <1>3, <1>4, <1>9, SameMachine
<1> QED BY <1>1, <1>6, <1>10 DEF left, right, j, k

\* A run with some of the pages follows the run with all of them, and one that
\* fails for want of a page starts again from its pc.
LEMMA RunIsRetriable ==
    ASSUME NEW D, NEW g, Fit(g, D), Covers(D), NEW t \in ARMFormats \union THUMBFormats,
           NEW r, r = RunNextInstruction(g, t), NEW f, f = Unhindered(g, t)
    PROVE  /\ Follows(D, g, r, f)
           /\ ~r.ok /\ f.ok /\ Restartable(t)
                => Unhindered(Put(r.m, 15, PC(g.p)), t) = f
<1> DEFINE k == AfterFetch(g)
<1>0. f = RunNextInstruction(Full(g), t)
  BY DEF Unhindered, Full
<1>1. /\ Fit(Full(g), D) /\ Full(g).p = g.p /\ Full(g).mapped = Pages
      /\ (Skipped(Full(g), t) <=> Skipped(g, t))
  BY FullFits DEF Skipped
<1>2. /\ Fit(k, D) /\ k.mapped = g.mapped /\ k.p.cpsr = g.p.cpsr
      /\ AfterFetch(Full(g)) = Full(k)
  BY FetchFits
<1>3. r = IF ~Mapped(g, PC(g.p)) THEN Stop(g)
          ELSE IF Skipped(g, t) THEN Complete(k) ELSE Emulate(k, t)
  BY RunParts
<1>4. f = IF ~Mapped(Full(g), PC(g.p)) THEN Stop(Full(g))
          ELSE IF Skipped(g, t) THEN Complete(Full(k)) ELSE Emulate(Full(k), t)
  BY <1>0, <1>1, <1>2, RunParts
<1> HIDE DEF k
<1>5. CASE ~Mapped(g, PC(g.p))
  <2>1. r = Stop(g)
    BY <1>3, <1>5
  <2>2. AllOrNothing(D, g, r, f)
    BY <2>1, Stopped
  <2>3. Returned(g, g) = g
    BY SamePCReturns
  <2>4. Put(r.m, 15, PC(g.p)) = g
    BY <2>1, <2>3 DEF Returned, Stop
  <2> QED BY <2>2, <2>4 DEF AllOrNothing
<1>6. CASE Mapped(g, PC(g.p)) /\ Skipped(g, t)
  <2>1. Mapped(Full(g), PC(g.p))
    BY <1>6, AddressIsMapped, PCIsWord
  <2>2. r = Complete(k) /\ f = Complete(Full(k))
    BY <1>3, <1>4, <1>6, <2>1
  <2>3. AllOrNothing(D, g, r, f)
    BY <1>2, <2>2, Completed
  <2>4. r.ok
    BY <2>2 DEF Complete
  <2> QED BY <2>3, <2>4 DEF AllOrNothing
<1>7. CASE Mapped(g, PC(g.p)) /\ ~Skipped(g, t)
  <2>1. Mapped(Full(g), PC(g.p))
    BY <1>7, AddressIsMapped, PCIsWord
  <2>2. r = Emulate(k, t) /\ f = Emulate(Full(k), t)
    BY <1>3, <1>4, <1>7, <2>1
  <2>3. Retriable(D, k, t)
    BY <1>2, EmulateIsRetriable
  <2>4. Follows(D, k, r, f) /\ (~r.ok /\ f.ok /\ Restartable(t) => Resumes(k, t, r.m))
    BY <2>2, <2>3 DEF Retriable
  <2>5. Follows(D, g, r, f)
    BY <1>2, <2>4 DEF Follows
  <2>6. ASSUME ~r.ok, f.ok, Restartable(t)
        PROVE  Unhindered(Put(r.m, 15, PC(g.p)), t) = f
    <3> DEFINE h == r.m
               j == Returned(g, h)
    <3>1. Resumes(k, t, h) /\ Fit(h, D)
      BY <2>4, <2>6 DEF Follows
    <3> HIDE DEF h
    <3>2. h.p.cpsr.thumb = g.p.cpsr.thumb
      BY <1>2, <3>1 DEF Resumes
    <3>3. /\ Fit(j, D) /\ PC(j.p) = PC(g.p) /\ j.p.cpsr = h.p.cpsr
          /\ AfterFetch(j) = Returned(k, h)
      BY <3>1, <3>2, FetchedAgain DEF k
    <3> HIDE DEF j
    <3>4. /\ Fit(Full(j), D) /\ Full(j).p = j.p /\ Full(j).mapped = Pages
          /\ AfterFetch(Full(j)) = Full(AfterFetch(j))
      BY <3>3, FullFits, FetchFits
    <3>5. ~Skipped(Full(j), t)
      BY <1>2, <1>7, <3>1, <3>3, <3>4 DEF Skipped, Resumes
    <3>6. Mapped(Full(j), PC(j.p))
      BY <1>1, <2>1, <3>3, <3>4 DEF Mapped
    <3>7. RunNextInstruction(Full(j), t) = Emulate(Full(Returned(k, h)), t)
      BY <3>3, <3>4, <3>5, <3>6, RunParts
    <3>8. RunNextInstruction(Full(j), t) = f
      BY <2>2, <3>1, <3>7 DEF Resumes
    <3>9. Unhindered(j, t) = f
      BY <3>8 DEF Unhindered, Full
    <3> QED BY <3>9 DEF j, h, Returned
  <2> QED BY <2>5, <2>6
<1> QED BY <1>5, <1>6, <1>7

-----------------------------------------------------------------------------
\* The invariant

\* The instruction that is pending, run again from its pc, would still do what
\* it would have done the first time.
Resumable ==
    pending # Nil =>
       /\ pending.pc \in Word
       /\ pending.instruction \in ARMInstructions \union THUMBInstructions
       /\ Good(pending.goal.p)
       /\ Restartable(pending.instruction) =>
            Unhindered(Put(machine, 15, pending.pc), pending.instruction)
              = Complete(pending.goal)

Inv ==
    /\ TypeOK
    /\ Good(p)
    /\ coprocessors \in Seq(Coprocessors)
    /\ Resumable

LEMMA MachineFits ==
    ASSUME Inv
    PROVE  \E c \in Memories : Fit(machine, DOMAIN c) /\ Covers(DOMAIN c)
<1>1. PICK c \in Memories : cells \in [DOMAIN c -> Word]
  BY DEF Inv, TypeOK
<1> DEFINE D == DOMAIN c
<1>2. Covers(D)
  BY GuestAssumption DEF Covers
<1>3. cells \in [D -> Word]
  BY <1>1
<1> HIDE DEF D
<1>4. /\ p \in Processors /\ Good(p) /\ mapped \in SUBSET Pages
      /\ coprocessors \in Seq(Coprocessors)
  BY DEF Inv, TypeOK
<1>5. Fit(machine, D)
  BY <1>3, <1>4 DEF machine, Fit
<1> QED BY <1>2, <1>5 DEF D

LEMMA MachineParts ==
    /\ machine.p = p /\ machine.cells = cells /\ machine.mapped = mapped
    /\ machine.coprocessors = coprocessors
BY DEF machine

\* The typed part of the invariant, for the variables of the machine.
Sound ==
    /\ p \in Processors /\ Good(p)
    /\ \E c \in Memories : cells \in [DOMAIN c -> Word]
    /\ mapped \subseteq Pages
    /\ coprocessors \in Seq(Coprocessors)

LEMMA SoundMachine ==
    ASSUME NEW c \in Memories, NEW g, Fit(g, DOMAIN c), Becomes(g)
    PROVE  /\ Sound' /\ machine' = g
<1> DEFINE D == DOMAIN c
<1>1. Fit(g, D)
  OBVIOUS
<1> HIDE DEF D
<1>2. /\ g.p \in Processors /\ Good(g.p) /\ g.cells \in [D -> Word]
      /\ g.mapped \subseteq Pages /\ g.coprocessors \in Seq(Coprocessors)
  BY <1>1 DEF Fit
<1>3. g = [p |-> g.p, cells |-> g.cells, mapped |-> g.mapped, coprocessors |-> g.coprocessors]
  BY <1>1 DEF Fit
<1>4. machine' = g
  BY <1>3 DEF machine, Becomes
<1>5. \E d \in Memories : cells' \in [DOMAIN d -> Word]
  BY <1>2 DEF D, Becomes
<1> QED BY <1>2, <1>4, <1>5 DEF Sound, Becomes

LEMMA SoundDevices ==
    ASSUME NEW s \in Seq(Coprocessors)
    PROVE  \A k \in DOMAIN s : s[k].register \in Word
<1>1. \A k \in DOMAIN s : s[k] \in Coprocessors
  OBVIOUS
<1> QED BY <1>1 DEF Coprocessors

\* The conjuncts of TypeOK.
LEMMA SoundIsTyped ==
    ASSUME Sound, call \in Calls \union {Nil}, steps \in 0 .. MaxSteps, Resumable
    PROVE  Inv
<1>1. \A k \in DOMAIN coprocessors : coprocessors[k].register \in Word
  BY SoundDevices DEF Sound
<1>2. pending # Nil => pending.pc \in Word /\ pending.goal.p \in Processors
  BY DEF Resumable, Good
<1> QED BY <1>1, <1>2 DEF Inv, TypeOK, Sound

\* The first half of a bl that is remembered.
LEMMA CallIsTyped ==
    ASSUME Inv, NEW t \in ARMFormats \union THUMBFormats, NEW r, NEW at \in Word
    PROVE  CallAfter(t, r, at) \in Calls \union {Nil}
<1>1. call \in Calls \union {Nil} /\ p.cpsr.mode \in ValidModes
  BY DEF Inv, TypeOK, Good
<1>2. CASE ~r.ok /\ t.format = "branchLow"
  BY <1>1, <1>2 DEF CallAfter
<1>3. CASE r.ok /\ t.format = "branchHigh"
  <2>1. t.offset \in 0 .. (2^BranchBits - 1)
    BY <1>3 DEF ARMFormats, THUMBFormats
  <2>2. CallAfter(t, r, at) = [pc |-> at, mode |-> p.cpsr.mode, offset |-> t.offset]
    BY <1>3 DEF CallAfter
  <2> QED BY <1>1, <2>1, <2>2 DEF Calls
<1>4. CASE ~(~r.ok /\ t.format = "branchLow") /\ ~(r.ok /\ t.format = "branchHigh")
  BY <1>4 DEF CallAfter
<1> QED BY <1>2, <1>3, <1>4

LEMMA InstructionsAreTyped ==
    ARMInstructions \union THUMBInstructions \subseteq ARMFormats \union THUMBFormats
BY GuestAssumption

LEMMA InitIsSound ==
    ASSUME Init
    PROVE  Inv
<1>1. Sound
  <2>1. p \in Processors /\ Good(p)
    BY GuestAssumption DEF Init, Good
  <2>2. \E c \in Memories : cells \in [DOMAIN c -> Word]
    BY GuestAssumption DEF Init
  <2>3. mapped \subseteq Pages /\ coprocessors \in Seq(Coprocessors)
    BY GuestAssumption DEF Init
  <2> QED BY <2>1, <2>2, <2>3 DEF Sound
<1>2. steps \in 0 .. MaxSteps
  BY GuestAssumption DEF Init
<1>3. Resumable
  BY DEF Init, Resumable
<1> QED BY <1>1, <1>2, <1>3, SoundIsTyped DEF Init

LEMMA SoundIsTypedThen ==
    ASSUME Sound', call' \in Calls \union {Nil}, steps' \in 0 .. MaxSteps, Resumable'
    PROVE  Inv'
<1>1. \A k \in DOMAIN coprocessors' : coprocessors'[k].register \in Word
  BY SoundDevices DEF Sound
<1>2. pending' # Nil => pending'.pc \in Word /\ pending'.goal.p \in Processors
  BY DEF Resumable, Good
<1> QED BY <1>1, <1>2 DEF Inv, TypeOK, Sound

\* A pc that is put is read.
LEMMA PCIsPut ==
    ASSUME NEW D, NEW h, Fit(h, D), NEW x \in Word, NEW g, g = Put(h, 15, x)
    PROVE  Fit(g, D) /\ PC(g.p) = x
<1> DEFINE q == SetRegister(h.p, 15, x).p
<1>1. x % WordSpace = x
  BY WordIsNumber, Remainders
<1>2. g = [h EXCEPT !.p = q]
  BY <1>1 DEF Put
<1>3. Good(q) /\ PC(q) = x
  BY WritesPC DEF Fit
<1> HIDE DEF q
<1>4. Fit(g, D) /\ g.p = q
  BY <1>2, <1>3, OtherProcessor
<1> QED BY <1>3, <1>4

\* What is done with all the pages is a success with its machine.
LEMMA UnhinderedCompletes ==
    ASSUME NEW D, NEW g, Fit(g, D), Covers(D), NEW t \in ARMFormats \union THUMBFormats,
           NEW f, f = Unhindered(g, t), f.ok
    PROVE  f = Complete(f.m) /\ Good(f.m.p)
<1> DEFINE h == Full(g)
<1>1. f = RunNextInstruction(h, t) /\ f = Unhindered(h, t)
  BY FullFits DEF Unhindered, Full
<1>2. Fit(h, D)
  BY FullFits
<1> HIDE DEF h
<1>3. Follows(D, h, f, f)
  BY <1>1, <1>2, RunIsRetriable
<1>4. f = Complete(Full(f.m)) /\ Fit(f.m, D)
  BY <1>3 DEF Follows
<1>5. f.m = Full(f.m)
  BY <1>4 DEF Complete
<1> QED BY <1>4, <1>5 DEF Fit

\* An instruction leaves a typed machine, and remembers a fault it can undo.
LEMMA RunsKeepsInv ==
    ASSUME Inv, NEW t \in ARMInstructions \union THUMBInstructions, Runs(t)
    PROVE  Inv'
<1> DEFINE r == RunNextInstruction(machine, t)
           f == Unhindered(machine, t)
<1>1. PICK c \in Memories : Fit(machine, DOMAIN c) /\ Covers(DOMAIN c)
  BY MachineFits
<1>2. t \in ARMFormats \union THUMBFormats
  BY InstructionsAreTyped
<1>3. /\ Becomes(r.m)
      /\ pending' = IF ~r.ok /\ f.ok
                      THEN [instruction |-> t, pc |-> PC(p), goal |-> f.m]
                      ELSE Nil
      /\ call' = CallAfter(t, r, PC(p))
      /\ steps' = IF steps < MaxSteps THEN steps + 1 ELSE steps
  BY DEF Runs
<1>4. /\ Follows(DOMAIN c, machine, r, f)
      /\ ~r.ok /\ f.ok /\ Restartable(t) => Unhindered(Put(r.m, 15, PC(p)), t) = f
  <2> DEFINE D == DOMAIN c
             g == machine
  <2>1. Fit(g, D) /\ Covers(D) /\ g.p = p
    BY <1>1, MachineParts
  <2>2. r = RunNextInstruction(g, t) /\ f = Unhindered(g, t)
    OBVIOUS
  <2> HIDE DEF D, g, r, f
  <2>3. /\ Follows(D, g, r, f)
        /\ ~r.ok /\ f.ok /\ Restartable(t) => Unhindered(Put(r.m, 15, PC(g.p)), t) = f
    BY <1>2, <2>1, <2>2, RunIsRetriable
  <2> QED BY <2>1, <2>3 DEF D, g
<1>5. PC(p) \in Word
  BY Reads DEF Inv
<1>6. f.ok => f = Complete(f.m) /\ Good(f.m.p)
  BY <1>1, <1>2, UnhinderedCompletes
<1> HIDE DEF r, f
<1>7. Sound' /\ machine' = r.m
  BY <1>3, <1>4, SoundMachine DEF Follows
<1>8. call' \in Calls \union {Nil}
  BY <1>2, <1>3, <1>5, CallIsTyped
<1>9. steps' \in 0 .. MaxSteps
  BY <1>3, GuestAssumption DEF Inv, TypeOK
<1>10. Resumable'
  <2> SUFFICES ASSUME pending' # Nil
               PROVE  /\ pending'.pc \in Word
                      /\ pending'.instruction \in ARMInstructions \union THUMBInstructions
                      /\ Good(pending'.goal.p)
                      /\ Restartable(pending'.instruction) =>
                           Unhindered(Put(machine', 15, pending'.pc), pending'.instruction)
                             = Complete(pending'.goal)
    BY DEF Resumable
  <2>1. ~r.ok /\ f.ok
    BY <1>3
  <2>2. pending'.instruction = t /\ pending'.pc = PC(p) /\ pending'.goal = f.m
    BY <1>3, <2>1
  <2>3. Restartable(t) => Unhindered(Put(machine', 15, PC(p)), t) = Complete(f.m)
    BY <1>4, <1>6, <1>7, <2>1
  <2> QED BY <1>5, <1>6, <2>1, <2>2, <2>3
<1> QED BY <1>7, <1>8, <1>9, <1>10, SoundIsTypedThen

\* A retry fails as before or arrives where the first run would have.
LEMMA RetryArrives ==
    ASSUME Inv, Retry
    PROVE  /\ Inv'
           /\ last'.ok /\ Restartable(pending.instruction) =>
                /\ p' = pending.goal.p
                /\ cells' = pending.goal.cells
                /\ coprocessors' = pending.goal.coprocessors
<1> DEFINE t == pending.instruction
           g == Put(machine, 15, pending.pc)
           r == RunNextInstruction(g, t)
           f == Unhindered(g, t)
<1>1. PICK c \in Memories : Fit(machine, DOMAIN c) /\ Covers(DOMAIN c)
  BY MachineFits
<1>2. /\ pending # Nil /\ pending.pc \in Word
      /\ t \in ARMInstructions \union THUMBInstructions
      /\ Good(pending.goal.p)
      /\ Restartable(t) => f = Complete(pending.goal)
  BY DEF Retry, Inv, Resumable
<1>3. t \in ARMFormats \union THUMBFormats
  BY <1>2, InstructionsAreTyped
<1>4. /\ Becomes(r.m)
      /\ pending' = IF r.ok THEN Nil ELSE pending
      /\ call' = CallAfter(t, r, pending.pc)
      /\ last' = [instruction |-> t, ok |-> r.ok]
      /\ steps' = steps
  BY DEF Retry
<1> DEFINE D == DOMAIN c
<1>5. Fit(g, D) /\ PC(g.p) = pending.pc /\ Covers(D)
  BY <1>1, <1>2, PCIsPut
<1>6. r = RunNextInstruction(g, t) /\ f = Unhindered(g, t)
  OBVIOUS
<1> HIDE DEF D, g, r, f, t
<1>7. /\ Follows(D, g, r, f)
      /\ ~r.ok /\ f.ok /\ Restartable(t) => Unhindered(Put(r.m, 15, PC(g.p)), t) = f
  BY <1>3, <1>5, <1>6, RunIsRetriable
<1>8. Sound' /\ machine' = r.m
  BY <1>4, <1>7, SoundMachine DEF Follows, D
<1>9. call' \in Calls \union {Nil}
  BY <1>2, <1>3, <1>4, CallIsTyped
<1>10. steps' \in 0 .. MaxSteps
  BY <1>4 DEF Inv, TypeOK
<1>11. Resumable'
  <2>1. CASE r.ok
    BY <1>4, <2>1 DEF Resumable
  <2>2. CASE ~r.ok
    <3>1. pending' = pending
      BY <1>4, <2>2
    <3>2. ASSUME Restartable(t)
          PROVE  Unhindered(Put(machine', 15, pending.pc), t) = Complete(pending.goal)
      <4>1. f.ok
        BY <1>2, <3>2 DEF Complete
      <4> QED BY <1>2, <1>5, <1>7, <1>8, <2>2, <3>2, <4>1
    <3> QED BY <1>2, <3>1, <3>2 DEF Resumable, t
  <2> QED BY <2>1, <2>2
<1>12. Inv'
  BY <1>8, <1>9, <1>10, <1>11, SoundIsTypedThen
<1>13. ASSUME last'.ok, Restartable(t)
       PROVE  /\ p' = pending.goal.p
              /\ cells' = pending.goal.cells
              /\ coprocessors' = pending.goal.coprocessors
  <2>1. r.ok
    BY <1>4, <1>13
  <2>2. Complete(pending.goal) = Complete(Full(r.m))
    BY <1>2, <1>7, <1>13, <2>1 DEF Follows
  <2>3. pending.goal = Full(r.m)
    BY <2>2 DEF Complete
  <2>4. Fit(r.m, D)
    BY <1>7 DEF Follows
  <2>5. /\ Full(r.m).p = r.m.p /\ Full(r.m).cells = r.m.cells
        /\ Full(r.m).coprocessors = r.m.coprocessors
    BY <2>4, FullFits
  <2> QED BY <1>4, <2>3, <2>5 DEF Becomes
<1> QED BY <1>12, <1>13 DEF t

\* Between two instructions: what changes neither the pending instruction nor
\* the counters keeps the invariant when it leaves the machine sound.
LEMMA HostKeepsInv ==
    ASSUME Inv, Sound', UNCHANGED <<call, steps>>, pending' = Nil
    PROVE  Inv'
<1>1. call' \in Calls \union {Nil} /\ steps' \in 0 .. MaxSteps
  BY DEF Inv, TypeOK
<1>2. Resumable'
  BY DEF Resumable
<1> QED BY <1>1, <1>2, SoundIsTypedThen

\* The registers, the memory and the coprocessors of the guest.
LEMMA InvIsSound ==
    ASSUME Inv
    PROVE  /\ p \in Processors /\ Good(p)
           /\ \E c \in Memories : cells \in [DOMAIN c -> Word]
           /\ mapped \subseteq Pages /\ coprocessors \in Seq(Coprocessors)
BY DEF Inv, TypeOK

LEMMA MapPageKeepsInv ==
    ASSUME Inv, MapPage
    PROVE  Inv'
<1>1. /\ p' = p /\ cells' = cells /\ coprocessors' = coprocessors
      /\ pending' = pending /\ call' = call /\ steps' = steps
  BY DEF MapPage
<1>2. PICK page \in Pages : mapped' = mapped \union {page}
  BY DEF MapPage
<1>3. Sound'
  BY <1>1, <1>2, InvIsSound DEF Sound
<1>4. call' \in Calls \union {Nil} /\ steps' \in 0 .. MaxSteps
  BY <1>1 DEF Inv, TypeOK
<1>5. \A t, x : Unhindered(Put(machine', 15, x), t) = Unhindered(Put(machine, 15, x), t)
  <2> SUFFICES ASSUME NEW x
               PROVE  [Put(machine', 15, x) EXCEPT !.mapped = Pages]
                        = [Put(machine, 15, x) EXCEPT !.mapped = Pages]
    BY DEF Unhindered
  <2> DEFINE q == SetRegister(p, 15, x % WordSpace).p
  <2>1. /\ Put(machine, 15, x) = [machine EXCEPT !.p = q]
        /\ Put(machine', 15, x) = [machine' EXCEPT !.p = q]
    BY <1>1 DEF Put, machine
  <2> HIDE DEF q
  <2> QED BY <1>1, <2>1 DEF machine
<1>6. Resumable'
  BY <1>1, <1>5 DEF Inv, Resumable
<1> QED BY <1>3, <1>4, <1>6, SoundIsTypedThen

LEMMA UnmapPageKeepsInv ==
    ASSUME Inv, UnmapPage
    PROVE  Inv'
<1>1. /\ p' = p /\ cells' = cells /\ coprocessors' = coprocessors
      /\ pending' = Nil /\ UNCHANGED <<call, steps>>
  BY DEF UnmapPage, BetweenHalves
<1>2. mapped' \subseteq mapped
  BY DEF UnmapPage
<1>3. Sound'
  BY <1>1, <1>2, InvIsSound DEF Sound
<1> QED BY <1>1, <1>3, HostKeepsInv

LEMMA AddCoprocessorKeepsInv ==
    ASSUME Inv, AddCoprocessor
    PROVE  Inv'
<1>1. /\ p' = p /\ cells' = cells /\ mapped' = mapped
      /\ pending' = Nil /\ UNCHANGED <<call, steps>>
  BY DEF AddCoprocessor, BetweenHalves
<1>2. PICK number \in 1 .. 2 :
        coprocessors' = Append(coprocessors, [number |-> number, register |-> 0])
  BY DEF AddCoprocessor
<1>3. [number |-> number, register |-> 0] \in Coprocessors
  BY WordsAreNumbers DEF Coprocessors
<1>4. coprocessors' \in Seq(Coprocessors)
  BY <1>2, <1>3, InvIsSound
<1>5. Sound'
  BY <1>1, <1>4, InvIsSound DEF Sound
<1> QED BY <1>1, <1>5, HostKeepsInv

LEMMA HostIRQKeepsInv ==
    ASSUME Inv, HostIRQ
    PROVE  Inv'
<1>1. /\ p' = SendIRQ(p).p /\ cells' = cells /\ mapped' = mapped
      /\ coprocessors' = coprocessors /\ pending' = Nil /\ UNCHANGED <<call, steps>>
  BY DEF HostIRQ, BetweenHalves
<1>2. Good(p')
  BY <1>1, InvIsSound, SendKeeps DEF Keeps
<1>3. Sound'
  BY <1>1, <1>2, InvIsSound DEF Sound, Good
<1> QED BY <1>1, <1>3, HostKeepsInv

\* A handler that returns leaves a processor in a defined mode.
LEMMA ReturnIsGood ==
    ASSUME NEW q, Good(q), NEW x \in Word,
           NEW r, r = DataProcessing(q, [rd |-> 15, result |-> x,
                        flags |-> ZeroStatus, writes |-> TRUE, s |-> TRUE]).p
    PROVE  Good(r)
<1> DEFINE status == WithFlags(q.cpsr, ZeroStatus)
           f == [q EXCEPT !.cpsr = status]
           w == SetRegister(f, 15, x).p
<1>1. status \in Status /\ status.mode \in ValidModes
  BY DEF Good, Processors, ZeroStatus, Status, WithFlags
<1>2. f = [q EXCEPT !.cpsr = WithFlags(@, ZeroStatus)]
  OBVIOUS
<1>3. r = IF GetSPSR(w).ok THEN SetCPSR(w, GetSPSR(w).value).p ELSE w
  BY <1>2 DEF DataProcessing, Fail
<1> HIDE DEF status
<1>4. Good(f)
  BY <1>1, ReplaceCPSR
<1> HIDE DEF f
<1>5. Good(w)
  BY <1>4, WritesPC
<1> HIDE DEF w
<1>6. GetSPSR(w).value \in Status
  BY <1>5, Reads
<1>7. Good(SetCPSR(w, GetSPSR(w).value).p)
  BY <1>5, <1>6, SetCPSRKeeps DEF Keeps
<1> QED BY <1>3, <1>5, <1>7

LEMMA HandlerReturnsKeepsInv ==
    ASSUME Inv, HandlerReturns
    PROVE  Inv'
<1> DEFINE used == SetRegister(p, 13, 0).p
           back == (GetRegister(used, 14).value - 4) % WordSpace
<1>1. /\ p' = DataProcessing(used, [rd |-> 15, result |-> back, flags |-> ZeroStatus,
                                    writes |-> TRUE, s |-> TRUE]).p
      /\ cells' = cells /\ mapped' = mapped
      /\ coprocessors' = coprocessors /\ pending' = Nil /\ UNCHANGED <<call, steps>>
  BY DEF HandlerReturns, BetweenHalves
<1>2. Good(used)
  BY InvIsSound, WordsAreNumbers, SetRegisterKeeps DEF Keeps
<1> HIDE DEF used
<1>3. back \in Word
  <2> DEFINE x == GetRegister(used, 14).value
  <2>1. x \in Word
    BY <1>2, Reads
  <2> HIDE DEF x
  <2>2. x \in Int
    BY <2>1, WordIsNumber
  <2>3. (x - 4) % WordSpace \in Word
    BY <2>2, Remainders
  <2> QED BY <2>3 DEF x
<1> HIDE DEF back
<1>4. Good(p')
  BY <1>1, <1>2, <1>3, ReturnIsGood
<1>5. Sound'
  BY <1>1, <1>4, InvIsSound DEF Sound, Good
<1> QED BY <1>1, <1>5, HostKeepsInv

LEMMA StepsKeepInv ==
    ASSUME Inv, [Next]_vars
    PROVE  Inv'
<1>1. CASE RunARM
  BY <1>1, RunsKeepsInv DEF RunARM
<1>2. CASE RunTHUMB
  BY <1>2, RunsKeepsInv DEF RunTHUMB
<1>3. CASE MapPage
  BY <1>3, MapPageKeepsInv
<1>4. CASE Retry
  BY <1>4, RetryArrives
<1>5. CASE UnmapPage
  BY <1>5, UnmapPageKeepsInv
<1>6. CASE AddCoprocessor
  BY <1>6, AddCoprocessorKeepsInv
<1>7. CASE HostIRQ
  BY <1>7, HostIRQKeepsInv
<1>8. CASE HandlerReturns
  BY <1>8, HandlerReturnsKeepsInv
<1>9. CASE UNCHANGED vars
  <2>1. machine' = machine
    BY <1>9 DEF vars, machine
  <2>2. Resumable'
    BY <1>9, <2>1 DEF vars, Inv, Resumable
  <2>3. Sound' /\ call' \in Calls \union {Nil} /\ steps' \in 0 .. MaxSteps
    BY <1>9 DEF vars, Inv, TypeOK, Sound
  <2> QED BY <2>2, <2>3, SoundIsTypedThen
<1> QED BY <1>1, <1>2, <1>3, <1>4, <1>5, <1>6, <1>7, <1>8, <1>9 DEF Next, Host

-----------------------------------------------------------------------------
\* Sums and powers

\* Twice as many subsets with one thing more.
LEMMA PowerDoubles ==
    ASSUME NEW n \in Nat
    PROVE  2^(n + 1) = 2 * 2^n
<1> DEFINE S == 1 .. n
           R == 1 .. (n + 1)
           A == SUBSET S
           B == {T \union {n + 1} : T \in SUBSET S}
<1>1. IsFiniteSet(S) /\ Cardinality(S) = n /\ IsFiniteSet(R) /\ Cardinality(R) = n + 1
  <2>1. \A m \in Nat : IsFiniteSet(1 .. m) /\ Cardinality(1 .. m) = m
    <3> TAKE m \in Nat
    <3>1. IsFiniteSet(1 .. m) /\ Cardinality(1 .. m) = IF 1 > m THEN 0 ELSE m - 1 + 1
      BY FS_Interval
    <3> QED BY <3>1
  <2>2. n + 1 \in Nat
    OBVIOUS
  <2> QED BY <2>1, <2>2
<1>2. R = S \union {n + 1} /\ n + 1 \notin S
  OBVIOUS
<1> HIDE DEF S, R
<1>3. IsFiniteSet(A) /\ Cardinality(A) = 2^n
  BY <1>1, FS_SUBSET
<1>4. Cardinality(SUBSET R) = 2^(n + 1)
  BY <1>1, FS_SUBSET
<1>5. IsFiniteSet(B) /\ Cardinality(B) = Cardinality(A)
  <2> DEFINE f == [T \in A |-> T \union {n + 1}]
  <2>1. f \in [A -> B]
    OBVIOUS
  <2>2. \A T1, T2 \in A : f[T1] = f[T2] => T1 = T2
    <3> SUFFICES ASSUME NEW T1 \in A, NEW T2 \in A, f[T1] = f[T2] PROVE T1 = T2
      OBVIOUS
    <3>1. T1 \union {n + 1} = T2 \union {n + 1}
      OBVIOUS
    <3>2. n + 1 \notin T1 /\ n + 1 \notin T2
      BY <1>2
    <3> QED BY <3>1, <3>2
  <2>3. \A U \in B : \E T \in A : f[T] = U
    OBVIOUS
  <2> HIDE DEF A, B, f
  <2>4. f \in Bijection(A, B)
    BY <2>1, <2>2, <2>3 DEF Bijection, Injection, Surjection, IsInjective
  <2>5. ExistsBijection(A, B)
    BY <2>4 DEF ExistsBijection
  <2> QED BY <1>3, <2>5, FS_Bijection
<1>6. A \intersect B = {}
  BY <1>2
<1>7. A \union B = SUBSET R
  <2>1. ASSUME NEW U \in SUBSET R PROVE U \in A \/ U \in B
    <3>1. CASE n + 1 \in U
      <4>1. U \ {n + 1} \in SUBSET S /\ U = (U \ {n + 1}) \union {n + 1}
        BY <1>2, <3>1
      <4> QED BY <4>1
    <3>2. CASE n + 1 \notin U
      BY <1>2, <3>2
    <3> QED BY <3>1, <3>2
  <2>2. A \subseteq SUBSET R /\ B \subseteq SUBSET R
    BY <1>2
  <2> QED BY <2>1, <2>2
<1> HIDE DEF A, B
<1>8. Cardinality(A \union B) = Cardinality(A) + Cardinality(B) - Cardinality(A \intersect B)
  BY <1>3, <1>5, FS_Union
<1>9. Cardinality({}) = 0
  BY FS_EmptySet
<1>10. 2^n \in Nat
  BY PowersArePositive
<1>11. Cardinality(SUBSET R) = 2^n + 2^n - 0
  BY <1>3, <1>5, <1>6, <1>7, <1>8, <1>9
<1>12. 2^(n + 1) = 2^n + 2^n - 0
  BY <1>4, <1>11
<1> DEFINE k == 2^n
<1>13. k \in Nat
  BY <1>10
<1> HIDE DEF k
<1>14. k + k - 0 = 2 * k
  BY <1>13
<1> QED BY <1>12, <1>14 DEF k

LEMMA WordQuotient ==
    ASSUME NEW x \in Int
    PROVE  \E q \in Int, r \in 0 .. (WordSpace - 1) :
              r = x % WordSpace /\ x = q * WordSpace + r
<1> DEFINE W == WordSpace
<1>1. W \in Nat \ {0}
  BY WordsAreNumbers
<1> HIDE DEF W
<1>2. PICK q \in Int, r \in 0 .. (W - 1) : q = x \div W /\ r = x % W
  BY <1>1
<1>3. x = q * W + r
  BY <1>1, <1>2
<1> QED BY <1>2, <1>3 DEF W

\* A sum may be cut to a word at any moment.
LEMMA CutsAdd ==
    ASSUME NEW x \in Int, NEW y \in Int
    PROVE  ((x % WordSpace) + y) % WordSpace = (x + y) % WordSpace
<1> DEFINE W == WordSpace
<1>1. W \in Nat \ {0}
  BY WordsAreNumbers
<1> HIDE DEF W
<1>2. PICK q \in Int, r \in 0 .. (W - 1) : r = x % W /\ x = q * W + r
  BY WordQuotient DEF W
<1>3. PICK a \in Int, i \in 0 .. (W - 1) : i = (r + y) % W /\ r + y = a * W + i
  <2>1. r + y \in Int
    BY <1>1, <1>2
  <2> QED BY <2>1, WordQuotient DEF W
<1>4. PICK b \in Int, j \in 0 .. (W - 1) : j = (x + y) % W /\ x + y = b * W + j
  <2>1. x + y \in Int
    OBVIOUS
  <2> QED BY <2>1, WordQuotient DEF W
<1>5. (a + q) * W + i = b * W + j
  <2>1. (a + q) * W = a * W + q * W
    BY <1>1
  <2>2. a * W \in Int /\ q * W \in Int /\ b * W \in Int
    BY <1>1
  <2> QED BY <1>2, <1>3, <1>4, <2>1, <2>2
<1>6. ~(a + q < b)
  <2> SUFFICES ASSUME a + q < b PROVE FALSE
    OBVIOUS
  <2>1. (a + q) * W + W <= b * W
    BY <1>1, Multiples
  <2>2. (a + q) * W \in Int /\ b * W \in Int
    BY <1>1
  <2> QED BY <1>1, <1>5, <2>1, <2>2
<1>7. ~(b < a + q)
  <2> SUFFICES ASSUME b < a + q PROVE FALSE
    OBVIOUS
  <2>1. b * W + W <= (a + q) * W
    BY <1>1, Multiples
  <2>2. (a + q) * W \in Int /\ b * W \in Int
    BY <1>1
  <2> QED BY <1>1, <1>5, <2>1, <2>2
<1>8. a + q = b
  BY <1>6, <1>7
<1>9. i = j
  <2>1. b * W \in Int
    BY <1>1
  <2> QED BY <1>5, <1>8, <2>1
<1> QED BY <1>2, <1>3, <1>4, <1>9 DEF W

-----------------------------------------------------------------------------
\* A call between its halves

\* The offset of the first half as a signed number, and what it leaves in lr.
High(offset) == IF 2 * offset >= 2^BranchBits THEN offset - 2^BranchBits ELSE offset

HalfMade(c) ==
    (((c.pc + 2) % WordSpace) + 2 + High(c.offset) * 2^(BranchBits + 1)) % WordSpace

\* The processor q is about to run the second half of the call c.
AtSecondHalf(q, c) ==
    q.cpsr.mode = c.mode /\ q.cpsr.thumb /\ PC(q) = (c.pc + 2) % WordSpace

\* Or it is in the handler of an interrupt that will return there.
InHandler(q, c) ==
    /\ c.mode # irqMode /\ q.cpsr.mode = irqMode
    /\ q.regs[RegisterSlot(irqMode, 14)] = (c.pc + 6) % WordSpace
    /\ q.spsr[irqMode].mode = c.mode /\ q.spsr[irqMode].thumb

HalfWay(q, c) ==
    /\ q.regs[RegisterSlot(c.mode, 14)] = HalfMade(c)
    /\ AtSecondHalf(q, c) \/ InHandler(q, c)

\* The address the second half jumps to.
Target(c, offset) ==
    LET half == 2^BranchBits
        both == c.offset * half + offset
        jump == IF 2 * c.offset >= half THEN both - half * half ELSE both
    IN  (c.pc + 4 + 2 * jump) % WordSpace

LEMMA HalvesMakeTarget ==
    ASSUME NEW c, c.pc \in Nat, c.offset \in Nat, NEW o \in Nat
    PROVE  /\ HalfMade(c) \in Word
           /\ (HalfMade(c) + 2 * o) % WordSpace = Target(c, o)
<1> DEFINE W == WordSpace
           B == 2^BranchBits
           a == c.pc
           k == c.offset
           h == High(k)
           y == 2 + h * 2^(BranchBits + 1)
           jump == IF 2 * k >= B THEN (k * B + o) - B * B ELSE k * B + o
<1>1. B \in Nat /\ 2^(BranchBits + 1) = 2 * B
  BY TransfersAssumption, PowersArePositive, PowerDoubles
<1>2. h = (IF 2 * k >= B THEN k - B ELSE k) /\ h \in Int
  BY <1>1 DEF High
<1>3. a \in Nat /\ k \in Nat /\ W \in Nat \ {0}
  BY WordsAreNumbers
<1>4. HalfMade(c) = (((a + 2) % W) + 2 + h * 2^(BranchBits + 1)) % W
  BY DEF HalfMade
<1>5. Target(c, o) = (a + 4 + 2 * jump) % W
  BY DEF Target
<1> HIDE DEF W, B, a, k, h
<1>6. h * B \in Int /\ k * B \in Int /\ B * B \in Int
  BY <1>1, <1>2, <1>3
<1>7. h * (2 * B) = 2 * (h * B)
  BY <1>1, <1>2
<1>8. y = 2 + 2 * (h * B) /\ y \in Int
  BY <1>1, <1>6, <1>7
<1>9. jump = h * B + o
  <2>1. (k - B) * B = k * B - B * B
    BY <1>1, <1>3
  <2> QED BY <1>2, <1>6, <2>1
<1>10. (a + 2) % W \in Int /\ a + 2 \in Int
  BY <1>3
<1>11. HalfMade(c) = (((a + 2) % W) + y) % W
  BY <1>1, <1>4, <1>6, <1>7, <1>10
<1> HIDE DEF y
<1>12. HalfMade(c) = ((a + 2) + y) % W
  BY <1>8, <1>10, <1>11, CutsAdd DEF W
<1>13. (a + 2) + y \in Int /\ 2 * o \in Int
  BY <1>8, <1>10
<1>14. (HalfMade(c) + 2 * o) % W = (((a + 2) + y) + 2 * o) % W
  BY <1>12, <1>13, CutsAdd DEF W
<1> HIDE DEF jump
<1>15. ((a + 2) + y) + 2 * o = a + 4 + 2 * jump
  BY <1>3, <1>6, <1>8, <1>9
<1>16. HalfMade(c) \in Word
  BY <1>12, <1>13, Remainders DEF W
<1> QED BY <1>5, <1>14, <1>15, <1>16 DEF W

\* The words near the pc of a call.
LEMMA CallAddresses ==
    ASSUME NEW x \in Nat
    PROVE  /\ (((x + 2) % WordSpace) + 2) % WordSpace = (x + 4) % WordSpace
           /\ (((x + 2) % WordSpace) + 4) % WordSpace = (x + 6) % WordSpace
           /\ (((x + 6) % WordSpace) - 4) % WordSpace = (x + 2) % WordSpace
<1>1. (((x + 2) % WordSpace) + 2) % WordSpace = ((x + 2) + 2) % WordSpace
  BY CutsAdd
<1>2. (((x + 2) % WordSpace) + 4) % WordSpace = ((x + 2) + 4) % WordSpace
  BY CutsAdd
<1>3. (((x + 6) % WordSpace) + (-4)) % WordSpace = ((x + 6) + (-4)) % WordSpace
  BY CutsAdd
<1>4. (x + 2) + 2 = x + 4 /\ (x + 2) + 4 = x + 6 /\ (x + 6) + (-4) = x + 2
  OBVIOUS
<1>5. ((x + 6) % WordSpace) + (-4) = ((x + 6) % WordSpace) - 4
  BY WordsAreNumbers
<1> QED BY <1>1, <1>2, <1>3, <1>4, <1>5

\* A half that fails has not been fetched.
LEMMA HalfRuns ==
    ASSUME NEW t \in ARMFormats \union THUMBFormats,
           t.format \in {"branchHigh", "branchLow"},
           NEW g, NEW r, r = RunNextInstruction(g, t)
    PROVE  /\ t.offset \in Nat
           /\ ~r.ok => r = Stop(g)
           /\ r.ok /\ t.format = "branchHigh" => r = LongBranchHigh(AfterFetch(g), t)
           /\ r.ok /\ t.format = "branchLow" => r = LongBranchLow(AfterFetch(g), t)
<1>1. t \in [format : {"branchHigh", "branchLow"}, offset : 0 .. (2^BranchBits - 1)]
  BY DEF ARMFormats, THUMBFormats
<1>2. t.offset \in Nat
  BY <1>1
<1>3. DOMAIN t = {"format", "offset"}
  BY <1>1
<1>4. ~Skipped(g, t)
  BY <1>3 DEF Skipped
<1>5. r = IF ~Mapped(g, PC(g.p)) THEN Stop(g) ELSE Emulate(AfterFetch(g), t)
  BY <1>4, RunParts
<1>6. /\ t.format = "branchHigh" => Emulate(AfterFetch(g), t) = LongBranchHigh(AfterFetch(g), t)
      /\ t.format = "branchLow" => Emulate(AfterFetch(g), t) = LongBranchLow(AfterFetch(g), t)
  BY Dispatch
<1>7. LongBranchHigh(AfterFetch(g), t).ok /\ LongBranchLow(AfterFetch(g), t).ok
  BY DEF LongBranchHigh, LongBranchLow, Complete
<1>8. ~Stop(g).ok
  BY DEF Stop
<1> QED BY <1>2, <1>5, <1>6, <1>7, <1>8

\* The first half leaves the address of the second in the pc and its part of the
\* target in lr.
LEMMA FirstHalf ==
    ASSUME NEW D, NEW g, Fit(g, D), g.p.cpsr.thumb,
           NEW t \in ARMFormats \union THUMBFormats, t.format = "branchHigh",
           NEW r, r = RunNextInstruction(g, t), r.ok,
           NEW c, c = [pc |-> PC(g.p), mode |-> g.p.cpsr.mode, offset |-> t.offset]
    PROVE  HalfWay(r.m.p, c)
<1> DEFINE k == AfterFetch(g)
           x == PC(k.p) + 2 + High(t.offset) * 2^(BranchBits + 1)
           h == Put(k, 14, x)
<1>0. 14 \in 0 .. 15 /\ t.offset \in Nat
  BY HalfRuns
<1>1. r = LongBranchHigh(k, t)
  BY HalfRuns
<1>2. /\ Fit(k, D) /\ k.p.cpsr = g.p.cpsr /\ k.p.spsr = g.p.spsr
      /\ k.p.regs = Moving(g.p, Ahead(g.p))
  BY FetchFits
<1>3. PC(k.p) = (PC(g.p) + 2) % WordSpace
  <2>1. g.p.regs \in [Slots -> Word]
    BY DEF Fit, Good, Processors
  <2>2. k.p.regs[<<userMode, 15>>] = Ahead(g.p)
    BY <1>2, <2>1, PCSlot DEF Moving
  <2>3. PC(k.p) = k.p.regs[<<userMode, 15>>]
    BY <1>2, Reads DEF Fit
  <2> QED BY <2>2, <2>3 DEF Ahead
<1> HIDE DEF k
<1>4. r = Complete(h)
  BY <1>1 DEF LongBranchHigh, High
<1>5. x \in Int
  <2>1. 2^BranchBits \in Int /\ 2^(BranchBits + 1) \in Int
    BY TransfersAssumption, PowersArePositive, BranchBits \in Nat, BranchBits + 1 \in Nat
  <2>2. High(t.offset) \in Int
    BY <1>0, <2>1 DEF High
  <2>3. High(t.offset) * 2^(BranchBits + 1) \in Int
    BY <2>1, <2>2
  <2>4. PC(k.p) \in Int
    BY <1>2, PCIsWord
  <2> QED BY <2>3, <2>4
<1>6. x % WordSpace = HalfMade(c)
  BY <1>3 DEF HalfMade
<1> HIDE DEF x
<1>7. /\ Fit(h, D) /\ h.p.cpsr = k.p.cpsr
      /\ h.p.regs = Storing(k.p, 14, x % WordSpace)
  BY <1>0, <1>2, <1>5, PutKeepsFit, PutStores
<1> HIDE DEF h
<1>8. RegisterSlot(c.mode, 14) \in Slots /\ RegisterSlot(c.mode, 14) # <<userMode, 15>>
      /\ c.mode = k.p.cpsr.mode /\ k.p.regs \in [Slots -> Word]
  BY <1>2, LinkIsNotPC DEF Fit, Good, Processors
<1>9. /\ h.p.regs[RegisterSlot(c.mode, 14)] = x % WordSpace
      /\ h.p.regs[<<userMode, 15>>] = k.p.regs[<<userMode, 15>>]
  BY <1>7, <1>8, PCSlot DEF Storing
<1>10. PC(h.p) = PC(k.p)
  BY <1>2, <1>7, <1>9, Reads DEF Fit
<1>11. AtSecondHalf(h.p, c)
  BY <1>2, <1>3, <1>7, <1>10 DEF AtSecondHalf
<1> QED BY <1>4, <1>6, <1>9, <1>11 DEF HalfWay, Complete

\* The second half arrives.
LEMMA SecondHalf ==
    ASSUME NEW D, NEW g, Fit(g, D), NEW c \in Calls, HalfWay(g.p, c),
           g.p.cpsr.mode = c.mode,
           NEW t \in ARMFormats \union THUMBFormats, t.format = "branchLow",
           NEW r, r = RunNextInstruction(g, t), r.ok,
           NEW after, after = (c.pc + 4) % WordSpace
    PROVE  /\ PC(r.m.p) = Target(c, t.offset)
           /\ GetRegister(r.m.p, 14).value = (after + 1 - (after % 2)) % WordSpace
           /\ r.m.p.cpsr = g.p.cpsr
<1> DEFINE k == AfterFetch(g)
           x == Reg(k, 14) + 2 * t.offset
           back == PC(k.p) + 1 - (PC(k.p) % 2)
           h == Put(k, 14, back)
           j == Put(h, 15, x)
<1>0. 14 \in 0 .. 15 /\ 15 \in 0 .. 15 /\ t.offset \in Nat
  BY HalfRuns
<1>1. r = Complete(j)
  <2>1. r = LongBranchLow(k, t)
    BY HalfRuns
  <2> QED BY <2>1 DEF LongBranchLow
<1>2. c.pc \in Nat /\ c.offset \in Nat /\ c.mode \in ValidModes
  <2>1. c.pc \in Word /\ c.offset \in 0 .. (2^BranchBits - 1) /\ c.mode \in ValidModes
    BY DEF Calls
  <2>2. \A n \in 0 .. (2^BranchBits - 1) : n \in Nat
    OBVIOUS
  <2> QED BY <2>1, <2>2, WordsAreNumbers
<1>3. AtSecondHalf(g.p, c) /\ g.p.regs[RegisterSlot(c.mode, 14)] = HalfMade(c)
  BY DEF HalfWay, InHandler
<1>4. /\ Fit(k, D) /\ k.p.cpsr = g.p.cpsr
      /\ k.p.regs = Moving(g.p, Ahead(g.p))
  BY FetchFits
<1> HIDE DEF k
<1>5. /\ g.p.regs \in [Slots -> Word] /\ k.p.regs \in [Slots -> Word]
      /\ RegisterSlot(c.mode, 14) \in Slots /\ RegisterSlot(c.mode, 14) # <<userMode, 15>>
  BY <1>2, <1>4, LinkIsNotPC DEF Fit, Good, Processors
<1>6. PC(k.p) = after /\ after \in Nat
  <2>1. k.p.regs[<<userMode, 15>>] = Ahead(g.p)
    BY <1>4, <1>5, PCSlot DEF Moving
  <2>2. PC(k.p) = k.p.regs[<<userMode, 15>>]
    BY <1>4, Reads DEF Fit
  <2>3. Ahead(g.p) = (c.pc + 4) % WordSpace
    BY <1>2, <1>3, CallAddresses DEF Ahead, AtSecondHalf
  <2>4. (c.pc + 4) % WordSpace \in Nat
    BY <1>2, WordsAreNumbers
  <2> QED BY <2>1, <2>2, <2>3, <2>4
<1>7. Reg(k, 14) = HalfMade(c)
  <2>1. k.p.regs[RegisterSlot(c.mode, 14)] = g.p.regs[RegisterSlot(c.mode, 14)]
    BY <1>4, <1>5 DEF Moving
  <2>2. Reg(k, 14) = k.p.regs[RegisterSlot(c.mode, 14)]
    BY <1>0, <1>4, RegIsWord
  <2> QED BY <1>3, <2>1, <2>2
<1>8. x \in Int /\ back \in Int /\ x % WordSpace = Target(c, t.offset)
      /\ back = after + 1 - (after % 2)
  <2>1. HalfMade(c) \in Nat /\ (HalfMade(c) + 2 * t.offset) % WordSpace = Target(c, t.offset)
    BY <1>0, <1>2, HalvesMakeTarget, WordsAreNumbers
  <2> QED BY <1>0, <1>6, <1>7, <2>1
<1> HIDE DEF x, back
<1>9. /\ Fit(h, D) /\ h.p.cpsr = k.p.cpsr
      /\ h.p.regs = Storing(k.p, 14, back % WordSpace)
  BY <1>0, <1>4, <1>8, PutKeepsFit, PutStores
<1> HIDE DEF h
<1>10. /\ Fit(j, D) /\ j.p.cpsr = h.p.cpsr
       /\ j.p.regs = Storing(h.p, 15, x % WordSpace)
  BY <1>0, <1>8, <1>9, PutKeepsFit, PutStores
<1> HIDE DEF j
<1>11. h.p.regs[RegisterSlot(c.mode, 14)] = back % WordSpace
       /\ h.p.regs \in [Slots -> Word]
  BY <1>4, <1>5, <1>9 DEF Storing, Fit, Good, Processors
<1>12. /\ j.p.regs[<<userMode, 15>>] = x % WordSpace
       /\ j.p.regs[RegisterSlot(c.mode, 14)] = back % WordSpace
  BY <1>5, <1>10, <1>11, PCSlot DEF Storing
<1>13. PC(j.p) = x % WordSpace /\ GetRegister(j.p, 14).value = back % WordSpace
  <2>1. Good(j.p) /\ j.p.cpsr.mode = c.mode
    BY <1>4, <1>9, <1>10 DEF Fit
  <2> QED BY <1>12, <2>1, Reads
<1> QED BY <1>1, <1>4, <1>8, <1>9, <1>10, <1>13 DEF Complete

\* An interrupt between the halves leaves its handler to come back.
LEMMA InterruptIsHalfWay ==
    ASSUME NEW q, Good(q), NEW c \in Calls, HalfWay(q, c), q.cpsr.mode # irqMode,
           NEW r, r = SendIRQ(q).p
    PROVE  HalfWay(r, c)
<1>1. CASE q.cpsr.irqDisabled
  BY <1>1 DEF SendIRQ, Done
<1>2. CASE ~q.cpsr.irqDisabled
  <2> DEFINE x == ReturnAddress(q)
  <2>0. AtSecondHalf(q, c) /\ c.mode # irqMode /\ c.pc \in Nat /\ c.mode \in ValidModes
    BY WordsAreNumbers DEF HalfWay, InHandler, AtSecondHalf, Calls
  <2>1. x = (c.pc + 6) % WordSpace /\ x \in Word
    <3>1. x = (c.pc + 6) % WordSpace
      BY <2>0, CallAddresses DEF ReturnAddress, AtSecondHalf
    <3>2. (c.pc + 6) % WordSpace \in Word
      BY <2>0, Remainders
    <3> QED BY <3>1, <3>2
  <2>2. irqMode \in ValidModes /\ irqMode \in SavedModes /\ 24 \in Word
    BY WordSpaceAssumption DEF ValidModes, SavedModes, Word
  <2>3. r = EnterException(q, irqMode, x, 24).p
    BY <1>2 DEF SendIRQ
  <2> HIDE DEF x
  <2>4. /\ r.cpsr = Switched(q.cpsr, irqMode) /\ r.spsr = Saving(q, irqMode, q.cpsr)
        /\ r.regs = Linked(q, irqMode, x, 24)
    BY <2>1, <2>2, <2>3, EnterExceptionStores
  <2>5. r.cpsr.mode = irqMode
    BY <2>4, SwitchedMode
  <2>6. /\ q.regs \in [Slots -> Word] /\ q.spsr \in [SavedModes -> Status]
        /\ RegisterSlot(c.mode, 14) \in Slots /\ RegisterSlot(c.mode, 14) # <<userMode, 15>>
        /\ RegisterSlot(irqMode, 14) \in Slots
        /\ RegisterSlot(irqMode, 14) # <<userMode, 15>>
    BY <2>0, <2>2, LinkIsNotPC DEF Good, Processors
  <2>7. RegisterSlot(c.mode, 14) # RegisterSlot(irqMode, 14)
    BY <2>0 DEF RegisterSlot, irqMode, userMode, fiqMode, systemMode
  <2>8. /\ r.regs[RegisterSlot(irqMode, 14)] = x
        /\ r.regs[RegisterSlot(c.mode, 14)] = q.regs[RegisterSlot(c.mode, 14)]
    BY <2>4, <2>6, <2>7 DEF Linked
  <2>9. r.spsr[irqMode] = q.cpsr
    BY <2>2, <2>4, <2>6 DEF Saving
  <2> QED BY <2>0, <2>1, <2>5, <2>8, <2>9 DEF HalfWay, InHandler, AtSecondHalf
<1> QED BY <1>1, <1>2

\* The handler, whatever it leaves in its sp, comes back to the second half.
LEMMA ReturnIsHalfWay ==
    ASSUME NEW q, Good(q), NEW c \in Calls, HalfWay(q, c),
           q.cpsr.mode = irqMode, c.mode # irqMode,
           NEW used, used = SetRegister(q, 13, 0).p,
           NEW x, x = (GetRegister(used, 14).value - 4) % WordSpace,
           NEW r, r = DataProcessing(used, [rd |-> 15, result |-> x, flags |-> ZeroStatus,
                                            writes |-> TRUE, s |-> TRUE]).p
    PROVE  HalfWay(r, c)
<1> DEFINE status == WithFlags(used.cpsr, ZeroStatus)
           f == [used EXCEPT !.cpsr = status]
           w == SetRegister(f, 15, x).p
           saved == GetSPSR(w)
<1>0. InHandler(q, c) /\ c.pc \in Nat /\ c.mode \in ValidModes
  BY WordsAreNumbers DEF HalfWay, AtSecondHalf, Calls
<1>1. /\ Good(used) /\ used.cpsr = q.cpsr /\ used.spsr = q.spsr
  BY WordsAreNumbers, SetRegisterKeeps DEF Keeps
<1>2. used.regs = [q.regs EXCEPT ![RegisterSlot(irqMode, 13)] = 0]
  BY DEF SetRegister, Done, Good, Processors
<1>3. /\ q.regs \in [Slots -> Word]
      /\ RegisterSlot(c.mode, 14) \in Slots /\ RegisterSlot(c.mode, 14) # <<userMode, 15>>
      /\ RegisterSlot(irqMode, 14) \in Slots
  BY <1>0, LinkIsNotPC DEF Good, Processors
<1>4. /\ RegisterSlot(irqMode, 13) # RegisterSlot(c.mode, 14)
      /\ RegisterSlot(irqMode, 13) # RegisterSlot(irqMode, 14)
  BY <1>0 DEF RegisterSlot, irqMode, userMode, fiqMode, systemMode
<1>5. /\ used.regs[RegisterSlot(c.mode, 14)] = HalfMade(c)
      /\ used.regs[RegisterSlot(irqMode, 14)] = (c.pc + 6) % WordSpace
  BY <1>0, <1>2, <1>3, <1>4 DEF HalfWay, InHandler
<1>6. x = (c.pc + 2) % WordSpace /\ x \in Word
  <2>1. GetRegister(used, 14).value = (c.pc + 6) % WordSpace
    BY <1>1, <1>5, Reads
  <2>2. x = (c.pc + 2) % WordSpace
    BY <1>0, <2>1, CallAddresses
  <2>3. (c.pc + 2) % WordSpace \in Word
    BY <1>0, Remainders
  <2> QED BY <2>2, <2>3
<1>7. status \in Status /\ status.mode = irqMode
  <2>1. used.cpsr \in Status /\ used.cpsr.mode = irqMode
    BY <1>0, <1>1 DEF Good, Processors, InHandler
  <2>2. ZeroStatus \in Status
    BY DEF ZeroStatus, Status
  <2> QED BY <2>1, <2>2 DEF Status, WithFlags
<1>8. f = [used EXCEPT !.cpsr = WithFlags(@, ZeroStatus)]
  OBVIOUS
<1>9. r = IF saved.ok THEN SetCPSR(w, saved.value).p ELSE w
  BY <1>8 DEF DataProcessing, Fail
<1> HIDE DEF status
<1>10. Good(f) /\ f.cpsr = status /\ f.regs = used.regs /\ f.spsr = used.spsr
  <2>1. status.mode \in ValidModes
    BY <1>7, <1>1 DEF Good
  <2>2. Good(f) /\ f.cpsr = status /\ f.regs = used.regs
    BY <1>1, <1>7, <2>1, ReplaceCPSR
  <2>3. f.spsr = used.spsr
    BY <1>1 DEF Good, Processors
  <2> QED BY <2>2, <2>3
<1> HIDE DEF f
<1>11. Good(w) /\ w.cpsr = status /\ w.spsr = q.spsr /\ PC(w) = x
  BY <1>1, <1>6, <1>10, WritesPC
<1>12. w.regs = [f.regs EXCEPT ![<<userMode, 15>>] = x]
  BY <1>10, PCSlot DEF SetRegister, Done, Good, Processors
<1> HIDE DEF w
<1>13. saved.ok /\ saved.value = q.spsr[irqMode] /\ irqMode \in SavedModes
       /\ irqMode # userMode
  BY <1>7, <1>11 DEF GetSPSR, SavedModes, userMode, irqMode
<1>14. saved.value \in Status /\ saved.value.mode = c.mode /\ saved.value.thumb
  BY <1>0, <1>11, <1>13, Reads DEF InHandler
<1> HIDE DEF saved
<1>15. r = SetCPSR(w, saved.value).p
  BY <1>9, <1>13
<1>16. Good(r) /\ r.regs = w.regs
  BY <1>11, <1>14, <1>15, SetCPSRKeeps DEF Keeps
<1>17. r.cpsr = saved.value
  BY <1>0, <1>7, <1>11, <1>13, <1>14, <1>15, SetCPSRStores
<1>18. PC(r) = x
  BY <1>11, <1>16, Reads
<1>19. r.regs[RegisterSlot(c.mode, 14)] = HalfMade(c)
  <2>1. f.regs \in [Slots -> Word]
    BY <1>10 DEF Good, Processors
  <2> QED BY <1>3, <1>5, <1>10, <1>12, <1>16, <2>1
<1> QED BY <1>6, <1>14, <1>17, <1>18, <1>19 DEF HalfWay, AtSecondHalf

-----------------------------------------------------------------------------
\* The calls of the guest

Halves == {"branchHigh", "branchLow"}

\* A call between its halves will arrive, and a half that is pending is one that
\* has not been fetched.
Ongoing ==
    /\ call # Nil => HalfWay(p, call)
    /\ pending # Nil =>
          /\ pending.instruction.format \in Halves => p.cpsr.thumb
          /\ call # Nil => pending.instruction.format = "branchLow" /\ PC(p) = pending.pc

\* The processor q has run the second half of c, with this offset, as r.
Arrived(c, offset, q, r) ==
    LET after == (c.pc + 4) % WordSpace
    IN  /\ PC(r) = Target(c, offset)
        /\ GetRegister(r, 14).value = (after + 1 - (after % 2)) % WordSpace
        /\ r.cpsr = q.cpsr

Arriving ==
    (/\ last' # Nil /\ last'.ok /\ call # Nil
     /\ last'.instruction.format = "branchLow" /\ p.cpsr.mode = call.mode)
    => Arrived(call, last'.instruction.offset, p, p')

\* An instruction that runs, for the first time or again.
LEMMA RunKeepsCall ==
    ASSUME Inv, NEW D, NEW g, Fit(g, D), g.p.cpsr.mode = p.cpsr.mode,
           call # Nil => HalfWay(g.p, call),
           NEW t \in ARMFormats \union THUMBFormats,
           t.format = "branchHigh" => g.p.cpsr.thumb,
           NEW r, r = RunNextInstruction(g, t), Becomes(r.m),
           call' = CallAfter(t, r, PC(g.p))
    PROVE  /\ call' # Nil => HalfWay(p', call')
           /\ ~r.ok /\ t.format \in Halves => p' = g.p
           /\ call' # Nil /\ ~r.ok => call # Nil /\ t.format = "branchLow"
           /\ r.ok /\ call # Nil /\ t.format = "branchLow" /\ g.p.cpsr.mode = call.mode
                => Arrived(call, t.offset, g.p, p')
<1>1. p' = r.m.p
  BY DEF Becomes
<1>2. call # Nil => call \in Calls
  BY DEF Inv, TypeOK
<1>3. ~r.ok /\ t.format \in Halves => p' = g.p
  <2>1. ~r.ok /\ t.format \in Halves => r = Stop(g)
    BY HalfRuns DEF Halves
  <2> QED BY <1>1, <2>1 DEF Stop
<1>4. call' # Nil /\ ~r.ok => call' = call /\ t.format = "branchLow"
  BY DEF CallAfter
<1>5. call' # Nil => HalfWay(p', call')
  <2>1. CASE call' # Nil /\ ~r.ok
    BY <1>3, <1>4, <2>1 DEF Halves
  <2>2. CASE call' # Nil /\ r.ok
    <3>1. t.format = "branchHigh"
          /\ call' = [pc |-> PC(g.p), mode |-> p.cpsr.mode, offset |-> t.offset]
      BY <2>2 DEF CallAfter
    <3> QED BY <1>1, <2>2, <3>1, FirstHalf
  <2> QED BY <2>1, <2>2
<1>6. ASSUME r.ok, call # Nil, t.format = "branchLow", g.p.cpsr.mode = call.mode
      PROVE  Arrived(call, t.offset, g.p, p')
  <2> DEFINE after == (call.pc + 4) % WordSpace
  <2>1. call \in Calls /\ HalfWay(g.p, call)
    BY <1>2, <1>6
  <2>2. /\ PC(r.m.p) = Target(call, t.offset)
        /\ GetRegister(r.m.p, 14).value = (after + 1 - (after % 2)) % WordSpace
        /\ r.m.p.cpsr = g.p.cpsr
    BY <1>6, <2>1, SecondHalf
  <2> QED BY <1>1, <2>2 DEF Arrived
<1> QED BY <1>3, <1>4, <1>5, <1>6

LEMMA RunsKeepsCalls ==
    ASSUME Inv, Ongoing, NEW t \in ARMFormats \union THUMBFormats,
           t.format \in Halves => p.cpsr.thumb, Runs(t)
    PROVE  Ongoing' /\ Arriving
<1> DEFINE r == RunNextInstruction(machine, t)
<1>1. PICK c \in Memories : Fit(machine, DOMAIN c)
  BY MachineFits
<1>2. /\ Becomes(r.m)
      /\ pending' # Nil =>
           ~r.ok /\ pending' = [instruction |-> t, pc |-> PC(p),
                                goal |-> Unhindered(machine, t).m]
      /\ call' = CallAfter(t, r, PC(p))
      /\ last' = [instruction |-> t, ok |-> r.ok]
  BY DEF Runs
<1>3. machine.p = p /\ (call # Nil => HalfWay(p, call))
  BY MachineParts DEF Ongoing
<1> DEFINE D == DOMAIN c
<1>4. Fit(machine, D) /\ r = RunNextInstruction(machine, t)
  BY <1>1
<1> HIDE DEF r, D
<1>5. /\ call' # Nil => HalfWay(p', call')
      /\ ~r.ok /\ t.format \in Halves => p' = p
      /\ call' # Nil /\ ~r.ok => call # Nil /\ t.format = "branchLow"
      /\ r.ok /\ call # Nil /\ t.format = "branchLow" /\ p.cpsr.mode = call.mode
           => Arrived(call, t.offset, p, p')
  BY <1>2, <1>3, <1>4, RunKeepsCall DEF Halves
<1>6. ASSUME pending' # Nil
      PROVE  /\ pending'.instruction.format \in Halves => p'.cpsr.thumb
             /\ call' # Nil => pending'.instruction.format = "branchLow" /\ PC(p') = pending'.pc
  <2>1. ~r.ok /\ pending'.instruction = t /\ pending'.pc = PC(p)
    BY <1>2, <1>6
  <2> QED BY <1>5, <2>1 DEF Halves
<1>7. Ongoing'
  BY <1>5, <1>6 DEF Ongoing
<1>8. Arriving
  BY <1>2, <1>5 DEF Arriving
<1> QED BY <1>7, <1>8

LEMMA RetryKeepsCalls ==
    ASSUME Inv, Ongoing, Retry
    PROVE  Ongoing' /\ Arriving
<1> DEFINE t == pending.instruction
           g == Put(machine, 15, pending.pc)
           r == RunNextInstruction(g, t)
<1>1. PICK c \in Memories : Fit(machine, DOMAIN c)
  BY MachineFits
<1>2. /\ pending # Nil /\ pending.pc \in Word
      /\ t \in ARMFormats \union THUMBFormats
  BY InstructionsAreTyped DEF Retry, Inv, Resumable
<1>3. /\ Becomes(r.m)
      /\ pending' = IF r.ok THEN Nil ELSE pending
      /\ call' = CallAfter(t, r, pending.pc)
      /\ last' = [instruction |-> t, ok |-> r.ok]
  BY DEF Retry
<1> DEFINE D == DOMAIN c
           q == SetRegister(p, 15, pending.pc).p
<1>4. /\ Fit(g, D) /\ PC(g.p) = pending.pc /\ Good(p)
      /\ g.p = q
  <2>1. Fit(g, D) /\ PC(g.p) = pending.pc
    BY <1>1, <1>2, PCIsPut
  <2>2. pending.pc % WordSpace = pending.pc
    BY <1>2, WordIsNumber, Remainders
  <2>3. g.p = q
    BY <2>2 DEF Put, machine
  <2> QED BY <2>1, <2>3 DEF Inv
<1>5. q.cpsr = p.cpsr
  BY <1>2, <1>4, WritesPC
<1>6. PC(p) = pending.pc => q = p
  <2>1. p.regs[<<userMode, 15>>] = PC(p) /\ p \in Processors
    BY <1>4, Reads DEF Good
  <2>2. q = [p EXCEPT !.regs = [@ EXCEPT ![<<userMode, 15>>] = pending.pc]]
    BY PCSlot DEF SetRegister, Done
  <2>3. PC(p) = pending.pc => [p.regs EXCEPT ![<<userMode, 15>>] = pending.pc] = p.regs
    BY <2>1 DEF Processors
  <2>4. PC(p) = pending.pc => q = [p EXCEPT !.regs = p.regs]
    BY <2>2, <2>3
  <2>5. [p EXCEPT !.regs = p.regs] = p
    BY <2>1 DEF Processors
  <2> QED BY <2>4, <2>5
<1>7. r = RunNextInstruction(g, t)
  OBVIOUS
<1> HIDE DEF D, g, r, t, q
<1>8. /\ t.format \in Halves => p.cpsr.thumb
      /\ call # Nil => HalfWay(p, call) /\ t.format = "branchLow" /\ PC(p) = pending.pc
  BY <1>2 DEF Ongoing, t
<1>9. /\ call' # Nil => HalfWay(p', call')
      /\ ~r.ok /\ t.format \in Halves => p' = g.p
      /\ call' # Nil /\ ~r.ok => call # Nil /\ t.format = "branchLow"
      /\ r.ok /\ call # Nil /\ t.format = "branchLow" /\ g.p.cpsr.mode = call.mode
           => Arrived(call, t.offset, g.p, p')
  <2>1. call # Nil => HalfWay(g.p, call)
    BY <1>4, <1>6, <1>8
  <2>2. g.p.cpsr.mode = p.cpsr.mode /\ (t.format = "branchHigh" => g.p.cpsr.thumb)
    BY <1>4, <1>5, <1>8 DEF Halves
  <2> QED BY <1>2, <1>3, <1>4, <1>7, <2>1, <2>2, RunKeepsCall
<1>10. ASSUME pending' # Nil
       PROVE  /\ pending'.instruction.format \in Halves => p'.cpsr.thumb
              /\ call' # Nil => pending'.instruction.format = "branchLow" /\ PC(p') = pending'.pc
  <2>1. ~r.ok /\ pending' = pending
    BY <1>3, <1>10
  <2>2. t.format \in Halves => p'.cpsr.thumb
    BY <1>4, <1>5, <1>8, <1>9, <2>1
  <2>3. call' # Nil => t.format = "branchLow" /\ PC(p') = pending.pc
    BY <1>4, <1>9, <2>1 DEF Halves
  <2> QED BY <2>1, <2>2, <2>3 DEF t
<1>11. Ongoing'
  BY <1>9, <1>10 DEF Ongoing
<1>12. Arriving
  <2>1. call # Nil => g.p = p
    BY <1>4, <1>6, <1>8
  <2> QED BY <1>3, <1>9, <2>1 DEF Arriving
<1> QED BY <1>11, <1>12

\* A host that leaves the processor alone.
LEMMA SameProcessorKeepsCalls ==
    ASSUME Ongoing, p' = p, call' = call, pending' = pending, last' = Nil
    PROVE  Ongoing' /\ Arriving
BY DEF Ongoing, Arriving

LEMMA StepsKeepCalls ==
    ASSUME Inv, Ongoing, Next
    PROVE  Ongoing' /\ Arriving
<1>1. CASE RunARM
  <2>1. PICK t \in ARMInstructions : Runs(t)
    BY <1>1 DEF RunARM
  <2>2. t \in ARMFormats
    BY <2>1, GuestAssumption
  <2>3. t.format \notin Halves
    BY <2>2 DEF ARMFormats, Halves
  <2> QED BY <2>1, <2>2, <2>3, RunsKeepsCalls
<1>2. CASE RunTHUMB
  <2>1. PICK t \in THUMBInstructions : Runs(t)
    BY <1>2 DEF RunTHUMB
  <2>2. t \in THUMBFormats /\ p.cpsr.thumb
    BY <1>2, <2>1, GuestAssumption DEF RunTHUMB
  <2> QED BY <2>1, <2>2, RunsKeepsCalls
<1>3. CASE MapPage
  BY <1>3, SameProcessorKeepsCalls DEF MapPage
<1>4. CASE Retry
  BY <1>4, RetryKeepsCalls
<1>5. CASE UnmapPage
  BY <1>5, SameProcessorKeepsCalls DEF UnmapPage
<1>6. CASE AddCoprocessor
  BY <1>6, SameProcessorKeepsCalls DEF AddCoprocessor
<1>7. CASE HostIRQ
  <2>1. /\ p' = SendIRQ(p).p /\ p.cpsr.mode # irqMode
        /\ call' = call /\ call # Nil /\ pending' = Nil /\ last' = Nil
    BY <1>7 DEF HostIRQ, BetweenHalves
  <2>2. Good(p) /\ call \in Calls /\ HalfWay(p, call)
    BY <2>1 DEF Inv, TypeOK, Ongoing
  <2>3. HalfWay(p', call)
    BY <2>1, <2>2, InterruptIsHalfWay
  <2> QED BY <2>1, <2>3 DEF Ongoing, Arriving
<1>8. CASE HandlerReturns
  <2> DEFINE used == SetRegister(p, 13, 0).p
             back == (GetRegister(used, 14).value - 4) % WordSpace
  <2>1. /\ p' = DataProcessing(used, [rd |-> 15, result |-> back, flags |-> ZeroStatus,
                                      writes |-> TRUE, s |-> TRUE]).p
        /\ p.cpsr.mode = irqMode /\ call.mode # irqMode
        /\ call' = call /\ call # Nil /\ pending' = Nil /\ last' = Nil
    BY <1>8 DEF HandlerReturns, BetweenHalves
  <2>2. Good(p) /\ call \in Calls /\ HalfWay(p, call)
    BY <2>1 DEF Inv, TypeOK, Ongoing
  <2>3. HalfWay(p', call)
    BY <2>1, <2>2, ReturnIsHalfWay
  <2> QED BY <2>1, <2>3 DEF Ongoing, Arriving
<1> QED BY <1>1, <1>2, <1>3, <1>4, <1>5, <1>6, <1>7, <1>8 DEF Next, Host

-----------------------------------------------------------------------------
\* Where the registers of a block go

Below(S, n) == {k \in S : k < n}

LEMMA RankOfRegister ==
    ASSUME NEW S \in SUBSET (0 .. 15), NEW n \in S
    PROVE  /\ Cardinality(Below(S, n)) \in Nat
           /\ Cardinality(UpTo(S, n)) = Cardinality(Below(S, n)) + 1
           /\ Cardinality(UpTo(S, n)) <= Cardinality(S)
<1>1. UpTo(S, n) = Below(S, n) \union {n}
  <2>1. \A k \in S : k <= n <=> (k < n \/ k = n)
    OBVIOUS
  <2> QED BY <2>1 DEF UpTo, Below
<1>2. n \notin Below(S, n)
  BY DEF Below
<1>3. IsFiniteSet(Below(S, n)) /\ Cardinality(Below(S, n)) \in Nat /\ IsFiniteSet(S)
  <2>1. Below(S, n) \in SUBSET (0 .. 15)
    BY DEF Below
  <2> QED BY <2>1, ListsAreFinite
<1>4. Cardinality(UpTo(S, n)) = Cardinality(Below(S, n)) + 1
  BY <1>1, <1>2, <1>3, FS_AddElement
<1>5. UpTo(S, n) \in SUBSET S
  BY DEF UpTo
<1>6. Cardinality(UpTo(S, n)) <= Cardinality(S)
  BY <1>3, <1>5, FS_Subset
<1> QED BY <1>3, <1>4, <1>6

\* The register with so many below it is the next of the list.
LEMMA AscendingRanks ==
    ASSUME NEW S \in SUBSET (0 .. 15), NEW n \in S,
           NEW i, i = Cardinality(Below(S, n)) + 1
    PROVE  i \in 1 .. Cardinality(S) /\ Ascending(S)[i] = n
<1> DEFINE e == Ascending(S)[i]
<1>1. i \in 1 .. Cardinality(S) /\ Cardinality(UpTo(S, n)) = i /\ Cardinality(S) \in Nat
  BY RankOfRegister, ListsAreFinite
<1>2. e \in S /\ Cardinality(UpTo(S, e)) = i
  <2>1. e = CHOOSE m \in S : Cardinality(UpTo(S, m)) = i
    BY <1>1 DEF Ascending
  <2>2. \E m \in S : Cardinality(UpTo(S, m)) = i
    BY <1>1
  <2> QED BY <2>1, <2>2, Zenon
<1> HIDE DEF e
<1>3. ASSUME NEW x \in S, NEW y \in S, x < y
      PROVE  Cardinality(UpTo(S, x)) < Cardinality(UpTo(S, y))
  <2>1. UpTo(S, x) \in SUBSET Below(S, y)
    <3>1. \A k \in S : k <= x => k < y
      BY <1>3
    <3> QED BY <3>1 DEF UpTo, Below
  <2>2. Below(S, y) \in SUBSET (0 .. 15)
    BY DEF Below
  <2>3. IsFiniteSet(Below(S, y))
    BY <2>2, ListsAreFinite
  <2>4. Cardinality(UpTo(S, x)) <= Cardinality(Below(S, y))
        /\ Cardinality(UpTo(S, x)) \in Nat
    BY <2>1, <2>3, FS_Subset, RankOfRegister
  <2> QED BY <2>4, RankOfRegister
<1>4. ~(e < n) /\ ~(n < e)
  <2>1. i \in Nat
    BY <1>1
  <2> QED BY <1>1, <1>2, <1>3, <2>1
<1>5. e \in 0 .. 15 /\ n \in 0 .. 15
  BY <1>2
<1> QED BY <1>1, <1>4, <1>5 DEF e

\* The place in the order of a register of the list.
PlaceFor(t, n) ==
    LET below == Cardinality(Below(t.list, n))
    IN  IF t.up THEN below + 1 ELSE Cardinality(t.list) - below

LEMMA OrderRanks ==
    ASSUME NEW t, t.list \in SUBSET (0 .. 15), NEW n \in t.list
    PROVE  /\ PlaceFor(t, n) \in 1 .. Cardinality(t.list)
           /\ Order(t.list, t.up)[PlaceFor(t, n)] = n
<1> DEFINE S == t.list
           s == Ascending(S)
           b == Cardinality(Below(S, n))
           N == Cardinality(S)
<1>1. N \in Nat /\ Sorted(s, S)
  BY AscendingIsSorted
<1>2. Len(s) = N
  BY <1>1, LenProperties, SeqDef DEF Sorted
<1>3. b \in Nat /\ b + 1 \in 1 .. N /\ s[b + 1] = n
  <2>1. b \in Nat
    BY RankOfRegister
  <2>2. b + 1 \in 1 .. N /\ s[b + 1] = n
    BY AscendingRanks
  <2> QED BY <2>1, <2>2
<1>4. Reverse(s) = [i \in 1 .. N |-> s[(N - i) + 1]]
  BY <1>2 DEF Reverse
<1>5. Order(S, t.up) = IF t.up THEN s ELSE Reverse(s)
  BY DEF Order
<1>6. PlaceFor(t, n) = IF t.up THEN b + 1 ELSE N - b
  BY DEF PlaceFor
<1> HIDE DEF s, b, N
<1>7. CASE t.up
  BY <1>3, <1>5, <1>6, <1>7 DEF N
<1>8. CASE ~t.up
  <2>1. N - b \in 1 .. N /\ (N - (N - b)) + 1 = b + 1
    BY <1>1, <1>3
  <2>2. Reverse(s)[N - b] = s[(N - (N - b)) + 1]
    BY <1>4, <2>1
  <2> QED BY <1>3, <1>5, <1>6, <1>8, <2>1, <2>2 DEF N
<1> QED BY <1>7, <1>8

\* The lowest address of a block.
Lowest(base, t) ==
    IF t.up THEN base + (IF t.preindex THEN 4 ELSE 0)
    ELSE base - 4 * Cardinality(t.list) + (IF t.preindex THEN 0 ELSE 4)

CellOf(base, t, n) == Cell((Lowest(base, t) + 4 * Cardinality(Below(t.list, n))) % WordSpace)

\* The address of a register of the block.
AddressOf(base, t, n) == (Lowest(base, t) + 4 * Cardinality(Below(t.list, n))) % WordSpace

LEMMA AddressAscends ==
    ASSUME NEW t, t.list \in SUBSET (0 .. 15), NEW n \in t.list, NEW base \in Int
    PROVE  BlockAddress(base, t, PlaceFor(t, n)) = AddressOf(base, t, n)
<1> DEFINE b == Cardinality(Below(t.list, n))
           N == Cardinality(t.list)
           i == PlaceFor(t, n)
           x == 4 * (IF t.preindex THEN i ELSE i - 1)
<1>1. b \in Nat /\ N \in Nat
  BY RankOfRegister, ListsAreFinite
<1>2. i = IF t.up THEN b + 1 ELSE N - b
  BY DEF PlaceFor
<1>3. BlockAddress(base, t, i) = (IF t.up THEN base + x ELSE base - x) % WordSpace
  BY DEF BlockAddress, Displaced
<1>4. Lowest(base, t) = IF t.up THEN base + (IF t.preindex THEN 4 ELSE 0)
                        ELSE base - 4 * N + (IF t.preindex THEN 0 ELSE 4)
  BY DEF Lowest
<1> HIDE DEF b, N, i
<1>5. (IF t.up THEN base + x ELSE base - x) = Lowest(base, t) + 4 * b
  BY <1>1, <1>2, <1>4
<1> QED BY <1>3, <1>5 DEF AddressOf, b, i

LEMMA AddressesAscend ==
    ASSUME NEW t, t.list \in SUBSET (0 .. 15), NEW n \in t.list, NEW base \in Nat
    PROVE  Cell(BlockAddress(base, t, PlaceFor(t, n))) = CellOf(base, t, n)
<1>1. base \in Int
  OBVIOUS
<1> QED BY <1>1, AddressAscends DEF CellOf, AddressOf

-----------------------------------------------------------------------------
\* No two words of a block have the same cell

LEMMA WordsAreMany == WordSpace >= 64
<1> DEFINE B == ByteSpace
<1>1. B \in Nat /\ WordSpace = (B * B) * (B * B) /\ WordSpace > 28
  BY TransfersAssumption, WordSpaceAssumption
<1> HIDE DEF B
<1>2. B # 0 /\ B # 1 /\ B # 2
  BY <1>1
<1>3. B >= 3
  BY <1>1, <1>2
<1>4. B * B >= 9 /\ B * B \in Nat
  BY <1>1, <1>3
<1> DEFINE C == B * B
<1>5. C >= 9 /\ C \in Nat
  BY <1>4
<1> HIDE DEF C
<1>6. C * C >= 64
  BY <1>5
<1> QED BY <1>1, <1>6 DEF C

\* A word and its sum with less than a word.
LEMMA SumOrWrapped ==
    ASSUME NEW x \in Int, NEW d \in Nat, d < WordSpace
    PROVE  \/ (x + d) % WordSpace = (x % WordSpace) + d
           \/ (x + d) % WordSpace = (x % WordSpace) + d - WordSpace
<1> DEFINE W == WordSpace
           r == x % WordSpace
           z == r + d
<1>1. W \in Nat \ {0} /\ r \in 0 .. (W - 1) /\ (x + d) % W = z % W
  <2>1. W \in Nat \ {0}
    BY WordsAreNumbers
  <2>2. r \in 0 .. (W - 1)
    BY Remainders DEF Word
  <2>3. (x + d) % W = z % W
    BY CutsAdd
  <2> QED BY <2>1, <2>2, <2>3
<1> HIDE DEF r
<1>2. z \in Int /\ 0 <= z /\ z < 2 * W
  BY <1>1
<1> HIDE DEF z
<1>3. PICK q \in Int, k \in 0 .. (W - 1) : k = z % W /\ z = q * W + k
  BY <1>2, WordQuotient
<1> HIDE DEF W
<1>4. ~(q < 0)
  <2> SUFFICES ASSUME q < 0 PROVE FALSE
    OBVIOUS
  <2>1. q * W + W <= 0 * W
    BY <1>1, Multiples
  <2>2. q * W \in Int
    BY <1>1
  <2> QED BY <1>1, <1>2, <1>3, <2>1, <2>2
<1>5. ~(1 < q)
  <2> SUFFICES ASSUME 1 < q PROVE FALSE
    OBVIOUS
  <2>1. 1 * W + W <= q * W
    BY <1>1, Multiples
  <2>2. q * W \in Int
    BY <1>1
  <2> QED BY <1>1, <1>2, <1>3, <2>1, <2>2
<1>6. q = 0 \/ q = 1
  BY <1>4, <1>5
<1>7. z % W = z \/ z % W = z - W
  BY <1>1, <1>2, <1>3, <1>6
<1> QED BY <1>1, <1>7 DEF z, r, W

LEMMA CellsDiffer ==
    ASSUME NEW x \in Int, NEW d \in 4 .. 60
    PROVE  Cell((x + d) % WordSpace) # Cell(x % WordSpace)
<1> DEFINE a == x % WordSpace
           b == (x + d) % WordSpace
<1>1. a \in Nat /\ b \in Nat /\ WordSpace \in Nat /\ WordSpace >= 64
  <2>1. x + d \in Int
    OBVIOUS
  <2> QED BY <2>1, Remainders, WordsAreNumbers, WordsAreMany
<1>2. b = a + d \/ b = a + d - WordSpace
  <2>1. d \in Nat /\ d < WordSpace
    BY <1>1
  <2> QED BY <2>1, SumOrWrapped
<1> HIDE DEF a, b
<1>3. a + 4 <= b \/ b + 4 <= a
  BY <1>1, <1>2
<1>4. \A y, z \in Nat : y + 4 <= z => y - (y % 4) # z - (z % 4)
  OBVIOUS
<1> QED BY <1>1, <1>3, <1>4 DEF Cell, a, b

LEMMA BlocksAreShort ==
    ASSUME NEW S \in SUBSET (0 .. 15)
    PROVE  Cardinality(S) \in Nat /\ Cardinality(S) <= 16
<1>1. IsFiniteSet(0 .. 15) /\ Cardinality(0 .. 15) = 16
  <2>1. \A b \in Int : IsFiniteSet(0 .. b) /\ Cardinality(0 .. b) = IF 0 > b THEN 0 ELSE b - 0 + 1
    BY FS_Interval
  <2>2. 15 \in Int /\ ~(0 > 15) /\ 15 - 0 + 1 = 16
    OBVIOUS
  <2> QED BY <2>1, <2>2
<1> QED BY <1>1, FS_Subset, ListsAreFinite

LEMMA BlockCellsDiffer ==
    ASSUME NEW t, t.list \in SUBSET (0 .. 15), NEW base \in Nat,
           NEW i \in 1 .. Cardinality(t.list), NEW j \in 1 .. Cardinality(t.list), i # j
    PROVE  Cell(BlockAddress(base, t, i)) # Cell(BlockAddress(base, t, j))
<1>1. i \in 1 .. 16 /\ j \in 1 .. 16
  BY BlocksAreShort
<1> DEFINE at(m) == IF t.up THEN base + 4 * (IF t.preindex THEN m ELSE m - 1)
                    ELSE base - 4 * (IF t.preindex THEN m ELSE m - 1)
<1>2. ASSUME NEW m \in 1 .. 16
      PROVE  at(m) \in Int /\ BlockAddress(base, t, m) = at(m) % WordSpace
  BY DEF BlockAddress, Displaced
<1>3. ASSUME NEW m \in 1 .. 16, NEW n \in 1 .. 16, m < n
      PROVE  \/ at(n) = at(m) + 4 * (n - m) /\ 4 * (n - m) \in 4 .. 60
             \/ at(m) = at(n) + 4 * (n - m) /\ 4 * (n - m) \in 4 .. 60
  BY <1>3
<1> HIDE DEF at
<1>4. ASSUME NEW m \in 1 .. 16, NEW n \in 1 .. 16, m < n
      PROVE  Cell(BlockAddress(base, t, m)) # Cell(BlockAddress(base, t, n))
  <2> DEFINE d == 4 * (n - m)
  <2>1. \/ at(n) = at(m) + d /\ d \in 4 .. 60
        \/ at(m) = at(n) + d /\ d \in 4 .. 60
    BY <1>3, <1>4
  <2> HIDE DEF d
  <2> QED BY <1>2, <2>1, CellsDiffer
<1>5. i < j \/ j < i
  BY <1>1
<1> QED BY <1>1, <1>4, <1>5

-----------------------------------------------------------------------------
\* What a block that succeeds has moved

\* The bank of the registers of a block.
BlockBank(q, t) ==
    IF t.forceUser /\ ~(t.load /\ 15 \in t.list) THEN userMode ELSE q.cpsr.mode

\* q with the words before has become r with the words after.
Ascended(t, q, before, r, after) ==
    \A n \in t.list :
       LET cell == CellOf(GetRegister(q, t.rn).value, t, n)
           slot == RegisterSlot(BlockBank(q, t), n)
       IN  IF t.load THEN r.regs[slot] = before[cell] ELSE after[cell] = q.regs[slot]

\* A store that was reached is there afterwards.
LEMMA StoredWord ==
    ASSUME NEW D, NEW g, Fit(g, D), Covers(D), NEW n \in Nat, NEW moves,
           DOMAIN moves = 1 .. n, \A i \in 1 .. n : moves[i].address \in Word,
           \A i, j \in 1 .. n : i # j => Cell(moves[i].address) # Cell(moves[j].address),
           NEW r, r = StoreWords(g, moves), r.ok, NEW i \in 1 .. n
    PROVE  r.m.cells[Cell(moves[i].address)] = moves[i].value
<1> DEFINE c == Cell(moves[i].address)
           at(x) == {k \in Reached(g, moves) : Cell(moves[k].address) = x}
           stored == [x \in DOMAIN g.cells |->
                        IF at(x) = {} THEN g.cells[x] ELSE moves[Min(at(x))].value]
           all == Reached(g, moves) = DOMAIN moves
<1>1. r = [m |-> [g EXCEPT !.cells = stored], ok |-> all]
  BY DEF StoreWords
<1> HIDE DEF stored, all
<1>2. Reached(g, moves) = 1 .. n
  <2>1. r.ok = all
    BY <1>1
  <2>2. all
    BY <2>1
  <2> QED BY <2>2 DEF all
<1>3. c \in D
  <2>1. i \in Reached(g, moves) /\ i \in 1 .. i
    BY <1>2
  <2>2. Mapped(g, moves[i].address)
    BY <2>1 DEF Reached
  <2> QED BY <2>2, AddressIsMapped
<1> USE DEF stored
<1>4. at(c) = {i}
  BY <1>2
<1>5. Min(at(c)) = i
  <2>1. i \in Nat
    OBVIOUS
  <2> QED BY <1>4, <2>1, MinIsElement
<1>6. DOMAIN g.cells = D
  BY DEF Fit
<1>7. stored[c] = moves[i].value
  BY <1>3, <1>4, <1>5, <1>6
<1> HIDE DEF stored, c
<1>8. r.m.cells = stored
  BY <1>1 DEF Fit
<1> QED BY <1>7, <1>8 DEF c

LEMMA BlockStoreAscends ==
    ASSUME NEW D, NEW g, Fit(g, D), Covers(D), NEW t, ~t.load,
           t.rn \in 0 .. 15, t.list \in SUBSET (0 .. 15),
           NEW r, r = BlockTransfer(g, t), r.ok
    PROVE  Ascended(t, g.p, g.cells, r.m.p, r.m.cells)
<1> DEFINE N == Cardinality(t.list)
           base == Reg(g, t.rn)
           order == Order(t.list, t.up)
           moves == StoreMoves(g, t)
           stored == StoreWords(g, moves)
           e == BlockEnd(base, t)
<1>1. N \in Nat /\ order \in [1 .. N -> t.list] /\ base \in Nat /\ e \in Int
  <2>1. N \in Nat /\ order \in [1 .. N -> t.list]
    BY OrderIsList
  <2>2. base \in Nat
    BY RegIsWord
  <2>3. e \in Int
    BY <2>2, BlockEndIsNumber
  <2> QED BY <2>1, <2>2, <2>3
<1>2. DOMAIN moves = 1 .. N
  BY <1>1 DEF StoreMoves
<1>3. ASSUME NEW i \in 1 .. N
      PROVE  /\ moves[i].address = BlockAddress(base, t, i)
             /\ moves[i].value = StoredRegister(g, t, order[i])
             /\ moves[i].address \in Word
             /\ moves[i].value \in Word
  <2>1. /\ moves[i].address = BlockAddress(base, t, i)
        /\ moves[i].value = StoredRegister(g, t, order[i])
    BY <1>1 DEF StoreMoves
  <2>2. order[i] \in 0 .. 15
    BY <1>1
  <2> HIDE DEF moves, order, base
  <2>3. 4 * (IF t.preindex THEN i ELSE i - 1) \in Int
    BY <1>1
  <2>4. BlockAddress(base, t, i) \in Word
    BY <1>1, <2>3, DisplacedIsWord DEF BlockAddress
  <2>5. StoredRegister(g, t, order[i]) \in Word
    BY <2>2, RegIsWord, UserRegisterIsWord DEF StoredRegister
  <2> QED BY <2>1, <2>4, <2>5
<1>4. r = Written(stored, t.writeBack, t.rn, e)
  <2>1. BlockTransfer(g, t) = blockDataStore(g, t)
    BY DEF BlockTransfer
  <2> QED BY <2>1 DEF blockDataStore, StoreMoves, StoredRegister, Written
<1> HIDE DEF moves, order, base, e, N
<1>5. Fit(stored.m, D)
  <2>1. Follows(D, g, stored, StoreWords(Full(g), moves))
    BY <1>1, <1>2, <1>3, StoresAgree
  <2> QED BY <2>1 DEF Follows
<1>6. stored.ok
  BY <1>4 DEF Written
<1>7. \A i, j \in 1 .. N : i # j => Cell(moves[i].address) # Cell(moves[j].address)
  BY <1>1, <1>3, BlockCellsDiffer DEF N
<1>8. ASSUME NEW i \in 1 .. N
      PROVE  stored.m.cells[Cell(moves[i].address)] = moves[i].value
  BY <1>1, <1>2, <1>3, <1>6, <1>7, StoredWord
<1> HIDE DEF stored
<1>9. r.m.cells = stored.m.cells
  <2>1. Put(stored.m, t.rn, e).cells = stored.m.cells
    BY <1>1, <1>5, PutStores
  <2> QED BY <1>4, <2>1 DEF Written, Complete
<1>10. ASSUME NEW n \in t.list
       PROVE  r.m.cells[CellOf(base, t, n)] = g.p.regs[RegisterSlot(BlockBank(g.p, t), n)]
  <2> DEFINE i == PlaceFor(t, n)
  <2>1. i \in 1 .. N /\ order[i] = n
    BY OrderRanks DEF N, order
  <2>2. Cell(BlockAddress(base, t, i)) = CellOf(base, t, n)
    BY <1>1, AddressesAscend
  <2> HIDE DEF i
  <2>3. StoredRegister(g, t, n) = g.p.regs[RegisterSlot(BlockBank(g.p, t), n)]
    <3>1. n \in 0 .. 15
      OBVIOUS
    <3>2. Reg(g, n) = g.p.regs[RegisterSlot(g.p.cpsr.mode, n)]
      BY <3>1, RegIsWord
    <3>3. GetUserRegister(g.p, n).value = g.p.regs[RegisterSlot(userMode, n)]
      BY <3>1 DEF GetUserRegister, RegisterSlot
    <3> QED BY <3>2, <3>3 DEF StoredRegister, BlockBank
  <2> QED BY <1>3, <1>8, <1>9, <2>1, <2>2, <2>3
<1> QED BY <1>10 DEF Ascended, base, Reg

\* A word is read as it is.
LEMMA WordIsRead ==
    ASSUME NEW D, NEW g, Fit(g, D), NEW a \in Word, Cell(a) \in D
    PROVE  ReadMemory(g, a, 4) = g.cells[Cell(a)]
<1> DEFINE x == g.cells[Cell(a)]
<1>1. x \in Word
  BY DEF Fit
<1>2. Lane(a, 4) = 1 /\ Values(4) = WordSpace
  <2>1. (a % 4) - (a % 4) = 0
    BY WordIsNumber
  <2> QED BY <2>1, Bytes DEF Lane
<1>3. ReadMemory(g, a, 4) = (x \div 1) % WordSpace
  BY <1>2 DEF ReadMemory
<1> HIDE DEF x
<1>4. x \in Int /\ x \div 1 = x
  BY <1>1, WordIsNumber
<1>5. x % WordSpace = x
  BY <1>1, <1>4, Remainders
<1> QED BY <1>3, <1>4, <1>5 DEF x

LEMMA BlockLoadAscends ==
    ASSUME NEW D, NEW g, Fit(g, D), Covers(D), NEW t, t.load,
           t.rn \in 0 .. 15, t.list \in SUBSET (0 .. 15),
           NEW r, r = BlockTransfer(g, t), r.ok
    PROVE  Ascended(t, g.p, g.cells, r.m.p, r.m.cells)
<1> DEFINE b == blockDataLoad(g, t)
           low == BlockDataLoad(g.p, b)
           based == IF b.writeBack /\ b.rn \notin b.list
                      THEN SetRegister(low, b.rn, b.end).p ELSE low
           saved == GetSPSR(based)
           base == Reg(g, t.rn)
           N == Cardinality(t.list)
           order == Order(t.list, t.up)
           moves == BlockMoves(base, t)
<1>1. r.m.p = BlockTail(low, b).p /\ r.ok = BlockTail(low, b).ok
  <2> DEFINE y == BlockTail(low, b)
             j == [g EXCEPT !.p = y.p]
             ok == y.ok
  <2>1. r = [m |-> j, ok |-> ok]
    BY BlockParts DEF BlockTransfer
  <2>2. j.p = y.p
    BY DEF Fit
  <2> HIDE DEF j, ok
  <2>3. r.m = j
    BY <2>1
  <2>4. r.ok = ok
    BY <2>1
  <2> QED BY <2>2, <2>3, <2>4 DEF ok
<1>2. Loads(b) /\ Good(g.p)
  BY BlockLoads DEF Fit
<1>3. /\ b.rn = t.rn /\ b.list = t.list /\ b.forceUser = t.forceUser
      /\ b.loaded = ReadRegisters(g, t)
      /\ \A n \in b.loaded : b.word[n] = WordFor(g, t, n)
  BY blockDataLoadIs
<1>4. base \in Nat /\ N \in Nat /\ order \in [1 .. N -> t.list]
  BY OrderIsList, RegIsWord
<1>5. DOMAIN moves = 1 .. N /\ \A i \in 1 .. N :
        moves[i].address = BlockAddress(base, t, i) /\ moves[i].address \in Word
  <2>1. DOMAIN moves = 1 .. N /\ \A i \in 1 .. N : moves[i].address \in Word
    BY <1>4, BlockMovesAreTyped
  <2>2. \A i \in 1 .. N : moves[i].address = BlockAddress(base, t, i)
    BY <1>4 DEF BlockMoves
  <2> QED BY <2>1, <2>2
<1> HIDE DEF b
<1>6. Good(low) /\ low.cpsr = g.p.cpsr /\ low.regs = BlockRegs(g.p, b)
  BY <1>2, BlockDataLoadKeeps
<1> HIDE DEF low
<1>7. BlockTail(low, b) = IF b.loaded # b.list THEN Fail(low)
                          ELSE IF ~(b.forceUser /\ 15 \in b.list) THEN Done(based)
                          ELSE IF saved.ok THEN SetCPSR(based, saved.value)
                          ELSE Fail(based)
  BY DEF BlockTail
<1> HIDE DEF based, saved
<1>8. b.loaded = t.list
  <2>1. BlockTail(low, b).ok
    BY <1>1
  <2>2. ~Fail(low).ok
    BY DEF Fail
  <2>3. b.loaded = b.list
    BY <1>7, <2>1, <2>2
  <2> QED BY <1>3, <2>3
<1> USE DEF based, saved
<1>9. Good(based) /\ \A s \in Slots :
        s # RegisterSlot(g.p.cpsr.mode, t.rn) \/ t.rn \in t.list => based.regs[s] = low.regs[s]
  <2> DEFINE w == SetRegister(low, t.rn, b.end).p
  <2>1. Good(w)
    <3> DEFINE k == t.rn
    <3>1. k \in Nat /\ b.end \in Word
      BY <1>2 DEF Loads
    <3> HIDE DEF k
    <3>2. Good(SetRegister(low, k, b.end).p)
      BY <1>6, <3>1, SetRegisterKeeps DEF Keeps
    <3> QED BY <3>2 DEF k, w
  <2>2. w.regs = [low.regs EXCEPT ![RegisterSlot(g.p.cpsr.mode, t.rn)] = b.end]
    BY <1>6 DEF SetRegister, Done, Good, Processors
  <2>3. low.regs \in [Slots -> Word]
    BY <1>6 DEF Good, Processors
  <2> HIDE DEF w
  <2>4. based = IF b.writeBack /\ t.rn \notin t.list THEN w ELSE low
    BY <1>3 DEF w
  <2> HIDE DEF based
  <2> QED BY <1>6, <2>1, <2>2, <2>3, <2>4
<1> HIDE DEF based
<1>10. r.m.p.regs = based.regs
  <2>1. saved.value \in Status
    BY <1>9, Reads
  <2>2. SetCPSR(based, saved.value).p.regs = based.regs
    BY <1>9, <2>1, SetCPSRKeeps
  <2>3. Done(based).p = based /\ Fail(based).p = based
    BY DEF Done, Fail
  <2>4. r.m.p = Done(based).p \/ r.m.p = SetCPSR(based, saved.value).p
        \/ r.m.p = Fail(based).p
    BY <1>1, <1>3, <1>7, <1>8
  <2> QED BY <2>2, <2>3, <2>4
<1>11. ASSUME NEW n \in t.list
       PROVE  r.m.p.regs[RegisterSlot(BlockBank(g.p, t), n)] = g.cells[CellOf(base, t, n)]
  <2> DEFINE i == PlaceFor(t, n)
             m == BlockBank(g.p, t)
             s == RegisterSlot(m, n)
  <2>1. i \in 1 .. N /\ order[i] = n
    BY OrderRanks
  <2>2. Cell(moves[i].address) = CellOf(base, t, n)
    <3>1. Cell(BlockAddress(base, t, i)) = CellOf(base, t, n)
      BY <1>4, AddressesAscend
    <3> HIDE DEF i, moves
    <3> QED BY <1>5, <2>1, <3>1
  <2> HIDE DEF i
  <2>3. n \in 0 .. 15 /\ m \in ValidModes /\ LoadBank(g.p, b) = m
    BY <1>2, <1>3 DEF BlockBank, LoadBank, Good, ValidModes
  <2>4. s \in Slots
    BY <2>3, SlotExists
  <2>5. s # RegisterSlot(g.p.cpsr.mode, t.rn) \/ t.rn \in t.list
    BY <2>3, SlotsDifferAnywhere
  <2>6. r.m.p.regs[s] = low.regs[s]
    BY <1>9, <1>10, <2>4, <2>5
  <2>7. low.regs[s] = b.word[n]
    <3>1. s \in LoadSlots(g.p, b)
      BY <1>8, <2>3 DEF LoadSlots
    <3>2. \A k \in b.loaded : RegisterSlot(LoadBank(g.p, b), k) = s => k = n
      BY <1>8, <2>3, SlotsDiffer
    <3>3. (CHOOSE k \in b.loaded : RegisterSlot(LoadBank(g.p, b), k) = s) = n
      BY <1>8, <2>3, <3>2
    <3>4. LoadedWord(g.p, b, s) = b.word[n]
      BY <3>3 DEF LoadedWord
    <3> QED BY <1>6, <2>4, <3>1, <3>4 DEF BlockRegs
  <2>8. b.word[n] = WordFor(g, t, n)
    BY <1>3, <1>8
  <2>9. Place(t, n) = i
    BY <1>4, <2>1, PlaceOfRegister
  <2>10. WordFor(g, t, n) = ReadMemory(g, moves[i].address, 4)
    BY <2>9 DEF WordFor
  <2>11. Cell(moves[i].address) \in D /\ moves[i].address \in Word
    <3>1. PICK k \in Reached(g, moves) : n = order[k]
      BY <1>3, <1>8 DEF ReadRegisters
    <3>2. k \in 1 .. N
      BY <1>5, <3>1 DEF Reached
    <3>3. Place(t, n) = k
      BY <1>4, <3>1, <3>2, PlaceOfRegister
    <3>4. k = i
      BY <2>9, <3>3
    <3>5. Mapped(g, moves[i].address)
      BY <3>1, <3>2, <3>4 DEF Reached
    <3>6. moves[i].address \in Word
      BY <1>5, <2>1
    <3> HIDE DEF moves
    <3> QED BY <3>5, <3>6, AddressIsMapped
  <2> HIDE DEF moves
  <2>12. ReadMemory(g, moves[i].address, 4) = g.cells[Cell(moves[i].address)]
    BY <2>11, WordIsRead
  <2> QED BY <2>2, <2>6, <2>7, <2>8, <2>10, <2>12
<1> QED BY <1>11 DEF Ascended, Reg

\* The block has been moved by the instruction after the fetch.
LEMMA BlockRunAscends ==
    ASSUME NEW D, NEW g, Fit(g, D), Covers(D), NEW t \in ARMFormats, t.format = "block",
           NEW r, r = RunNextInstruction(g, t), r.ok
    PROVE  Ascended(t, Fetched(g.p), g.cells, r.m.p, r.m.cells)
<1> DEFINE k == AfterFetch(g)
<1>1. t \in [format : {"block"}, load : BOOLEAN, rn : Registers, list : SUBSET Registers,
             preindex : BOOLEAN, up : BOOLEAN, writeBack : BOOLEAN, forceUser : BOOLEAN]
  BY DEF ARMFormats
<1>2. t.rn \in 0 .. 15 /\ t.list \in SUBSET (0 .. 15) /\ ~Skipped(g, t)
  BY <1>1 DEF Registers, Skipped
<1>3. Fit(k, D) /\ k.cells = g.cells
  BY FetchFits
<1>4. k.p = Fetched(g.p)
  BY DEF AfterFetch, Fit
<1>5. r = IF ~Mapped(g, PC(g.p)) THEN Stop(g) ELSE Emulate(k, t)
  BY <1>2, RunParts
<1> HIDE DEF k
<1>6. r = BlockTransfer(k, t)
  BY <1>5 DEF Stop, Emulate
<1>7. Ascended(t, k.p, k.cells, r.m.p, r.m.cells)
  BY <1>2, <1>3, <1>6, BlockStoreAscends, BlockLoadAscends
<1> QED BY <1>3, <1>4, <1>7

\* What a step does if it is the first run of a block, and succeeds.
BlockMoved ==
    LET t == last'.instruction
    IN  pending = Nil /\ last' # Nil /\ last'.ok /\ t.format = "block"
          => Ascended(t, Fetched(p), cells, p', cells')

LEMMA StepsMoveBlocks ==
    ASSUME Inv, Next
    PROVE  BlockMoved
<1>1. CASE RunARM
  <2>1. PICK t \in ARMInstructions : Runs(t)
    BY <1>1 DEF RunARM
  <2> DEFINE r == RunNextInstruction(machine, t)
  <2>2. t \in ARMFormats
    BY <2>1, GuestAssumption
  <2>3. Becomes(r.m) /\ last' = [instruction |-> t, ok |-> r.ok]
    BY <2>1 DEF Runs
  <2>4. PICK c \in Memories : Fit(machine, DOMAIN c) /\ Covers(DOMAIN c)
    BY MachineFits
  <2>5. t.format = "block" /\ r.ok => Ascended(t, Fetched(p), cells, r.m.p, r.m.cells)
    BY <2>2, <2>4, BlockRunAscends, MachineParts
  <2> HIDE DEF r
  <2>6. last'.instruction = t /\ (last'.ok => r.ok)
    BY <2>3
  <2> QED BY <2>3, <2>5, <2>6 DEF BlockMoved, Becomes
<1>2. CASE RunTHUMB
  <2>1. PICK t \in THUMBInstructions : Runs(t)
    BY <1>2 DEF RunTHUMB
  <2>2. t.format # "block"
    BY <2>1, GuestAssumption DEF THUMBFormats
  <2>3. last'.instruction = t
    BY <2>1 DEF Runs
  <2> QED BY <2>2, <2>3 DEF BlockMoved
<1>3. CASE MapPage
  BY <1>3 DEF MapPage, BlockMoved
<1>4. CASE Retry
  BY <1>4 DEF Retry, BlockMoved
<1>5. CASE UnmapPage \/ AddCoprocessor \/ HostIRQ \/ HandlerReturns
  BY <1>5 DEF UnmapPage, AddCoprocessor, HostIRQ, HandlerReturns, BlockMoved
<1> QED BY <1>1, <1>2, <1>3, <1>4, <1>5 DEF Next, Host

-----------------------------------------------------------------------------
\* Long multiplies

\* A word has a sign bit.
LEMMA WordHasHalves ==
    \E H \in Nat \ {0} : H = WordSpace \div 2 /\ WordSpace = 2 * H
<1> DEFINE H == 2^(WordBits - 1)
           W == WordSpace
<1>1. WordBits - 1 \in Nat /\ (WordBits - 1) + 1 = WordBits
  BY TransfersAssumption
<1>2. 2^((WordBits - 1) + 1) = 2 * H
  BY <1>1, PowerDoubles
<1>3. W = 2 * H /\ H \in Nat \ {0}
  BY <1>1, <1>2, PowersArePositive, TransfersAssumption
<1> HIDE DEF H, W
<1>4. H = W \div 2
  BY <1>3
<1> QED BY <1>3, <1>4 DEF W

\* A number of two words and its halves.
LEMMA TwoWords ==
    ASSUME NEW W \in Nat \ {0}, NEW x \in 0 .. (W * W - 1)
    PROVE  \E q \in 0 .. (W - 1), r \in 0 .. (W - 1) :
              q = x \div W /\ r = x % W /\ x = q * W + r
<1>1. x \in Nat /\ W * W \in Nat /\ x < W * W
  OBVIOUS
<1>2. PICK q \in Nat, r \in 0 .. (W - 1) : q = x \div W /\ r = x % W /\ x = q * W + r
  BY <1>1, Division
<1> DEFINE y == q * W
           z == W * W
<1>3. ~(W < q)
  <2>1. W < q => z + W <= y
    BY <1>2, Multiples
  <2> QED BY <1>1, <1>2, <2>1
<1>4. W # q
  BY <1>1, <1>2
<1>5. q \in 0 .. (W - 1)
  BY <1>2, <1>3, <1>4
<1> QED BY <1>2, <1>5

\* The signed number of a pair.
LEMMA SignedPair ==
    ASSUME NEW H \in Nat \ {0}, NEW W, W = 2 * H, NEW q \in 0 .. (W - 1),
           NEW r \in 0 .. (W - 1), NEW x, x = q * W + r
    PROVE  /\ q >= H <=> x >= H * W
           /\ (IF q >= H THEN q - W ELSE q) * W + r = IF x >= H * W THEN x - W * W ELSE x
<1>1. W \in Nat \ {0} /\ q \in Nat /\ r \in Nat
  OBVIOUS
<1> DEFINE y == q * W
           z == H * W
<1>2. y \in Nat /\ z \in Nat
  BY <1>1
<1>3. q >= H => y >= z
  <2>1. H < q => z + W <= y
    BY <1>1, Multiples
  <2> QED BY <1>1, <1>2, <2>1
<1>4. ~(q >= H) => y + W <= z
  BY <1>1, Multiples
<1>5. q >= H <=> x >= z
  BY <1>1, <1>2, <1>3, <1>4
<1>6. (q - W) * W + r = x - W * W
  BY <1>1
<1> QED BY <1>5, <1>6

\* A number that differs by a multiple of V.
LEMMA WrapsInto ==
    ASSUME NEW V \in Nat \ {0}, NEW E \in Int, NEW k \in Int, NEW R, R = (E + k * V) % V
    PROVE  /\ E \in 0 .. (V - 1) => R = E
           /\ E < 0 /\ -V <= E => R = E + V
<1> DEFINE y == k * V
<1>1. y \in Int
  OBVIOUS
<1>2. PICK q \in Int, r \in 0 .. (V - 1) : r = (E + y) % V /\ E + y = q * V + r
  <2> HIDE DEF y
  <2>1. PICK q \in Int, r \in 0 .. (V - 1) : q = (E + y) \div V /\ r = (E + y) % V
    BY <1>1
  <2>2. E + y = q * V + r
    BY <1>1, <2>1
  <2> QED BY <2>1, <2>2
<1> DEFINE d == q - k
           z == d * V
<1>3. E = z + r /\ z \in Int /\ d \in Int /\ r = R
  BY <1>2
<1>4. (0 < d => 0 * V + V <= z) /\ (d < 0 => z + V <= 0 * V)
  BY <1>3, Multiples
<1>5. d < -1 => z + V <= (-1) * V
  BY <1>3, Multiples
<1>6. (d = 0 => z = 0) /\ (d = -1 => z = -V)
  OBVIOUS
<1> HIDE DEF d, z
<1> QED BY <1>3, <1>4, <1>5, <1>6

\* What is said of a long multiply of a and b, with high and low in the pair.
Value(t, x) == IF t.signed THEN Barrel!Signed(x) ELSE x

Exactly(t, a, b, high, low, r) ==
    LET exact == Value(t, a) * Value(t, b)
                   + (IF t.accumulate THEN Value(t, high) * WordSpace + low ELSE 0)
        least == IF t.signed THEN -((WordSpace * WordSpace) \div 2) ELSE 0
    IN  /\ exact \in least .. (least + WordSpace * WordSpace - 1) => Pair(r, t) = exact
        /\ t.s => /\ r.cpsr.z = (Pair(r, t) = 0)
                  /\ r.cpsr.n = Barrel!Sign(GetRegister(r, t.rdHigh).value)

\* A word that is put in a register.
LEMMA PutStored ==
    ASSUME NEW D, NEW g, Fit(g, D), NEW n \in 0 .. 15, NEW x \in Word
    PROVE  /\ Fit(Put(g, n, x), D)
           /\ Put(g, n, x).p.cpsr = g.p.cpsr
           /\ Put(g, n, x).p.regs = Storing(g.p, n, x)
<1>1. x \in Int /\ x % WordSpace = x
  BY WordIsNumber, Remainders
<1>2. Fit(Put(g, n, x), D)
  BY <1>1, PutKeepsFit
<1>3. Put(g, n, x).p.cpsr = g.p.cpsr /\ Put(g, n, x).p.regs = Storing(g.p, n, x % WordSpace)
  BY <1>1, PutStores
<1> QED BY <1>1, <1>2, <1>3

\* The pair holds what is put in it.
LEMMA PairIsPut ==
    ASSUME NEW D, NEW k, Fit(k, D), NEW t,
           t.rdHigh \in 0 .. 15, t.rdLow \in 0 .. 15, t.rdHigh # t.rdLow,
           NEW u \in Word, NEW v \in Word, NEW negative \in BOOLEAN, NEW zero \in BOOLEAN,
           NEW h, h = WithSigns(Put(Put(k, t.rdLow, u), t.rdHigh, v), t, negative, zero)
    PROVE  /\ GetRegister(h.p, t.rdHigh).value = v
           /\ GetRegister(h.p, t.rdLow).value = u
           /\ t.s => h.p.cpsr.z = zero /\ h.p.cpsr.n = negative
<1> DEFINE low == Put(k, t.rdLow, u)
           high == Put(low, t.rdHigh, v)
<1>1. Fit(low, D) /\ low.p.cpsr = k.p.cpsr /\ low.p.regs = Storing(k.p, t.rdLow, u)
  BY PutStored
<1>2. Fit(high, D) /\ high.p.cpsr = k.p.cpsr /\ high.p.regs = Storing(low.p, t.rdHigh, v)
  <2> HIDE DEF low
  <2>1. Fit(high, D) /\ high.p.cpsr = low.p.cpsr /\ high.p.regs = Storing(low.p, t.rdHigh, v)
    BY <1>1, PutStored
  <2> QED BY <1>1, <2>1
<1>3. h = WithSigns(high, t, negative, zero)
  OBVIOUS
<1> HIDE DEF low, high
<1>4. /\ Fit(h, D) /\ h.p.regs = high.p.regs /\ h.p.cpsr.mode = k.p.cpsr.mode
      /\ t.s => h.p.cpsr.z = zero /\ h.p.cpsr.n = negative
  <2>1. Fit(h, D)
    BY <1>2, <1>3, SignsKeepFit
  <2>2. CASE t.s
    <3> DEFINE status == [high.p.cpsr EXCEPT !.n = negative, !.z = zero]
    <3>1. status.mode = high.p.cpsr.mode /\ status.z = zero /\ status.n = negative
      BY <1>2 DEF Fit, Good, Processors, Status
    <3> HIDE DEF status
    <3>2. h = [high EXCEPT !.p.cpsr = status]
      BY <1>3, <2>2 DEF WithSigns, status
    <3>3. h.p.cpsr = status /\ h.p.regs = high.p.regs
      BY <1>2, <3>2 DEF Fit, Good, Processors
    <3> QED BY <1>2, <2>1, <3>1, <3>3
  <2>3. CASE ~t.s
    BY <1>2, <1>3, <2>1, <2>3 DEF WithSigns
  <2> QED BY <2>2, <2>3
<1> DEFINE mode == k.p.cpsr.mode
           sl == RegisterSlot(mode, t.rdLow)
           sh == RegisterSlot(mode, t.rdHigh)
<1>5. sl \in Slots /\ sh \in Slots /\ sl # sh
  <2>1. mode \in ValidModes
    BY DEF Fit, Good
  <2> QED BY <2>1, SlotExists, SlotsDiffer
<1>6. k.p.regs \in [Slots -> Word] /\ low.p.regs \in [Slots -> Word]
  BY <1>1 DEF Fit, Processors
<1>7. low.p.regs = [k.p.regs EXCEPT ![sl] = u] /\ high.p.regs = [low.p.regs EXCEPT ![sh] = v]
  BY <1>1, <1>2 DEF Storing
<1>8. Reg(h, t.rdHigh) = h.p.regs[sh] /\ Reg(h, t.rdLow) = h.p.regs[sl]
  BY <1>4, RegIsWord
<1> HIDE DEF sl, sh
<1>9. Reg(h, t.rdHigh) = v /\ Reg(h, t.rdLow) = u
  BY <1>4, <1>5, <1>6, <1>7, <1>8
<1> QED BY <1>4, <1>9 DEF Reg

LEMMA LongMultiplyIsExact ==
    ASSUME NEW D, NEW k, Fit(k, D), NEW t,
           t.rdHigh \in 0 .. 15, t.rdLow \in 0 .. 15, t.rm \in 0 .. 15, t.rs \in 0 .. 15,
           t.rdHigh # t.rdLow, NEW r, r = LongMultiply(k, t)
    PROVE  Exactly(t, Reg(k, t.rm), Reg(k, t.rs), Reg(k, t.rdHigh), Reg(k, t.rdLow), r.m.p)
<1> DEFINE W == WordSpace
           V == W * W
           a == Reg(k, t.rm)
           b == Reg(k, t.rs)
           g == Reg(k, t.rdHigh)
           l == Reg(k, t.rdLow)
           P == Value(t, a) * Value(t, b)
           sum == P + (IF t.accumulate THEN g * W + l ELSE 0)
           exact == P + (IF t.accumulate THEN Value(t, g) * W + l ELSE 0)
           x == sum % V
           y == Pair(r.m.p, t)
           z == IF t.signed /\ x \div W >= W \div 2 THEN x - V ELSE x
<1>1. PICK H \in Nat \ {0} : H = W \div 2 /\ W = 2 * H
  BY WordHasHalves
<1>2. W \in Nat \ {0} /\ V \in Nat \ {0} /\ H * W \in Nat /\ V = 2 * (H * W) /\ V \div 2 = H * W
  <2>1. W \in Nat \ {0} /\ V \in Nat \ {0}
    BY WordsAreNumbers, Products
  <2> HIDE DEF W
  <2>2. H * W \in Nat /\ V = 2 * (H * W)
    BY <1>1, <2>1
  <2> DEFINE HW == H * W
  <2>3. HW \in Nat /\ V = 2 * HW
    BY <2>2
  <2> HIDE DEF HW, V
  <2>4. V \div 2 = HW
    BY <2>3
  <2> QED BY <2>1, <2>2, <2>3, <2>4 DEF HW
<1>3. a \in Nat /\ b \in Nat /\ g \in Word /\ l \in Nat /\ g \in Nat
  BY RegIsWord
<1>4. \A n : Barrel!Signed(n) = (IF n >= H THEN n - W ELSE n)
  BY <1>1 DEF Barrel!Signed, Barrel!WordValues, Barrel!Sign
<1>5. \A n \in Nat : Value(t, n) \in Int
  <2> HIDE DEF W
  <2> QED BY <1>2, <1>4 DEF Value
<1>6. Product(k, t) = P
  BY DEF Product, Value
<1> HIDE DEF a, b, g, l
<1>7. P \in Int
  <2>1. Value(t, a) \in Int /\ Value(t, b) \in Int
    BY <1>3, <1>5
  <2> QED BY <2>1
<1> HIDE DEF P, W
<1>8. sum \in Int /\ exact \in Int
  <2>1. g * W + l \in Int /\ Value(t, g) * W + l \in Int
    BY <1>2, <1>3, <1>5
  <2> QED BY <1>7, <2>1
<1>9. \E j \in Int : sum = exact + j * V
  <2>1. CASE t.accumulate /\ t.signed /\ g >= H
    <3>1. Value(t, g) = g - W
      BY <1>4, <2>1 DEF Value
    <3>2. (g - W) * W = g * W - V
      BY <1>2, <1>3
    <3>3. g * W \in Int /\ V \in Int /\ 1 * V = V
      BY <1>2, <1>3
    <3>4. sum = P + (g * W + l) /\ exact = P + ((g * W - V) + l)
      BY <2>1, <3>1, <3>2
    <3> DEFINE gW == g * W
    <3> HIDE DEF V, gW, sum, exact
    <3>5. sum = exact + 1 * V
      BY <1>3, <1>7, <3>3, <3>4 DEF gW
    <3> QED BY <3>5
  <2>2. CASE ~(t.accumulate /\ t.signed /\ g >= H)
    <3>1. sum = exact
      BY <1>4, <2>2 DEF Value
    <3> HIDE DEF sum, exact, V
    <3>2. exact + 0 * V = exact
      BY <1>2, <1>8
    <3> QED BY <3>1, <3>2
  <2> QED BY <2>1, <2>2
<1>10. PICK j \in Int : sum = exact + j * V
  BY <1>9
<1>11. /\ exact \in 0 .. (V - 1) => x = exact
       /\ exact < 0 /\ -V <= exact => x = exact + V
  <2> HIDE DEF V, exact, sum
  <2> QED BY <1>2, <1>8, <1>10, WrapsInto
<1>12. x \in 0 .. (V - 1)
  <2> HIDE DEF V, sum
  <2> QED BY <1>2, <1>8
<1>13. /\ GetRegister(r.m.p, t.rdHigh).value = x \div W
       /\ GetRegister(r.m.p, t.rdLow).value = x % W
       /\ t.s => r.m.p.cpsr.z = (x = 0) /\ r.m.p.cpsr.n = Barrel!Sign(x \div W)
  <2> DEFINE u == x % W
             v == x \div W
             negative == Barrel!Sign(v)
             zero == x = 0
             h == WithSigns(Put(Put(k, t.rdLow, u), t.rdHigh, v), t, negative, zero)
  <2>1. r = Complete(h)
    BY <1>6 DEF LongMultiply, W, g, l
  <2> HIDE DEF x
  <2>2. u \in Word /\ v \in Word
    <3>1. PICK q \in 0 .. (W - 1), s \in 0 .. (W - 1) : q = x \div W /\ s = x % W
      BY <1>2, <1>12, TwoWords
    <3> QED BY <3>1 DEF Word, W
  <2>3. negative \in BOOLEAN /\ zero \in BOOLEAN
    BY DEF Barrel!Sign
  <2> HIDE DEF u, v, negative, zero
  <2>4. /\ GetRegister(h.p, t.rdHigh).value = v
        /\ GetRegister(h.p, t.rdLow).value = u
        /\ t.s => h.p.cpsr.z = zero /\ h.p.cpsr.n = negative
    BY <2>2, <2>3, PairIsPut
  <2>5. r.m = h
    BY <2>1 DEF Complete
  <2> QED BY <2>4, <2>5 DEF u, v, negative, zero
<1> HIDE DEF x, sum
<1>14. PICK q \in 0 .. (W - 1), s \in 0 .. (W - 1) : q = x \div W /\ s = x % W /\ x = q * W + s
  BY <1>2, <1>12, TwoWords
<1>15. /\ q >= H <=> x >= H * W
       /\ (IF q >= H THEN q - W ELSE q) * W + s = IF x >= H * W THEN x - V ELSE x
  BY <1>1, <1>14, SignedPair
<1>16. y = IF t.signed /\ x >= H * W THEN x - V ELSE x
  <2>1. y = Value(t, q) * W + s
    BY <1>13, <1>14 DEF Pair, Value, W
  <2>2. CASE t.signed
    <3>1. Value(t, q) = IF q >= H THEN q - W ELSE q
      BY <1>4, <2>2 DEF Value
    <3> QED BY <1>15, <2>1, <2>2, <3>1
  <2>3. CASE ~t.signed
    BY <1>14, <2>1, <2>3 DEF Value
  <2> QED BY <2>2, <2>3
<1> DEFINE HW == H * W
<1>17. HW \in Nat /\ V = 2 * HW /\ V \div 2 = HW /\ y = IF t.signed /\ x >= HW THEN x - V ELSE x
  BY <1>2, <1>16
<1> HIDE DEF HW, V, y, exact
<1>18. (y = 0) <=> (x = 0)
  BY <1>12, <1>17
<1> DEFINE least == IF t.signed THEN -(V \div 2) ELSE 0
<1>19. exact \in least .. (least + V - 1) => y = exact
  <2>1. CASE t.signed
    BY <1>8, <1>11, <1>12, <1>17, <2>1
  <2>2. CASE ~t.signed
    BY <1>8, <1>11, <1>17, <2>2
  <2> QED BY <2>1, <2>2
<1>20. t.s => /\ r.m.p.cpsr.z = (y = 0)
              /\ r.m.p.cpsr.n = Barrel!Sign(GetRegister(r.m.p, t.rdHigh).value)
  BY <1>13, <1>18
<1> QED BY <1>19, <1>20 DEF Exactly, exact, y, V, W, P, a, b, g, l

\* What a step that has run a long multiply has done, in terms of the operands
\* before it.
Multiplied ==
    LET t == last'.instruction
    IN  last' # Nil /\ last'.ok /\ t.format = "longMultiply"
          => Exactly(t, GetRegister(p, t.rm).value, GetRegister(p, t.rs).value,
                     GetRegister(p, t.rdHigh).value, GetRegister(p, t.rdLow).value, p')

\* The fetch, and the pc put back by the host, are no operands.
LEMMA LongMultiplyRuns ==
    ASSUME NEW D, NEW g, Fit(g, D), NEW t \in ARMFormats \union THUMBFormats,
           t.format = "longMultiply", NEW r, r = RunNextInstruction(g, t), r.ok
    PROVE  /\ \A n \in {t.rm, t.rs, t.rdHigh, t.rdLow} : n \in 0 .. 14
           /\ Exactly(t, Reg(g, t.rm), Reg(g, t.rs), Reg(g, t.rdHigh), Reg(g, t.rdLow), r.m.p)
<1> DEFINE k == AfterFetch(g)
<1>1. t \in [format : {"multiply", "longMultiply"}, signed : BOOLEAN, accumulate : BOOLEAN,
             s : BOOLEAN, rdHigh : Registers, rdLow : Registers, rm : Registers,
             rs : Registers] /\ CanMultiply(t)
  BY DEF ARMFormats, THUMBFormats
<1>2. /\ t.rm \in 0 .. 14 /\ t.rs \in 0 .. 14 /\ t.rdHigh \in 0 .. 14 /\ t.rdLow \in 0 .. 14
      /\ t.rdHigh # t.rdLow /\ ~Skipped(g, t)
  BY <1>1 DEF Registers, CanMultiply, Skipped
<1>3. /\ Fit(k, D) /\ k.p.cpsr = g.p.cpsr /\ k.p.regs = Moving(g.p, Ahead(g.p))
  BY FetchFits
<1>4. r = IF ~Mapped(g, PC(g.p)) THEN Stop(g) ELSE Emulate(k, t)
  BY <1>2, RunParts
<1> HIDE DEF k
<1>5. r = LongMultiply(k, t)
  BY <1>4 DEF Stop, Emulate
<1>6. Exactly(t, Reg(k, t.rm), Reg(k, t.rs), Reg(k, t.rdHigh), Reg(k, t.rdLow), r.m.p)
  <2>1. \A n \in 0 .. 14 : n \in 0 .. 15
    OBVIOUS
  <2> QED BY <1>2, <1>3, <1>5, <2>1, LongMultiplyIsExact
<1>7. ASSUME NEW n \in 0 .. 14 PROVE Reg(k, n) = Reg(g, n)
  <2>1. n \in 0 .. 15 /\ n # 15 /\ 15 \in 0 .. 15
    OBVIOUS
  <2>2. Reg(k, n) = k.p.regs[RegisterSlot(g.p.cpsr.mode, n)]
        /\ Reg(g, n) = g.p.regs[RegisterSlot(g.p.cpsr.mode, n)]
    BY <1>3, <2>1, RegIsWord
  <2>3. RegisterSlot(g.p.cpsr.mode, n) # <<userMode, 15>>
    BY <2>1, SlotsDiffer, PCSlot
  <2>4. RegisterSlot(g.p.cpsr.mode, n) \in Slots /\ g.p.regs \in [Slots -> Word]
    BY <2>1, SlotExists DEF Fit, Good, Processors
  <2> QED BY <1>3, <2>2, <2>3, <2>4 DEF Moving
<1> QED BY <1>2, <1>6, <1>7

LEMMA StepsMultiply ==
    ASSUME Inv, Next
    PROVE  Multiplied
<1>1. PICK c \in Memories : Fit(machine, DOMAIN c)
  BY MachineFits
<1>2. ASSUME NEW t \in ARMFormats \union THUMBFormats, Runs(t)
      PROVE  Multiplied
  <2> DEFINE r == RunNextInstruction(machine, t)
  <2>1. Becomes(r.m) /\ last' = [instruction |-> t, ok |-> r.ok]
    BY <1>2 DEF Runs
  <2>2. t.format = "longMultiply" /\ r.ok =>
          Exactly(t, Reg(machine, t.rm), Reg(machine, t.rs), Reg(machine, t.rdHigh),
                  Reg(machine, t.rdLow), r.m.p)
    BY <1>1, <1>2, LongMultiplyRuns
  <2> HIDE DEF r
  <2>3. last'.instruction = t /\ (last'.ok => r.ok) /\ p' = r.m.p
    BY <2>1 DEF Becomes
  <2> QED BY <2>2, <2>3, MachineParts DEF Multiplied, Reg
<1>3. CASE RunARM \/ RunTHUMB
  <2>1. PICK t \in ARMInstructions \union THUMBInstructions : Runs(t)
    BY <1>3 DEF RunARM, RunTHUMB
  <2> QED BY <1>2, <2>1, InstructionsAreTyped
<1>4. CASE Retry
  <2> DEFINE t == pending.instruction
             g == Put(machine, 15, pending.pc)
             r == RunNextInstruction(g, t)
  <2>1. pending.pc \in Word /\ t \in ARMFormats \union THUMBFormats
    BY <1>4, InstructionsAreTyped DEF Retry, Inv, Resumable
  <2>2. Becomes(r.m) /\ last' = [instruction |-> t, ok |-> r.ok]
    BY <1>4 DEF Retry
  <2> DEFINE D == DOMAIN c
  <2>3. Fit(machine, D) /\ Fit(g, D)
    BY <1>1, <2>1, PCIsPut
  <2> HIDE DEF D
  <2>4. g.p.cpsr = p.cpsr /\ g.p.regs = Storing(p, 15, pending.pc)
    <3>1. pending.pc \in Word /\ 15 \in 0 .. 15
      BY <2>1
    <3>2. g.p.cpsr = machine.p.cpsr /\ g.p.regs = Storing(machine.p, 15, pending.pc)
      BY <2>3, <3>1, PutStored
    <3> QED BY <3>2, MachineParts
  <2> HIDE DEF g, t
  <2>5. ASSUME NEW n \in 0 .. 14 PROVE Reg(g, n) = GetRegister(p, n).value
    <3>1. n \in 0 .. 15 /\ n # 15 /\ 15 \in 0 .. 15
      OBVIOUS
    <3>2. Reg(g, n) = g.p.regs[RegisterSlot(p.cpsr.mode, n)]
          /\ Reg(machine, n) = p.regs[RegisterSlot(p.cpsr.mode, n)]
      BY <2>3, <2>4, <3>1, RegIsWord, MachineParts
    <3>3. RegisterSlot(p.cpsr.mode, n) # RegisterSlot(p.cpsr.mode, 15)
      BY <3>1, SlotsDiffer
    <3>4. RegisterSlot(p.cpsr.mode, n) \in Slots /\ p.regs \in [Slots -> Word]
      BY <3>1, SlotExists DEF Inv, Good, Processors
    <3> QED BY <2>4, <3>2, <3>3, <3>4, MachineParts DEF Storing, Reg
  <2>6. t.format = "longMultiply" /\ r.ok =>
          /\ \A n \in {t.rm, t.rs, t.rdHigh, t.rdLow} : n \in 0 .. 14
          /\ Exactly(t, Reg(g, t.rm), Reg(g, t.rs), Reg(g, t.rdHigh), Reg(g, t.rdLow), r.m.p)
    BY <2>1, <2>3, LongMultiplyRuns
  <2> HIDE DEF r
  <2>7. last'.instruction = t /\ (last'.ok => r.ok) /\ p' = r.m.p
    BY <2>2 DEF Becomes
  <2> QED BY <2>5, <2>6, <2>7 DEF Multiplied
<1>5. CASE MapPage \/ UnmapPage \/ AddCoprocessor \/ HostIRQ \/ HandlerReturns
  BY <1>5 DEF MapPage, UnmapPage, AddCoprocessor, HostIRQ, HandlerReturns, Multiplied
<1> QED BY <1>3, <1>4, <1>5 DEF Next, Host

-----------------------------------------------------------------------------
\* THUMB loads and stores of one value

LEMMA PutTwice ==
    ASSUME NEW D, NEW g, Fit(g, D), NEW n \in 0 .. 15, NEW x \in Int, NEW y \in Int
    PROVE  /\ Put(Put(g, n, x), n, y) = Put(g, n, y)
           /\ Reg(Put(g, n, x), n) = x % WordSpace
<1> DEFINE h == Put(g, n, x)
           k == Put(h, n, y)
           j == Put(g, n, y)
           s == RegisterSlot(g.p.cpsr.mode, n)
           v == x % WordSpace
           w == y % WordSpace
<1>0. ASSUME NEW m, Fit(m, D), NEW z \in Int
      PROVE  /\ Fit(Put(m, n, z), D) /\ Put(m, n, z).mapped = m.mapped
             /\ Put(m, n, z).cells = m.cells
             /\ Put(m, n, z).coprocessors = m.coprocessors
             /\ Put(m, n, z).p.cpsr = m.p.cpsr /\ Put(m, n, z).p.spsr = m.p.spsr
             /\ Put(m, n, z).p.regs
                  = [m.p.regs EXCEPT ![RegisterSlot(m.p.cpsr.mode, n)] = z % WordSpace]
  <2>1. Fit(Put(m, n, z), D) /\ Put(m, n, z).mapped = m.mapped
    BY <1>0, PutKeepsFit
  <2>2. /\ Put(m, n, z).p.cpsr = m.p.cpsr /\ Put(m, n, z).p.spsr = m.p.spsr
        /\ Put(m, n, z).p.regs = Storing(m.p, n, z % WordSpace)
        /\ Put(m, n, z).cells = m.cells /\ Put(m, n, z).coprocessors = m.coprocessors
    BY <1>0, PutStores
  <2> QED BY <2>1, <2>2 DEF Storing
<1>1. /\ Fit(h, D) /\ h.mapped = g.mapped /\ h.cells = g.cells
      /\ h.coprocessors = g.coprocessors /\ h.p.cpsr = g.p.cpsr /\ h.p.spsr = g.p.spsr
      /\ h.p.regs = [g.p.regs EXCEPT ![s] = v]
  BY <1>0
<1>2. /\ Fit(j, D) /\ j.mapped = g.mapped /\ j.cells = g.cells
      /\ j.coprocessors = g.coprocessors /\ j.p.cpsr = g.p.cpsr /\ j.p.spsr = g.p.spsr
      /\ j.p.regs = [g.p.regs EXCEPT ![s] = w]
  BY <1>0
<1> HIDE DEF h
<1>3. /\ Fit(k, D) /\ k.mapped = g.mapped /\ k.cells = g.cells
      /\ k.coprocessors = g.coprocessors /\ k.p.cpsr = g.p.cpsr /\ k.p.spsr = g.p.spsr
      /\ k.p.regs = [h.p.regs EXCEPT ![s] = w]
  <2>1. /\ Fit(k, D) /\ k.mapped = h.mapped /\ k.cells = h.cells
        /\ k.coprocessors = h.coprocessors /\ k.p.cpsr = h.p.cpsr /\ k.p.spsr = h.p.spsr
        /\ k.p.regs = [h.p.regs EXCEPT ![RegisterSlot(h.p.cpsr.mode, n)] = w]
    BY <1>0, <1>1
  <2> HIDE DEF k, w
  <2> QED BY <1>1, <2>1
<1>4. s \in Slots /\ g.p.regs \in [Slots -> Word]
  BY SlotExists DEF Fit, Good, Processors
<1> HIDE DEF k, j, s, v, w
<1>5. k.p.regs = j.p.regs
  BY <1>1, <1>2, <1>3, <1>4
<1>6. k.p = j.p
  BY <1>2, <1>3, <1>5 DEF Fit, Processors
<1>7. k = j
  BY <1>2, <1>3, <1>6, SameMachine
<1>8. Reg(h, n) = h.p.regs[s]
  <2>1. Reg(h, n) = h.p.regs[RegisterSlot(h.p.cpsr.mode, n)]
    BY <1>1, RegIsWord
  <2> QED BY <1>1, <2>1 DEF s
<1>9. Reg(h, n) = v
  BY <1>1, <1>4, <1>8
<1> QED BY <1>7, <1>9 DEF h, k, j, v

\* An ARM access up from its base, which it does not write, is a transfer.
LEMMA AccessIsTransfer ==
    ASSUME NEW D, NEW g, Fit(g, D), NEW w, w.rd \in 0 .. 14, w.rn \in 0 .. 14,
           w.up, w.preindex, ~w.writeBack, NEW offset \in Int
    PROVE  Access(g, w, offset)
             = Transfer(g, w.load, w.rd, (Reg(g, w.rn) + offset) % WordSpace,
                        IF w.byte THEN 1 ELSE 4)
<1> DEFINE base == (Reg(g, w.rn) + (IF w.rn = 15 THEN 4 ELSE 0)) % WordSpace
           x == Reg(g, w.rd) + (IF w.rd = 15 THEN 8 ELSE 0)
           a == (Reg(g, w.rn) + offset) % WordSpace
           width == IF w.byte THEN 1 ELSE 4
<1>1. base = Reg(g, w.rn)
  <2>1. Reg(g, w.rn) \in Word
    BY RegIsWord
  <2>2. Reg(g, w.rn) \in Int /\ Reg(g, w.rn) % WordSpace = Reg(g, w.rn)
    BY <2>1, Remainders, WordIsNumber
  <2>3. base = (Reg(g, w.rn) + 0) % WordSpace
    OBVIOUS
  <2> QED BY <2>2, <2>3
<1>2. x = Reg(g, w.rd)
  <2>1. Reg(g, w.rd) \in Nat
    BY RegIsWord
  <2> QED BY <2>1
<1>3. Displaced(base, w.up, offset) = a
  BY <1>1 DEF Displaced
<1>4. Access(g, w, offset)
        = IF ~Mapped(g, a) THEN Stop(g)
          ELSE Complete(IF w.load THEN Put(g, w.rd, ReadMemory(g, a, width))
                        ELSE WriteMemory(g, a, width, x))
  BY <1>3 DEF Access
<1> HIDE DEF x, a, width, base
<1>5. Access(g, w, offset) = Transfer(g, w.load, w.rd, a, width)
  BY <1>2, <1>4 DEF Transfer
<1> QED BY <1>5 DEF a, width

LEMMA PlainIsTransfer ==
    ASSUME NEW D, NEW g, Fit(g, D), NEW t, t.rd \in 0 .. 7, NEW rn \in 0 .. 14,
           NEW offset \in Nat
    PROVE  SingleDataTransfer(g, Plain(t, rn, offset))
             = Transfer(g, t.load, t.rd, (Reg(g, rn) + offset) % WordSpace,
                        IF "byte" \in DOMAIN t /\ t.byte THEN 1 ELSE 4)
<1> DEFINE w == Plain(t, rn, offset)
<1>1. /\ w.rd = t.rd /\ w.rn = rn /\ w.rm = 0 /\ w.shift = "lsl" /\ w.amount = 0
      /\ w.offset = offset /\ w.immediate = TRUE /\ w.preindex = TRUE /\ w.up = TRUE
      /\ w.writeBack = FALSE /\ w.load = t.load /\ w.byte = ("byte" \in DOMAIN t /\ t.byte)
  BY DEF Plain
<1> HIDE DEF w
<1>2. w.shift \in Barrel!ShiftTypes
  BY <1>1 DEF Barrel!ShiftTypes
<1>3. SingleDataTransfer(g, w) = Access(Ready(g, w), w, Offset(g, w))
  BY <1>1, <1>2, SingleIsReadyThenAccess
<1>4. Ready(g, w) = g /\ Offset(g, w) = offset
  BY <1>1 DEF Ready, Offset
<1>5. SingleDataTransfer(g, w) = Transfer(g, w.load, w.rd, (Reg(g, w.rn) + offset) % WordSpace,
                        IF w.byte THEN 1 ELSE 4)
  BY <1>1, <1>3, <1>4, AccessIsTransfer
<1> QED BY <1>1, <1>5 DEF w

LEMMA ImmediateOffsetTwin ==
    ASSUME NEW D, NEW g, Fit(g, D),
           NEW t \in [format : {"immediateOffset"}, load : BOOLEAN, byte : BOOLEAN,
                      rd : LowRegisters, rb : LowRegisters, offset : Nat]
    PROVE  Twin(g, t) = Emulate(g, t)
<1> DEFINE offset == IF t.byte THEN t.offset ELSE 4 * t.offset
<1>1. /\ t.format = "immediateOffset" /\ t.rd \in 0 .. 7 /\ t.rb \in 0 .. 14
      /\ t.offset \in Nat /\ "byte" \in DOMAIN t
  BY DEF LowRegisters
<1>2. offset \in Nat /\ offset = (IF t.byte THEN 1 ELSE 4) * t.offset
  BY <1>1
<1>3. Twin(g, t) = SingleDataTransfer(g, Plain(t, t.rb, offset))
  BY <1>1 DEF Twin
<1> HIDE DEF offset
<1>4. Twin(g, t) = Transfer(g, t.load, t.rd, (Reg(g, t.rb) + offset) % WordSpace,
                            IF t.byte THEN 1 ELSE 4)
  BY <1>1, <1>2, <1>3, PlainIsTransfer
<1>5. Emulate(g, t) = LoadStoreImmediateOffset(g, t)
  BY <1>1, Dispatch
<1> QED BY <1>2, <1>4, <1>5 DEF LoadStoreImmediateOffset

LEMMA SPRelativeTwin ==
    ASSUME NEW D, NEW g, Fit(g, D),
           NEW t \in [format : {"spRelative"}, load : BOOLEAN, rd : LowRegisters, offset : Nat]
    PROVE  Twin(g, t) = Emulate(g, t)
<1>1. /\ t.format = "spRelative" /\ t.rd \in 0 .. 7 /\ 4 * t.offset \in Nat
      /\ ~("byte" \in DOMAIN t) /\ 13 \in 0 .. 14
  BY DEF LowRegisters
<1>3. Twin(g, t) = SingleDataTransfer(g, Plain(t, 13, 4 * t.offset))
  BY <1>1 DEF Twin
<1>4. Twin(g, t) = Transfer(g, t.load, t.rd, (Reg(g, 13) + 4 * t.offset) % WordSpace, 4)
  BY <1>1, <1>3, PlainIsTransfer
<1>5. Emulate(g, t) = SPRelativeLoadStore(g, t)
  BY <1>1, Dispatch
<1> QED BY <1>4, <1>5 DEF SPRelativeLoadStore

\* The pc-relative ldr loads from the address that adr leaves in its register.
LEMMA PcRelativeTwin ==
    ASSUME NEW D, NEW g, Fit(g, D), Covers(D),
           NEW t \in [format : {"pcRelative"}, rd : LowRegisters, offset : Nat]
    PROVE  /\ Twin(g, t).ok = Emulate(g, t).ok
           /\ Twin(g, t).ok => Twin(g, t).m = Emulate(g, t).m
<1> DEFINE x == AlignedPC(g) + 4 * t.offset
           a == x % WordSpace
           h == Put(g, t.rd, x)
           load == [load |-> TRUE, rd |-> t.rd]
           read == ReadMemory(g, a, 4)
<1>1. /\ t.format = "pcRelative" /\ t.rd \in 0 .. 7 /\ t.rd \in 0 .. 15 /\ t.rd \in 0 .. 14
      /\ t.offset \in Nat
  BY DEF LowRegisters
<1>2. AlignedPC(g) \in Int
  <2>1. (PC(g.p) + 2) % WordSpace \in Nat
    BY PCIsWord, Remainders, WordIsNumber
  <2> QED BY <2>1 DEF AlignedPC, Cell
<1>3. x \in Int /\ a \in Word /\ a % WordSpace = a
  BY <1>1, <1>2, Remainders, WordIsNumber
<1>4. Emulate(g, t) = Transfer(g, TRUE, t.rd, a, 4)
  BY <1>1, Dispatch DEF PcRelativeLoad
<1>5. Twin(g, t) = SingleDataTransfer(h, Plain(load, t.rd, 0))
  BY <1>1 DEF Twin, LoadAddress, Complete
<1>6. ~("byte" \in DOMAIN load) /\ load.rd = t.rd /\ load.load = TRUE
  OBVIOUS
<1> HIDE DEF x, load
<1>7. Fit(h, D) /\ h.mapped = g.mapped /\ h.cells = g.cells
  BY <1>1, <1>3, PutKeepsFit, PutStores
<1>8. Reg(h, t.rd) = a
  BY <1>1, <1>3, PutTwice
<1>9. Twin(g, t) = Transfer(h, TRUE, t.rd, a, 4)
  <2>1. Twin(g, t) = Transfer(h, TRUE, t.rd, (Reg(h, t.rd) + 0) % WordSpace, 4)
    <3> HIDE DEF h
    <3> DEFINE rn == t.rd
    <3>1. rn \in 0 .. 14 /\ load.rd \in 0 .. 7 /\ 0 \in Nat
      BY <1>1, <1>6
    <3> HIDE DEF rn
    <3>2. SingleDataTransfer(h, Plain(load, rn, 0))
            = Transfer(h, load.load, load.rd, (Reg(h, rn) + 0) % WordSpace, 4)
      BY <1>6, <1>7, <3>1, PlainIsTransfer
    <3> QED BY <1>5, <1>6, <3>2 DEF rn
  <2> HIDE DEF a, h
  <2>2. (Reg(h, t.rd) + 0) % WordSpace = a
    <3>1. a + 0 = a
      BY <1>3, WordIsNumber
    <3> QED BY <1>3, <1>8, <3>1
  <2> QED BY <2>1, <2>2
<1> HIDE DEF a
<1>10. Mapped(h, a) = Mapped(g, a) /\ ReadMemory(h, a, 4) = read
  BY <1>7 DEF Mapped, ReadMemory
<1>11. CASE ~Mapped(g, a)
  BY <1>4, <1>9, <1>10, <1>11 DEF Transfer, Stop
<1>12. CASE Mapped(g, a)
  <2>1. Put(h, t.rd, read) = Put(g, t.rd, read)
    <3>1. read \in Int
      <4>1. Cell(a) \in D /\ 4 \in Widths
        BY <1>3, <1>12, AddressIsMapped DEF Widths
      <4> QED BY <1>3, <4>1, ReadFits
    <3> HIDE DEF read
    <3> QED BY <1>1, <1>3, <3>1, PutTwice
  <2>2. Twin(g, t) = Complete(Put(h, t.rd, read)) /\ Emulate(g, t) = Complete(Put(g, t.rd, read))
    BY <1>4, <1>9, <1>10, <1>12 DEF Transfer
  <2> QED BY <2>1, <2>2
<1> QED BY <1>11, <1>12

\* The shift of a register by nothing, and the carry it leaves.
LEMMA NoShift ==
    ASSUME NEW a \in Word, NEW c
    PROVE  ByImmediate("lsl", a, 0, c) = [value |-> a, carry |-> c]
<1>1. 2^0 = 1
  <2>1. IsFiniteSet({}) /\ Cardinality({}) = 0
    BY FS_EmptySet
  <2> DEFINE E == {}
  <2>2. IsFiniteSet(E) /\ Cardinality(E) = 0
    BY <2>1
  <2>3. SUBSET E = {E}
    OBVIOUS
  <2> HIDE DEF E
  <2>4. Cardinality(SUBSET E) = 2^0
    BY <2>2, FS_SUBSET
  <2>5. Cardinality({E}) = 1
    BY FS_Singleton
  <2> QED BY <2>3, <2>4, <2>5
<1>2. Barrel!WordValues = WordSpace
  BY WordHasHalves DEF Barrel!WordValues
<1>3. Barrel!ShiftLeft(a, 0) = (a * 1) % WordSpace
  BY <1>1, <1>2 DEF Barrel!ShiftLeft
<1>4. Barrel!ShiftLeft(a, 0) = a
  <2>1. a * 1 = a /\ a % WordSpace = a
    BY WordIsNumber, Remainders
  <2> QED BY <1>3, <2>1
<1>5. Barrel!applyLSL(a, 0, c) = [value |-> Barrel!ShiftLeft(a, 0), carry |-> c]
  BY DEF Barrel!applyLSL
<1> QED BY <1>4, <1>5 DEF ByImmediate, Barrel!ShiftBy

LEMMA SameCarry ==
    ASSUME NEW D, NEW g, Fit(g, D)
    PROVE  SetCarry(g, g.p.cpsr.c) = g
<1> DEFINE status == [g.p.cpsr EXCEPT !.c = g.p.cpsr.c]
           q == [g.p EXCEPT !.cpsr = status]
<1>1. status = g.p.cpsr
  BY DEF Fit, Good, Processors, Status
<1>2. SetCarry(g, g.p.cpsr.c) = [g EXCEPT !.p = q]
  BY DEF SetCarry, SetFlag, Done
<1> HIDE DEF status
<1>3. q = g.p
  BY <1>1 DEF Fit, Processors
<1> HIDE DEF q
<1>4. [g EXCEPT !.p = q] = g
  BY <1>3 DEF Fit
<1> QED BY <1>2, <1>4

LEMMA RegisterOffsetTwin ==
    ASSUME NEW D, NEW g, Fit(g, D),
           NEW t \in [format : {"registerOffset"}, load : BOOLEAN, byte : BOOLEAN,
                      rd : LowRegisters, rb : LowRegisters, ro : LowRegisters]
    PROVE  Twin(g, t) = Emulate(g, t)
<1> DEFINE w == [Plain(t, t.rb, 0) EXCEPT !.immediate = FALSE, !.rm = t.ro]
           a == (Reg(g, t.rb) + Reg(g, t.ro)) % WordSpace
<1>1. /\ t.format = "registerOffset" /\ t.rd \in 0 .. 7 /\ t.rb \in 0 .. 7 /\ t.ro \in 0 .. 7
      /\ "byte" \in DOMAIN t
  BY DEF LowRegisters
<1>2. Twin(g, t) = SingleDataTransfer(g, w)
  BY <1>1 DEF Twin
<1>3. /\ w.rd = t.rd /\ w.rn = t.rb /\ w.rm = t.ro /\ w.shift = "lsl" /\ w.amount = 0
      /\ w.offset = 0 /\ w.immediate = FALSE /\ w.preindex = TRUE /\ w.up = TRUE
      /\ w.writeBack = FALSE /\ w.load = t.load /\ w.byte = t.byte /\ w.byRegister = FALSE
  BY <1>1 DEF Plain
<1> HIDE DEF w
<1>4. w.shift \in Barrel!ShiftTypes
  BY <1>3 DEF Barrel!ShiftTypes
<1>5. SingleDataTransfer(g, w) = Access(Ready(g, w), w, Offset(g, w))
  <2>1. /\ w.rd \in 0 .. 15 /\ w.rn \in 0 .. 15 /\ w.rm \in 0 .. 15 /\ w.amount \in Nat
        /\ w.offset \in Nat /\ w.rm # 15
    BY <1>1, <1>3
  <2> QED BY <1>3, <1>4, <2>1, SingleIsReadyThenAccess
<1>6. Reg(g, t.ro) \in Word
  <2>1. t.ro \in 0 .. 15
    BY <1>1
  <2> QED BY <2>1, RegIsWord
<1>7. Shifted(g, w) = [value |-> Reg(g, t.ro), carry |-> g.p.cpsr.c]
  BY <1>3, <1>6, NoShift DEF Shifted
<1>8. Ready(g, w) = g /\ Offset(g, w) = Reg(g, t.ro)
  BY <1>3, <1>7, SameCarry DEF Ready, Offset
<1>9. Twin(g, t) = Transfer(g, t.load, t.rd, a, IF t.byte THEN 1 ELSE 4)
  <2>1. w.rd \in 0 .. 14 /\ w.rn \in 0 .. 14 /\ Reg(g, t.ro) \in Int
    BY <1>1, <1>3, <1>6, WordIsNumber
  <2>2. Access(g, w, Reg(g, t.ro))
          = Transfer(g, w.load, w.rd, (Reg(g, w.rn) + Reg(g, t.ro)) % WordSpace,
                     IF w.byte THEN 1 ELSE 4)
    BY <1>3, <2>1, AccessIsTransfer
  <2> QED BY <1>2, <1>3, <1>5, <1>8, <2>2
<1>10. Emulate(g, t) = LoadStoreRegisterOffset(g, t)
  BY <1>1, Dispatch
<1> QED BY <1>9, <1>10 DEF LoadStoreRegisterOffset

\* A value of one, two or four bytes is a word.
LEMMA ReadIsWord ==
    ASSUME NEW D, NEW g, Fit(g, D), NEW a \in Word, Cell(a) \in D,
           NEW width \in Widths
    PROVE  ReadMemory(g, a, width) \in Word
<1> DEFINE x == ReadMemory(g, a, width)
           B == ByteSpace
           V == B * B
<1>1. x \in 0 .. (Values(width) - 1)
  BY ReadFits
<1>2. /\ B \in Nat \ {0} /\ WordSpace = V * V
      /\ Values(1) = B /\ Values(2) = V /\ Values(4) = WordSpace
  BY Bytes
<1> HIDE DEF x, B
<1>3. V \in Nat \ {0} /\ B <= V
  BY <1>2
<1> HIDE DEF V
<1>4. V <= V * V /\ V * V \in Nat
  BY <1>3
<1>5. Values(width) \in Nat /\ Values(width) <= WordSpace
  BY <1>2, <1>3, <1>4 DEF Widths
<1>6. WordSpace \in Nat
  BY WordsAreNumbers
<1> QED BY <1>1, <1>5, <1>6 DEF Word, x

\* The halfword transfers that go up from a base they do not write.
LEMMA HalfIsTransfer ==
    ASSUME NEW D, NEW g, Fit(g, D), NEW w, w.rd \in 0 .. 14, w.rn \in 0 .. 14,
           w.up, w.preindex, ~w.writeBack,
           NEW offset \in Int, offset = IF w.immediate THEN w.offset ELSE Reg(g, w.rm),
           NEW width, width = IF w.halfword \/ ~w.load THEN 2 ELSE 1,
           NEW a, a = (Reg(g, w.rn) + offset) % WordSpace,
           NEW read, read = ReadMemory(g, a, width)
    PROVE  HalfwordDataTransfer(g, w)
             = IF ~Mapped(g, a) THEN Stop(g)
               ELSE Complete(
                 IF w.load THEN Put(g, w.rd, IF w.signed THEN SignExtended(read, width) ELSE read)
                 ELSE WriteMemory(g, a, width, Reg(g, w.rd)))
<1> DEFINE base == (Reg(g, w.rn) + (IF w.rn = 15 THEN 4 ELSE 0)) % WordSpace
           x == Reg(g, w.rd) + (IF w.rd = 15 THEN 8 ELSE 0)
<1>1. base = Reg(g, w.rn)
  <2>1. Reg(g, w.rn) \in Word
    BY RegIsWord
  <2>2. Reg(g, w.rn) \in Int /\ Reg(g, w.rn) % WordSpace = Reg(g, w.rn)
    BY <2>1, Remainders, WordIsNumber
  <2>3. base = (Reg(g, w.rn) + 0) % WordSpace
    OBVIOUS
  <2> QED BY <2>2, <2>3
<1>2. x = Reg(g, w.rd)
  <2>1. Reg(g, w.rd) \in Nat
    BY RegIsWord
  <2> QED BY <2>1
<1>3. Displaced(base, w.up, offset) = a
  BY <1>1 DEF Displaced
<1>4. HalfwordDataTransfer(g, w)
        = IF ~Mapped(g, a) THEN Stop(g)
          ELSE Complete(
            IF w.load THEN Put(g, w.rd, IF w.signed THEN SignExtended(read, width) ELSE read)
            ELSE WriteMemory(g, a, width, x))
  BY <1>3 DEF HalfwordDataTransfer
<1> QED BY <1>2, <1>4

LEMMA HalfwordOffsetTwin ==
    ASSUME NEW D, NEW g, Fit(g, D),
           NEW t \in [format : {"halfwordOffset"}, load : BOOLEAN, rd : LowRegisters,
                      rb : LowRegisters, offset : Nat]
    PROVE  Twin(g, t) = Emulate(g, t)
<1> DEFINE w == PlainHalf(t.load, TRUE, FALSE, t.rd, t.rb, TRUE, 2 * t.offset, 0)
           offset == 2 * t.offset
           a == (Reg(g, t.rb) + offset) % WordSpace
<1>1. /\ t.format = "halfwordOffset" /\ t.rd \in 0 .. 14 /\ t.rb \in 0 .. 14
      /\ offset \in Int
  BY DEF LowRegisters
<1>2. Twin(g, t) = HalfwordDataTransfer(g, w)
  BY <1>1 DEF Twin
<1>3. /\ w.rd = t.rd /\ w.rn = t.rb /\ w.offset = offset /\ w.immediate = TRUE
      /\ w.preindex = TRUE /\ w.up = TRUE /\ w.writeBack = FALSE /\ w.load = t.load
      /\ w.halfword = TRUE /\ w.signed = FALSE
  BY DEF PlainHalf
<1> HIDE DEF w, offset
<1>4. HalfwordDataTransfer(g, w)
        = IF ~Mapped(g, a) THEN Stop(g)
          ELSE Complete(IF t.load THEN Put(g, t.rd, ReadMemory(g, a, 2))
                        ELSE WriteMemory(g, a, 2, Reg(g, t.rd)))
  BY <1>1, <1>3, HalfIsTransfer
<1>5. Emulate(g, t) = Transfer(g, t.load, t.rd, a, 2)
  BY <1>1, Dispatch DEF LoadStoreHalfword, offset
<1> QED BY <1>2, <1>4, <1>5 DEF Transfer

LEMMA SignExtendedTwin ==
    ASSUME NEW D, NEW g, Fit(g, D), Covers(D),
           NEW t \in [format : {"signExtended"}, signExtend : BOOLEAN, halfword : BOOLEAN,
                      rd : LowRegisters, rb : LowRegisters, ro : LowRegisters]
    PROVE  Twin(g, t) = Emulate(g, t)
<1> DEFINE w == PlainHalf(t.signExtend \/ t.halfword, t.halfword \/ ~t.signExtend,
                          t.signExtend, t.rd, t.rb, FALSE, 0, t.ro)
           load == t.signExtend \/ t.halfword
           width == IF t.signExtend /\ ~t.halfword THEN 1 ELSE 2
           a == (Reg(g, t.rb) + Reg(g, t.ro)) % WordSpace
           read == ReadMemory(g, a, width)
           h == Put(g, t.rd, read)
           plain == Transfer(g, load, t.rd, a, width)
<1>1. /\ t.format = "signExtended" /\ t.rd \in 0 .. 14 /\ t.rb \in 0 .. 14
      /\ t.ro \in 0 .. 15 /\ t.rd \in 0 .. 15 /\ t.rb \in 0 .. 15
      /\ t.signExtend \in BOOLEAN /\ t.halfword \in BOOLEAN
  BY DEF LowRegisters
<1>2. Twin(g, t) = HalfwordDataTransfer(g, w)
  BY <1>1 DEF Twin
<1>3. /\ w.rd = t.rd /\ w.rn = t.rb /\ w.rm = t.ro /\ w.immediate = FALSE
      /\ w.preindex = TRUE /\ w.up = TRUE /\ w.writeBack = FALSE /\ w.load = load
      /\ w.halfword = (t.halfword \/ ~t.signExtend) /\ w.signed = t.signExtend
  BY DEF PlainHalf
<1> HIDE DEF w
<1>4. width = IF w.halfword \/ ~w.load THEN 2 ELSE 1
  BY <1>1, <1>3
<1>5. Reg(g, t.ro) \in Int /\ a \in Word /\ width \in Widths
  <2>1. Reg(g, t.ro) \in Int /\ Reg(g, t.rb) \in Int
    BY <1>1, RegIsWord
  <2>2. Reg(g, t.rb) + Reg(g, t.ro) \in Int
    BY <2>1
  <2> QED BY <2>1, <2>2, Remainders DEF Widths
<1>6. Emulate(g, t) = IF plain.ok /\ t.signExtend
                        THEN Complete(Put(plain.m, t.rd, SignExtended(Reg(plain.m, t.rd), width)))
                        ELSE plain
  BY <1>1, Dispatch DEF LoadStoreSignExtendedHalfword
<1> HIDE DEF width, a
<1>7. HalfwordDataTransfer(g, w)
        = IF ~Mapped(g, a) THEN Stop(g)
          ELSE Complete(
            IF load THEN Put(g, t.rd, IF t.signExtend THEN SignExtended(read, width) ELSE read)
            ELSE WriteMemory(g, a, width, Reg(g, t.rd)))
  <2>1. a = (Reg(g, w.rn) + Reg(g, w.rm)) % WordSpace
    BY <1>3 DEF a
  <2>2. Reg(g, w.rm) \in Int /\ w.rd \in 0 .. 14 /\ w.rn \in 0 .. 14
    BY <1>1, <1>3, <1>5
  <2>3. HalfwordDataTransfer(g, w)
          = IF ~Mapped(g, a) THEN Stop(g)
            ELSE Complete(
              IF w.load THEN Put(g, w.rd, IF w.signed THEN SignExtended(read, width) ELSE read)
              ELSE WriteMemory(g, a, width, Reg(g, w.rd)))
    BY <1>3, <1>4, <2>1, <2>2, HalfIsTransfer
  <2> QED BY <1>3, <2>3
<1>8. plain = IF ~Mapped(g, a) THEN Stop(g) ELSE
              Complete(IF load THEN h ELSE WriteMemory(g, a, width, Reg(g, t.rd)))
  BY DEF Transfer
<1>9. CASE ~Mapped(g, a)
  <2>1. plain = Stop(g)
    BY <1>8, <1>9
  <2>2. ~plain.ok
    BY <2>1 DEF Stop
  <2> QED BY <1>2, <1>6, <1>7, <1>9, <2>1, <2>2
<1>10. CASE Mapped(g, a) /\ ~t.signExtend
  BY <1>2, <1>6, <1>7, <1>8, <1>10
<1>11. CASE Mapped(g, a) /\ t.signExtend
  <2>1. Cell(a) \in D
    BY <1>5, <1>11, AddressIsMapped
  <2>2. read \in Word
    BY <1>5, <2>1, ReadIsWord
  <2>3. plain = Complete(h)
    BY <1>8, <1>11
  <2>4. plain.ok /\ plain.m = h
    BY <2>3 DEF Complete
  <2>5. read \in Int /\ read % WordSpace = read
    BY <2>2, WordIsNumber, Remainders
  <2> HIDE DEF read
  <2>6. Reg(h, t.rd) = read
    BY <1>1, <2>5, PutTwice
  <2>7. SignExtended(read, width) \in Int
    BY <1>5, <2>5, SignExtensionIsNumber
  <2>8. Put(h, t.rd, SignExtended(read, width)) = Put(g, t.rd, SignExtended(read, width))
    <3> DEFINE y == SignExtended(read, width)
    <3>1. y \in Int
      BY <2>7
    <3> HIDE DEF y
    <3>2. Put(h, t.rd, y) = Put(g, t.rd, y)
      BY <1>1, <2>5, <3>1, PutTwice
    <3> QED BY <3>2 DEF y
  <2> HIDE DEF h, plain
  <2> QED BY <1>2, <1>6, <1>7, <1>11, <2>4, <2>6, <2>8
<1> QED BY <1>9, <1>10, <1>11

-----------------------------------------------------------------------------
\* THUMB blocks as ARM blocks

\* A register above those of a list comes last.
LEMMA AscendingWithGreatest ==
    ASSUME NEW S \in SUBSET (0 .. 15), NEW n \in 0 .. 15, \A k \in S : k < n
    PROVE  Ascending(S \union {n}) = Ascending(S) \o <<n>>
<1> DEFINE T == S \union {n}
           N == Cardinality(S)
           s == Ascending(S)
           v == Ascending(T)
<1>1. N \in Nat /\ Sorted(s, S) /\ IsFiniteSet(S)
  BY AscendingIsSorted, ListsAreFinite
<1>2. s \in [1 .. N -> S] /\ Len(s) = N /\ s \in Seq(S)
  BY <1>1, LenProperties, SeqDef DEF Sorted
<1>3. T \in SUBSET (0 .. 15) /\ n \notin S /\ n \in T /\ S \subseteq T
  OBVIOUS
<1>4. Cardinality(T) = N + 1
  BY <1>1, <1>3, FS_AddElement
<1>5. v \in [1 .. N + 1 -> T]
  BY <1>3, <1>4, AscendingIsSorted DEF Sorted
<1>6. ASSUME NEW i \in 1 .. N PROVE v[i] = s[i]
  <2> DEFINE m == s[i]
             j == Cardinality(Below(S, m)) + 1
  <2>1. m \in S
    BY <1>2
  <2> HIDE DEF m
  <2>2. j \in 1 .. N /\ s[j] = m
    BY <2>1, AscendingRanks
  <2>3. j = i
    <3> HIDE DEF j
    <3>1. \A x, y \in 1 .. N : x < y => s[x] < s[y]
      BY <1>1 DEF Sorted
    <3>2. s[i] = m /\ m \in 0 .. 15
      BY <2>1 DEF m
    <3>3. ~(j < i) /\ ~(i < j)
      <4> HIDE DEF s, N
      <4> QED BY <2>2, <3>1, <3>2
    <3> QED BY <1>1, <2>2, <3>3
  <2>4. Below(T, m) = Below(S, m)
    <3>1. ~(n < m)
      BY <2>1
    <3> QED BY <3>1 DEF Below
  <2>5. m \in T /\ i = Cardinality(Below(T, m)) + 1
    BY <2>1, <2>3, <2>4
  <2>6. v[i] = m
    <3> HIDE DEF T
    <3> QED BY <1>3, <2>5, AscendingRanks DEF v
  <2> QED BY <2>6 DEF m
<1>7. v[N + 1] = n
  <2>1. Below(T, n) = S
    <3>1. \A k \in T : k < n <=> k \in S
      BY <1>3
    <3> HIDE DEF T
    <3> QED BY <1>3, <3>1 DEF Below
  <2>2. N + 1 = Cardinality(Below(T, n)) + 1
    BY <2>1
  <2> DEFINE i == N + 1
  <2>3. i = Cardinality(Below(T, n)) + 1
    BY <2>2
  <2> HIDE DEF T, i
  <2>4. v[i] = n
    BY <1>3, <2>3, AscendingRanks DEF v
  <2> QED BY <2>4 DEF i
<1> HIDE DEF v, s, N, T
<1>8. <<n>> \in Seq({n}) /\ Len(<<n>>) = 1
  OBVIOUS
<1> DEFINE e == <<n>>
           z == [i \in 1 .. N + 1 |-> IF i <= N THEN s[i] ELSE n]
<1>9. s \o e = z
  BY <1>1, <1>2 DEF e
<1>10. \A i \in 1 .. N + 1 : v[i] = z[i]
  BY <1>1, <1>6, <1>7
<1>11. v = z
  BY <1>5, <1>10
<1> QED BY <1>9, <1>11 DEF v, s, T

LEMMA ExtraIsLast ==
    ASSUME NEW t, t.list \in SUBSET (0 .. 7), NEW n \in 8 .. 15
    PROVE  /\ WithExtra(t.list, t.extra, n)
                = Ascending(t.list \union (IF t.extra THEN {n} ELSE {}))
           /\ t.list \union (IF t.extra THEN {n} ELSE {}) \in SUBSET (0 .. 15)
<1> DEFINE list == t.list
           S == list \union (IF t.extra THEN {n} ELSE {})
<1>1. list \in SUBSET (0 .. 15) /\ n \in 0 .. 15 /\ \A k \in list : k < n
  OBVIOUS
<1> HIDE DEF list
<1>2. CASE t.extra
  <2>1. S = list \union {n}
    BY <1>2
  <2>2. WithExtra(list, t.extra, n) = Ascending(list) \o <<n>>
    BY <1>2 DEF WithExtra
  <2> QED BY <1>1, <2>1, <2>2, AscendingWithGreatest DEF list
<1>3. CASE ~t.extra
  <2>1. S = list
    BY <1>3
  <2>2. Ascending(list) \in Seq(list)
    BY <1>1, AscendingIsSorted, SeqDef DEF Sorted
  <2>3. Ascending(list) \o << >> = Ascending(list)
    BY <2>2, ConcatEmptySeq
  <2>4. WithExtra(list, t.extra, n) = Ascending(list) \o << >>
    BY <1>3 DEF WithExtra
  <2> QED BY <1>1, <2>1, <2>3, <2>4 DEF list
<1> QED BY <1>2, <1>3

LEMMA StoredByBlock ==
    ASSUME NEW g, NEW w, ~w.load
    PROVE  BlockTransfer(g, w) = Written(StoreWords(g, StoreMoves(g, w)), w.writeBack, w.rn,
                                         BlockEnd(Reg(g, w.rn), w))
BY DEF BlockTransfer, blockDataStore, StoreMoves, StoredRegister, Written

LEMMA PushTwin ==
    ASSUME NEW D, NEW g, Fit(g, D), NEW t, t.format = "pushPop", ~t.load, t.load \in BOOLEAN,
           t.list \in SUBSET (0 .. 7), t.extra \in BOOLEAN
    PROVE  Twin(g, t) = Emulate(g, t)
<1> DEFINE S == t.list \union (IF t.extra THEN {14} ELSE {})
           w == Block(FALSE, 13, S, FALSE, TRUE)
           N == Cardinality(S)
           order == Ascending(S)
<1>1. Twin(g, t) = BlockTransfer(g, w)
  <2>1. t.load = FALSE
    OBVIOUS
  <2>2. t.list \union (IF ~t.extra THEN {} ELSE IF t.load THEN {15} ELSE {14}) = S
    BY <2>1
  <2> HIDE DEF S
  <2> QED BY <2>1, <2>2 DEF Twin
<1>2. S = t.list \union (IF t.extra THEN {14} ELSE {})
  OBVIOUS
<1> HIDE DEF S
<1>3. /\ w.load = FALSE /\ w.rn = 13 /\ w.list = S /\ w.up = FALSE /\ w.preindex = TRUE
      /\ w.writeBack = TRUE /\ w.forceUser = FALSE
  BY DEF Block
<1> HIDE DEF w
<1>4. WithExtra(t.list, t.extra, 14) = order /\ S \in SUBSET (0 .. 15)
  <2> DEFINE lr == 14
  <2>1. lr \in 8 .. 15 /\ S = t.list \union (IF t.extra THEN {lr} ELSE {})
    BY <1>2
  <2> HIDE DEF lr
  <2>2. /\ WithExtra(t.list, t.extra, lr)
             = Ascending(t.list \union (IF t.extra THEN {lr} ELSE {}))
        /\ t.list \union (IF t.extra THEN {lr} ELSE {}) \in SUBSET (0 .. 15)
    BY <2>1, ExtraIsLast
  <2>3. WithExtra(t.list, t.extra, lr) = Ascending(S) /\ S \in SUBSET (0 .. 15)
    BY <2>1, <2>2
  <2> QED BY <2>3 DEF lr
<1>5. PushOrder(t) = Order(S, FALSE)
  BY <1>4 DEF PushOrder, Order
<1>6. N \in Nat /\ DOMAIN Order(S, FALSE) = 1 .. N /\ Len(PushOrder(t)) = N
  <2>1. N \in Nat /\ Order(S, FALSE) \in [1 .. N -> S]
    BY <1>4, OrderIsList
  <2> DEFINE x == Order(S, FALSE)
  <2>2. x \in [1 .. N -> S] /\ N \in Nat
    BY <2>1
  <2> HIDE DEF x, N
  <2>3. Len(x) = N
    BY <2>2, SeqDef, LenProperties
  <2> QED BY <1>5, <2>2, <2>3 DEF x
<1>7. StoreMoves(g, w) = PushMoves(g, t)
  <2>1. \A i : BlockAddress(Reg(g, 13), w, i) = Displaced(Reg(g, 13), FALSE, 4 * i)
    BY <1>3 DEF BlockAddress
  <2>2. \A n : StoredRegister(g, w, n) = Reg(g, n)
    BY <1>3 DEF StoredRegister
  <2> QED BY <1>3, <1>5, <2>1, <2>2 DEF StoreMoves, PushMoves
<1>8. BlockEnd(Reg(g, 13), w) = PushEnd(g, t)
  BY <1>3, <1>6 DEF BlockEnd, PushEnd
<1>9. Emulate(g, t) = Written(StoreWords(g, PushMoves(g, t)), TRUE, 13, PushEnd(g, t))
  <2>1. Emulate(g, t) = pushRegisters(g, t)
    BY Dispatch DEF PushPopRegisters
  <2> QED BY <2>1, PushParts
<1>10. BlockTransfer(g, w) = Written(StoreWords(g, StoreMoves(g, w)), w.writeBack, w.rn,
                                     BlockEnd(Reg(g, w.rn), w))
  BY <1>3, StoredByBlock
<1> QED BY <1>1, <1>3, <1>7, <1>8, <1>9, <1>10

\* What is reached depends on where the moves go.
LEMMA ReachedByAddress ==
    ASSUME NEW g, NEW n \in Nat, NEW x, NEW y, DOMAIN x = 1 .. n, DOMAIN y = 1 .. n,
           \A i \in 1 .. n : x[i].address = y[i].address
    PROVE  Reached(g, x) = Reached(g, y)
<1>1. \A i \in 1 .. n : \A j \in 1 .. i : j \in 1 .. n
  OBVIOUS
<1> QED BY <1>1 DEF Reached

\* A block that is loaded upwards into the current bank, in one go.
UpMoves(g, rn, list) ==
    [i \in DOMAIN Ascending(list) |->
        [address |-> (Reg(g, rn) + 4 * (i - 1)) % WordSpace, register |-> Ascending(list)[i]]]

LEMMA OrderUp ==
    ASSUME NEW w, w.list \in SUBSET (0 .. 15), w.up
    PROVE  /\ Cardinality(w.list) \in Nat /\ Ascending(w.list) = Order(w.list, w.up)
           /\ Ascending(w.list) \in [1 .. Cardinality(w.list) -> w.list]
           /\ \A i, j \in 1 .. Cardinality(w.list) :
                 i # j => Ascending(w.list)[i] # Ascending(w.list)[j]
<1> DEFINE N == Cardinality(w.list)
           order == Ascending(w.list)
<1>1. order = Order(w.list, w.up)
  BY DEF Order
<1>2. /\ N \in Nat /\ Order(w.list, w.up) \in [1 .. N -> w.list]
      /\ \A i, j \in 1 .. N : i # j => Order(w.list, w.up)[i] # Order(w.list, w.up)[j]
  BY OrderIsList
<1> HIDE DEF order, N
<1> QED BY <1>1, <1>2 DEF order, N

LEMMA UpMovesAre ==
    ASSUME NEW D, NEW g, Fit(g, D), NEW w, w.rn \in 0 .. 15, w.list \in SUBSET (0 .. 15),
           w.up, ~w.preindex
    PROVE  /\ DOMAIN UpMoves(g, w.rn, w.list) = 1 .. Cardinality(w.list)
           /\ \A i \in 1 .. Cardinality(w.list) :
                 /\ UpMoves(g, w.rn, w.list)[i].register = Ascending(w.list)[i]
                 /\ UpMoves(g, w.rn, w.list)[i].address
                      = BlockMoves(Reg(g, w.rn), w)[i].address
                 /\ UpMoves(g, w.rn, w.list)[i].address \in Word
           /\ Reached(g, UpMoves(g, w.rn, w.list)) = Reached(g, BlockMoves(Reg(g, w.rn), w))
           /\ Reached(g, UpMoves(g, w.rn, w.list)) \subseteq 1 .. Cardinality(w.list)
<1> DEFINE base == Reg(g, w.rn)
           b == BlockMoves(base, w)
           N == Cardinality(w.list)
           order == Ascending(w.list)
           moves == UpMoves(g, w.rn, w.list)
<1>1. order = Order(w.list, w.up)
  BY OrderUp
<1>2. N \in Nat /\ order \in [1 .. N -> w.list]
  BY OrderUp
<1>3. base \in Int
  BY RegIsWord
<1> HIDE DEF base
<1>4. DOMAIN b = 1 .. N /\ \A i \in 1 .. N : b[i].address \in Word
  BY <1>3, BlockMovesAreTyped
<1>5. ASSUME NEW i \in 1 .. N
      PROVE  b[i].address = (base + 4 * (i - 1)) % WordSpace
  <2>1. b[i].address = BlockAddress(base, w, i)
    BY <1>1, <1>2 DEF BlockMoves
  <2> QED BY <2>1 DEF BlockAddress, Displaced
<1>6. /\ DOMAIN moves = 1 .. N
      /\ \A i \in 1 .. N : /\ moves[i].register = order[i]
                           /\ moves[i].address = (base + 4 * (i - 1)) % WordSpace
  BY <1>2 DEF UpMoves, base
<1> HIDE DEF b, N, order, moves
<1>7. \A i \in 1 .. N : moves[i].address = b[i].address
  BY <1>5, <1>6
<1>8. Reached(g, moves) = Reached(g, b) /\ Reached(g, moves) \subseteq 1 .. N
  <2>1. Reached(g, moves) = Reached(g, b)
    BY <1>2, <1>4, <1>6, <1>7, ReachedByAddress
  <2> QED BY <1>6, <2>1 DEF Reached
<1>9. \A i \in 1 .. N : moves[i].address \in Word
  BY <1>4, <1>7
<1> QED BY <1>1, <1>2, <1>6, <1>7, <1>8, <1>9 DEF b, base, N, order, moves

LEMMA BlockRegsAreLoaded ==
    ASSUME NEW D, NEW g, Fit(g, D), Covers(D), NEW w, w.rn \in 0 .. 15,
           w.list \in SUBSET (0 .. 15), w.up, ~w.preindex, ~w.forceUser
    PROVE  BlockRegs(g.p, blockDataLoad(g, w)) = LoadedRegs(g, UpMoves(g, w.rn, w.list))
<1> DEFINE b == blockDataLoad(g, w)
           moves == UpMoves(g, w.rn, w.list)
           order == Ascending(w.list)
           N == Cardinality(w.list)
           mode == g.p.cpsr.mode
           R == Reached(g, moves)
           base == Reg(g, w.rn)
<1>0. /\ moves = UpMoves(g, w.rn, w.list) /\ order = Ascending(w.list)
      /\ N = Cardinality(w.list)
  OBVIOUS
<1> HIDE DEF moves, order, N
<1>1. /\ N \in Nat /\ order = Order(w.list, w.up) /\ order \in [1 .. N -> w.list]
      /\ \A i, j \in 1 .. N : i # j => order[i] # order[j]
      /\ DOMAIN moves = 1 .. N
      /\ \A i \in 1 .. N : /\ moves[i].register = order[i]
                           /\ moves[i].address = BlockMoves(base, w)[i].address
      /\ R = Reached(g, BlockMoves(base, w)) /\ R \subseteq 1 .. N
  <2> HIDE DEF b, mode
  <2>1. /\ N \in Nat /\ order = Order(w.list, w.up) /\ order \in [1 .. N -> w.list]
        /\ \A i, j \in 1 .. N : i # j => order[i] # order[j]
    BY OrderUp DEF order, N
  <2>2. /\ DOMAIN moves = 1 .. N
        /\ R = Reached(g, BlockMoves(base, w)) /\ R \subseteq 1 .. N
    BY UpMovesAre DEF moves, N
  <2>3. ASSUME NEW i \in 1 .. N
        PROVE  /\ moves[i].register = order[i]
               /\ moves[i].address = BlockMoves(base, w)[i].address
    BY UpMovesAre DEF moves, order, N
  <2> QED BY <2>1, <2>2, <2>3
<1>2. /\ ~b.forceUser /\ b.loaded = ReadRegisters(g, w)
      /\ \A n \in b.loaded : b.word[n] = WordFor(g, w, n)
  BY blockDataLoadIs
<1>3. LoadBank(g.p, b) = mode
  BY <1>2 DEF LoadBank
<1>4. b.loaded = {order[i] : i \in R}
  BY <1>1, <1>2 DEF ReadRegisters
<1>5. ASSUME NEW i \in R PROVE b.word[order[i]] = ReadMemory(g, moves[i].address, 4)
  <2>1. i \in 1 .. N /\ order[i] \in b.loaded
    BY <1>1, <1>4
  <2>2. Place(w, order[i]) = i
    BY <1>1, <2>1, PlaceOfRegister
  <2>3. b.word[order[i]] = ReadMemory(g, BlockMoves(base, w)[i].address, 4)
    BY <1>2, <2>1, <2>2 DEF WordFor
  <2> QED BY <1>1, <2>1, <2>3
<1>6. \A i \in 1 .. N : order[i] \in 0 .. 15
  BY <1>1
<1>7. ASSUME NEW s \in Slots
      PROVE  Into(g, moves, s) = {i \in R : RegisterSlot(mode, order[i]) = s}
  BY <1>1 DEF Into
<1>8. LoadSlots(g.p, b) = {RegisterSlot(mode, order[i]) : i \in R}
  BY <1>3, <1>4 DEF LoadSlots
<1> HIDE DEF b, mode, R, base
<1>9. ASSUME NEW s \in Slots
      PROVE  BlockRegs(g.p, b)[s] = LoadedRegs(g, moves)[s]
  <2>1. CASE Into(g, moves, s) = {}
    <3>1. s \notin LoadSlots(g.p, b)
      BY <1>7, <1>8, <2>1
    <3> QED BY <2>1, <3>1 DEF BlockRegs, LoadedRegs
  <2>2. CASE Into(g, moves, s) # {}
    <3> DEFINE i == Min(Into(g, moves, s))
    <3>1. i \in Into(g, moves, s)
      <4> DEFINE X == Into(g, moves, s)
      <4>1. X \subseteq R
        BY <1>7
      <4> HIDE DEF X
      <4>2. X \subseteq Nat /\ X # {}
        BY <1>1, <2>2, <4>1 DEF X
      <4>3. Min(X) \in X
        BY <4>2, MinIsElement
      <4> QED BY <4>3 DEF X
    <3> HIDE DEF i
    <3>2. i \in R /\ RegisterSlot(mode, order[i]) = s /\ i \in 1 .. N
      BY <1>1, <1>7, <3>1
    <3>3. s \in LoadSlots(g.p, b) /\ order[i] \in b.loaded
      BY <1>4, <1>8, <3>2
    <3>4. \A n \in b.loaded : RegisterSlot(mode, n) = s => n = order[i]
      <4>1. ASSUME NEW n \in b.loaded, RegisterSlot(mode, n) = s PROVE n = order[i]
        <5>0. PICK j \in R : n = order[j]
          BY <1>4, <4>1
        <5>1. n \in 0 .. 15 /\ order[i] \in 0 .. 15
          BY <1>1, <1>6, <3>2, <5>0
        <5> QED BY <3>2, <4>1, <5>1, SlotsDifferAnywhere
      <4> QED BY <4>1
    <3>5. (CHOOSE n \in b.loaded : RegisterSlot(LoadBank(g.p, b), n) = s) = order[i]
      BY <1>3, <3>2, <3>3, <3>4
    <3>6. LoadedWord(g.p, b, s) = ReadMemory(g, moves[i].address, 4)
      BY <1>5, <3>2, <3>5 DEF LoadedWord
    <3> QED BY <2>2, <3>3, <3>6 DEF BlockRegs, LoadedRegs, i
  <2> QED BY <2>1, <2>2
<1>10. BlockRegs(g.p, b) = LoadedRegs(g, moves)
  BY <1>9 DEF BlockRegs, LoadedRegs
<1> QED BY <1>10 DEF b, moves

LEMMA AllIsReached ==
    ASSUME NEW D, NEW g, Fit(g, D), NEW w, w.rn \in 0 .. 15,
           w.list \in SUBSET (0 .. 15), w.up, ~w.preindex, ~w.forceUser,
           NEW moves, moves = UpMoves(g, w.rn, w.list)
    PROVE  (blockDataLoad(g, w).loaded = w.list) <=> (Reached(g, moves) = DOMAIN moves)
<1> DEFINE order == Ascending(w.list)
           N == Cardinality(w.list)
           R == Reached(g, moves)
           loaded == blockDataLoad(g, w).loaded
<1>0. order = Ascending(w.list) /\ N = Cardinality(w.list)
  OBVIOUS
<1> HIDE DEF order, N
<1>1. /\ N \in Nat /\ order = Order(w.list, w.up) /\ order \in [1 .. N -> w.list]
      /\ \A i, j \in 1 .. N : i # j => order[i] # order[j]
      /\ DOMAIN moves = 1 .. N
      /\ R = Reached(g, BlockMoves(Reg(g, w.rn), w)) /\ R \subseteq 1 .. N
  <2>1. /\ N \in Nat /\ order = Order(w.list, w.up) /\ order \in [1 .. N -> w.list]
        /\ \A i, j \in 1 .. N : i # j => order[i] # order[j]
    BY OrderUp DEF order, N
  <2>2. /\ DOMAIN moves = 1 .. N
        /\ R = Reached(g, BlockMoves(Reg(g, w.rn), w)) /\ R \subseteq 1 .. N
    BY UpMovesAre DEF N
  <2> QED BY <2>1, <2>2
<1>2. loaded = {order[i] : i \in R}
  BY <1>1, blockDataLoadIs DEF ReadRegisters
<1>3. \A n \in w.list : \E i \in 1 .. N : order[i] = n
  <2>1. ASSUME NEW n \in w.list PROVE \E i \in 1 .. N : order[i] = n
    <3>1. PlaceFor(w, n) \in 1 .. N /\ order[PlaceFor(w, n)] = n
      BY <1>0, <1>1, OrderRanks
    <3> QED BY <3>1
  <2> QED BY <2>1
<1> HIDE DEF R, loaded
<1>4. ASSUME loaded = w.list PROVE R = 1 .. N
  <2>1. ASSUME NEW i \in 1 .. N PROVE i \in R
    <3>1. order[i] \in loaded
      BY <1>1, <1>4
    <3>2. PICK k \in R : order[k] = order[i]
      BY <1>2, <3>1
    <3> QED BY <1>1, <3>2
  <2> QED BY <1>1, <2>1
<1>5. ASSUME R = 1 .. N PROVE loaded = w.list
  <2>1. \A n \in loaded : n \in w.list
    BY <1>1, <1>2
  <2>2. \A n \in w.list : n \in loaded
    BY <1>2, <1>3, <1>5
  <2> QED BY <2>1, <2>2
<1> QED BY <1>1, <1>4, <1>5 DEF R, loaded

LEMMA LoadedByBlock ==
    ASSUME NEW D, NEW g, Fit(g, D), Covers(D), NEW w, w.rn \in 0 .. 15,
           w.list \in SUBSET (0 .. 15), w.load, w.up, ~w.preindex, ~w.forceUser,
           w.writeBack => w.rn \notin w.list
    PROVE  BlockTransfer(g, w)
             = Written(LoadWords(g, UpMoves(g, w.rn, w.list)), w.writeBack, w.rn,
                       BlockEnd(Reg(g, w.rn), w))
<1> DEFINE b == blockDataLoad(g, w)
           moves == UpMoves(g, w.rn, w.list)
           low == BlockDataLoad(g.p, b)
           x == LoadWords(g, moves)
           e == BlockEnd(Reg(g, w.rn), w)
           all == Reached(g, moves) = DOMAIN moves
           h == [g EXCEPT !.p = low]
           y == BlockTail(low, b)
<1>1. /\ b.rn = w.rn /\ b.list = w.list /\ ~b.forceUser /\ b.writeBack = w.writeBack
      /\ b.end = e
  BY blockDataLoadIs
<1>2. (b.loaded = b.list) <=> all
  BY <1>1, AllIsReached
<1>3. low = [g.p EXCEPT !.regs = LoadedRegs(g, moves)]
  BY BlockParts, BlockRegsAreLoaded
<1>4. x = [m |-> h, ok |-> all]
  <2>1. x = [m |-> [g EXCEPT !.p = [g.p EXCEPT !.regs = LoadedRegs(g, moves)]], ok |-> all]
    BY LoadWordsLoads
  <2> HIDE DEF low, x, moves
  <2> QED BY <1>3, <2>1
<1>5. BlockTransfer(g, w) = [m |-> [g EXCEPT !.p = y.p], ok |-> y.ok]
  BY BlockParts DEF BlockTransfer
<1>6. Good(low) /\ low.cpsr = g.p.cpsr
  <2>1. Loads(b) /\ Good(g.p)
    BY BlockLoads DEF Fit
  <2> HIDE DEF b
  <2> QED BY <2>1, BlockDataLoadKeeps
<1>7. e \in Word
  <2>1. Reg(g, w.rn) \in Int
    BY RegIsWord
  <2> QED BY <2>1, BlockEndIsNumber
<1>20. SUFFICES BlockTransfer(g, w) = Written(x, w.writeBack, w.rn, e)
  OBVIOUS
<1> HIDE DEF b, low, x, e, moves, all
<1>8. Fit(h, D) /\ h.p = low
  BY <1>6, OtherProcessor
<1>9. x.m = h /\ x.ok = all
  BY <1>4
<1>10. CASE ~all
  <2>1. y = Fail(low)
    BY <1>2, <1>10 DEF BlockTail
  <2>2. BlockTransfer(g, w) = [m |-> h, ok |-> FALSE]
    BY <1>5, <2>1 DEF Fail
  <2>3. x = [m |-> h, ok |-> FALSE]
    BY <1>4, <1>10 DEF all
  <2>4. Written(x, w.writeBack, w.rn, e) = x
    BY <1>9, <1>10 DEF Written
  <2> QED BY <2>2, <2>3, <2>4
<1>11. CASE all /\ ~w.writeBack
  <2>1. y = Done(low)
    BY <1>1, <1>2, <1>11 DEF BlockTail
  <2>2. BlockTransfer(g, w) = [m |-> h, ok |-> TRUE]
    BY <1>5, <2>1 DEF Done
  <2>3. x = [m |-> h, ok |-> TRUE]
    BY <1>4, <1>11 DEF all
  <2>4. Written(x, w.writeBack, w.rn, e) = x
    BY <1>11 DEF Written
  <2> QED BY <2>2, <2>3, <2>4
<1>12. CASE all /\ w.writeBack
  <2> DEFINE q == SetRegister(low, w.rn, e).p
  <2>1. y = Done(q)
    BY <1>1, <1>2, <1>12 DEF BlockTail
  <2> HIDE DEF h
  <2>2. BlockTransfer(g, w) = [m |-> [g EXCEPT !.p = q], ok |-> TRUE]
    BY <1>5, <2>1 DEF Done
  <2>3. Put(h, w.rn, e) = [h EXCEPT !.p = SetRegister(low, w.rn, e % WordSpace).p]
    BY <1>8 DEF Put, Fit
  <2>4. e % WordSpace = e
    BY <1>7, WordIsNumber, Remainders
  <2>5. Put(h, w.rn, e) = [h EXCEPT !.p = q]
    BY <2>3, <2>4
  <2> HIDE DEF q
  <2>6. [h EXCEPT !.p = q] = [g EXCEPT !.p = q]
    BY DEF h, Fit
  <2>7. Written(x, w.writeBack, w.rn, e) = Complete(Put(h, w.rn, e))
    BY <1>9, <1>12 DEF Written
  <2>8. Complete(Put(h, w.rn, e)) = [m |-> [g EXCEPT !.p = q], ok |-> TRUE]
    BY <2>5, <2>6 DEF Complete
  <2> QED BY <2>2, <2>7, <2>8
<1> QED BY <1>10, <1>11, <1>12

LEMMA PopTwin ==
    ASSUME NEW D, NEW g, Fit(g, D), Covers(D), NEW t, t.format = "pushPop", t.load = TRUE,
           t.list \in SUBSET (0 .. 7)
    PROVE  Twin(g, t) = Emulate(g, t)
<1> DEFINE pc == 15
           sp == 13
           S == t.list \union (IF t.extra THEN {pc} ELSE {})
           w == Block(TRUE, sp, S, TRUE, FALSE)
<1>1. Twin(g, t) = BlockTransfer(g, w)
  <2>2. t.list \union (IF ~t.extra THEN {} ELSE IF t.load THEN {15} ELSE {14}) = S
    OBVIOUS
  <2> HIDE DEF S
  <2> QED BY <2>2 DEF Twin
<1>2. pc \in 8 .. 15 /\ sp \in 0 .. 15
  OBVIOUS
<1>3. /\ w.load = TRUE /\ w.rn = sp /\ w.list = S /\ w.up = TRUE /\ w.preindex = FALSE
      /\ w.writeBack = FALSE /\ w.forceUser = FALSE
  BY DEF Block
<1>4. Emulate(g, t) = LoadWords(g, UpMoves(g, sp, S))
  <2>1. Emulate(g, t) = popRegisters(g, t)
    BY Dispatch DEF PushPopRegisters
  <2>2. WithExtra(t.list, t.extra, 15) = Ascending(S)
    <3> HIDE DEF pc
    <3>1. WithExtra(t.list, t.extra, pc) = Ascending(S)
      BY <1>2, ExtraIsLast
    <3> QED BY <3>1 DEF pc
  <2> HIDE DEF S
  <2>3. popRegisters(g, t)
          = LET order == WithExtra(t.list, t.extra, 15)
            IN  LoadWords(g, [i \in DOMAIN order |->
                  [address  |-> (Reg(g, 13) + 4 * (i - 1)) % WordSpace,
                   register |-> order[i]]])
    BY Zenon DEF popRegisters, WithExtra
  <2> QED BY <2>1, <2>2, <2>3 DEF UpMoves
<1>5. S \in SUBSET (0 .. 15)
  OBVIOUS
<1> HIDE DEF S, w, sp, pc
<1>6. BlockTransfer(g, w)
        = Written(LoadWords(g, UpMoves(g, w.rn, w.list)), w.writeBack, w.rn,
                  BlockEnd(Reg(g, w.rn), w))
  BY <1>2, <1>3, <1>5, LoadedByBlock
<1> QED BY <1>1, <1>3, <1>4, <1>6 DEF Written

LEMMA MultipleTwin ==
    ASSUME NEW D, NEW g, Fit(g, D), Covers(D), NEW t, t.format = "multiple",
           t.load \in BOOLEAN, t.rb \in 0 .. 15, t.list \in SUBSET (0 .. 15), Restartable(t)
    PROVE  Twin(g, t) = Emulate(g, t)
<1> DEFINE w == Block(t.load, t.rb, t.list, TRUE, TRUE)
           N == Cardinality(t.list)
           order == Ascending(t.list)
<1>1. Twin(g, t) = BlockTransfer(g, w)
  BY DEF Twin
<1>2. /\ w.load = t.load /\ w.rn = t.rb /\ w.list = t.list /\ w.up = TRUE
      /\ w.preindex = FALSE /\ w.writeBack = TRUE /\ w.forceUser = FALSE
  BY DEF Block
<1> HIDE DEF w
<1>3. N \in Nat /\ order = Order(w.list, w.up) /\ order \in [1 .. N -> t.list]
  BY <1>2, OrderUp
<1>4. Len(order) = N
  <2> HIDE DEF order, N
  <2> QED BY <1>3, SeqDef, LenProperties
<1>5. MultipleEnd(g, t) = BlockEnd(Reg(g, t.rb), w)
  <2>1. MultipleEnd(g, t) = (Reg(g, t.rb) + 4 * ((N + 1) - 1)) % WordSpace
    BY <1>4 DEF MultipleEnd
  <2>2. (N + 1) - 1 = N
    BY <1>3
  <2> QED BY <1>2, <2>1, <2>2 DEF BlockEnd, Displaced
<1>6. CASE t.load
  <2>1. t.rb \notin t.list
    BY <1>6 DEF Restartable
  <2>2. BlockTransfer(g, w)
          = Written(LoadWords(g, UpMoves(g, w.rn, w.list)), w.writeBack, w.rn,
                    BlockEnd(Reg(g, w.rn), w))
    BY <1>2, <1>6, <2>1, LoadedByBlock
  <2>3. UpMoves(g, t.rb, t.list) = MultipleMoves(g, t)
    BY <1>6 DEF UpMoves, MultipleMoves
  <2>4. Emulate(g, t) = Written(LoadWords(g, MultipleMoves(g, t)), TRUE, t.rb, MultipleEnd(g, t))
    BY <1>6, MultipleParts
  <2> QED BY <1>1, <1>2, <1>5, <2>2, <2>3, <2>4
<1>7. CASE ~t.load
  <2>1. BlockTransfer(g, w) = Written(StoreWords(g, StoreMoves(g, w)), w.writeBack, w.rn,
                                      BlockEnd(Reg(g, w.rn), w))
    BY <1>2, <1>7, StoredByBlock
  <2>2. StoreMoves(g, w) = MultipleMoves(g, t)
    <3>1. \A i : BlockAddress(Reg(g, t.rb), w, i) = (Reg(g, t.rb) + 4 * (i - 1)) % WordSpace
      BY <1>2 DEF BlockAddress, Displaced
    <3>2. \A n : StoredRegister(g, w, n) = Reg(g, n)
      BY <1>2 DEF StoredRegister
    <3> QED BY <1>2, <1>3, <1>7, <3>1, <3>2 DEF StoreMoves, MultipleMoves
  <2>4. Emulate(g, t) = Written(StoreWords(g, MultipleMoves(g, t)), TRUE, t.rb, MultipleEnd(g, t))
    BY <1>7, MultipleParts
  <2> QED BY <1>1, <1>2, <1>5, <2>1, <2>2, <2>4
<1> QED BY <1>6, <1>7

\* Every format that has a twin.
MatchesTwin(g, t) ==
    /\ Twin(g, t).ok = Emulate(g, t).ok
    /\ Twin(g, t).ok \/ t.format # "pcRelative" => Twin(g, t).m = Emulate(g, t).m

LEMMA TwinsMatch ==
    ASSUME NEW D, NEW g, Fit(g, D), Covers(D), NEW t \in THUMBFormats,
           t.format \in Twinned, Restartable(t)
    PROVE  MatchesTwin(g, t)
<1>1. CASE t.format = "pcRelative"
  <2>1. t \in [format : {"pcRelative"}, rd : LowRegisters, offset : Nat]
    BY <1>1 DEF THUMBFormats
  <2> QED BY <2>1, PcRelativeTwin, <1>1 DEF MatchesTwin
<1>2. CASE t.format # "pcRelative"
  <2>1. CASE t.format = "registerOffset"
    <3>1. t \in [format : {"registerOffset"}, load : BOOLEAN, byte : BOOLEAN,
                 rd : LowRegisters, rb : LowRegisters, ro : LowRegisters]
      BY <2>1 DEF THUMBFormats
    <3> QED BY <3>1, RegisterOffsetTwin DEF MatchesTwin
  <2>2. CASE t.format = "immediateOffset"
    <3>1. t \in [format : {"immediateOffset"}, load : BOOLEAN, byte : BOOLEAN,
                 rd : LowRegisters, rb : LowRegisters, offset : Nat]
      BY <2>2 DEF THUMBFormats
    <3> QED BY <3>1, ImmediateOffsetTwin DEF MatchesTwin
  <2>3. CASE t.format = "spRelative"
    <3>1. t \in [format : {"spRelative"}, load : BOOLEAN, rd : LowRegisters, offset : Nat]
      BY <2>3 DEF THUMBFormats
    <3> QED BY <3>1, SPRelativeTwin DEF MatchesTwin
  <2>4. CASE t.format = "signExtended"
    <3>1. t \in [format : {"signExtended"}, signExtend : BOOLEAN, halfword : BOOLEAN,
                 rd : LowRegisters, rb : LowRegisters, ro : LowRegisters]
      BY <2>4 DEF THUMBFormats
    <3> QED BY <3>1, SignExtendedTwin DEF MatchesTwin
  <2>5. CASE t.format = "halfwordOffset"
    <3>1. t \in [format : {"halfwordOffset"}, load : BOOLEAN, rd : LowRegisters,
                 rb : LowRegisters, offset : Nat]
      BY <2>5 DEF THUMBFormats
    <3> QED BY <3>1, HalfwordOffsetTwin DEF MatchesTwin
  <2>6. CASE t.format = "pushPop"
    <3>1. t \in [format : {"pushPop"}, load : BOOLEAN, list : SUBSET LowRegisters,
                 extra : BOOLEAN]
      BY <2>6 DEF THUMBFormats
    <3>2. t.load \in BOOLEAN /\ t.list \in SUBSET (0 .. 7) /\ t.extra \in BOOLEAN
      BY <3>1 DEF LowRegisters
    <3>3. Twin(g, t) = Emulate(g, t)
      BY <2>6, <3>2, PushTwin, PopTwin
    <3> QED BY <3>3 DEF MatchesTwin
  <2>7. CASE t.format = "multiple"
    <3>1. t \in [format : {"multiple"}, load : BOOLEAN, rb : LowRegisters,
                 list : SUBSET LowRegisters]
      BY <2>7 DEF THUMBFormats
    <3>2. t.load \in BOOLEAN /\ t.rb \in 0 .. 15 /\ t.list \in SUBSET (0 .. 15)
      BY <3>1 DEF LowRegisters
    <3>3. Twin(g, t) = Emulate(g, t)
      BY <2>7, <3>2, MultipleTwin
    <3> QED BY <3>3 DEF MatchesTwin
  <2> QED BY <1>2, <2>1, <2>2, <2>3, <2>4, <2>5, <2>6, <2>7 DEF Twinned
<1> QED BY <1>1, <1>2

\* The twin does what the step did after the fetch.
TwinRan ==
    LET t    == last'.instruction
        twin == Twin([machine EXCEPT !.p = Fetched(p)], t)
    IN  /\ pending = Nil /\ last' # Nil
        /\ Mapped(machine, PC(p)) /\ t.format \in Twinned /\ Restartable(t)
        => /\ twin.ok = last'.ok
           /\ twin.ok \/ t.format # "pcRelative" => twin.m = machine'

LEMMA StepsMatchTwins ==
    ASSUME Inv, Next
    PROVE  TwinRan
<1>1. CASE RunARM
  <2>1. PICK t \in ARMInstructions : Runs(t)
    BY <1>1 DEF RunARM
  <2>2. t.format \notin Twinned
    BY <2>1, GuestAssumption DEF ARMFormats, Twinned
  <2>3. last'.instruction = t
    BY <2>1 DEF Runs
  <2> QED BY <2>2, <2>3 DEF TwinRan
<1>2. CASE RunTHUMB
  <2>1. PICK t \in THUMBInstructions : Runs(t)
    BY <1>2 DEF RunTHUMB
  <2> DEFINE r == RunNextInstruction(machine, t)
             k == AfterFetch(machine)
  <2>2. t \in THUMBFormats
    BY <2>1, GuestAssumption
  <2>3. Becomes(r.m) /\ last' = [instruction |-> t, ok |-> r.ok]
    BY <2>1 DEF Runs
  <2>4. PICK c \in Memories : Fit(machine, DOMAIN c) /\ Covers(DOMAIN c)
    BY MachineFits
  <2>5. ~Skipped(machine, t)
    BY <2>2 DEF THUMBFormats, Skipped
  <2>6. k = [machine EXCEPT !.p = Fetched(p)]
    BY MachineParts DEF AfterFetch
  <2>7. Fit(k, DOMAIN c)
    BY <2>4, FetchFits
  <2> DEFINE D == DOMAIN c
  <2> HIDE DEF k, D
  <2>8. ASSUME Mapped(machine, PC(p)), t.format \in Twinned, Restartable(t)
        PROVE  /\ Twin(k, t).ok = r.ok
               /\ Twin(k, t).ok \/ t.format # "pcRelative" => Twin(k, t).m = machine'
    <3>1. r = Emulate(k, t)
      BY <2>5, <2>8, RunParts, MachineParts DEF k
    <3>2. Fit(k, D) /\ Covers(D) /\ Fit(machine, D)
      BY <2>4, <2>7 DEF D
    <3>3. MatchesTwin(k, t)
      BY <2>2, <2>8, <3>2, TwinsMatch
    <3>4. machine' = r.m
      <4>1. Follows(D, k, r, Emulate(Full(k), t))
        BY <2>2, <3>1, <3>2, EmulateIsRetriable DEF Retriable
      <4>2. Fit(r.m, D)
        BY <4>1 DEF Follows
      <4> HIDE DEF r
      <4> QED BY <2>3, <4>2, SoundMachine DEF D
    <3> QED BY <3>1, <3>3, <3>4 DEF MatchesTwin
  <2> HIDE DEF r
  <2>9. last'.instruction = t /\ last'.ok = r.ok
    BY <2>3
  <2> QED BY <2>6, <2>8, <2>9 DEF TwinRan
<1>3. CASE MapPage
  BY <1>3 DEF MapPage, TwinRan
<1>4. CASE Retry
  BY <1>4 DEF Retry, TwinRan
<1>5. CASE UnmapPage \/ AddCoprocessor \/ HostIRQ \/ HandlerReturns
  BY <1>5 DEF UnmapPage, AddCoprocessor, HostIRQ, HandlerReturns, TwinRan
<1> QED BY <1>1, <1>2, <1>3, <1>4, <1>5 DEF Next, Host

-----------------------------------------------------------------------------
\* A block that is loaded when all of its words are there

\* The slots of a block.
BlockSlots(q, t) == {RegisterSlot(BlockBank(q, t), n) : n \in t.list}

\* g has become m by the load of w, all of it.
Loaded(g, w, m) ==
    LET base == RegisterSlot(g.p.cpsr.mode, w.rn)
    IN  /\ m.p.cpsr = g.p.cpsr /\ m.p.spsr = g.p.spsr
        /\ \A n \in w.list :
              m.p.regs[RegisterSlot(BlockBank(g.p, w), n)] = g.cells[CellOf(Reg(g, w.rn), w, n)]
        /\ w.writeBack => m.p.regs[base] = BlockEnd(Reg(g, w.rn), w)
        /\ \A s \in Slots \ BlockSlots(g.p, w) :
              (w.writeBack => s # base) => m.p.regs[s] = g.p.regs[s]

\* What is reached of a block whose words are all there.
LEMMA WholeBlockIsReached ==
    ASSUME NEW D, NEW g, Fit(g, D), NEW w, w.rn \in 0 .. 15, w.list \in SUBSET (0 .. 15),
           \A n \in w.list : Mapped(g, AddressOf(Reg(g, w.rn), w, n))
    PROVE  blockDataLoad(g, w).loaded = w.list
<1> DEFINE base == Reg(g, w.rn)
           N == Cardinality(w.list)
           order == Order(w.list, w.up)
           moves == BlockMoves(base, w)
<1>1. base \in Int
  BY RegIsWord
<1>2. /\ N \in Nat /\ order \in [1 .. N -> w.list]
      /\ \A i, j \in 1 .. N : i # j => order[i] # order[j]
  BY OrderIsList
<1>3. DOMAIN moves = 1 .. N
  <2> HIDE DEF base
  <2> QED BY <1>1, BlockMovesAreTyped
<1>4. \A n \in w.list : PlaceFor(w, n) \in 1 .. N /\ order[PlaceFor(w, n)] = n
  BY OrderRanks
<1>5. ASSUME NEW i \in 1 .. N PROVE Mapped(g, moves[i].address)
  <2> DEFINE n == order[i]
             k == PlaceFor(w, n)
  <2>1. n \in w.list /\ k \in 1 .. N /\ order[k] = n
    BY <1>2, <1>4
  <2>2. k = i
    <3> HIDE DEF order, N, k
    <3> QED BY <1>2, <2>1
  <2>3. BlockAddress(base, w, k) = AddressOf(base, w, n)
    <3> HIDE DEF base, n
    <3> QED BY <1>1, <2>1, AddressAscends
  <2>4. moves[i].address = BlockAddress(base, w, i)
    BY <1>2 DEF BlockMoves
  <2> HIDE DEF k, n, moves
  <2> QED BY <2>1, <2>2, <2>3, <2>4
<1>6. ReadRegisters(g, w) = {order[i] : i \in Reached(g, moves)}
  BY DEF ReadRegisters
<1>7. Reached(g, moves) = 1 .. N
  <2> HIDE DEF moves
  <2>1. \A i \in 1 .. N : \A j \in 1 .. i : j \in 1 .. N
    BY <1>2
  <2> QED BY <1>3, <1>5, <2>1 DEF Reached
<1> HIDE DEF moves
<1>8. {order[i] : i \in 1 .. N} = w.list
  <2>1. \A i \in 1 .. N : order[i] \in w.list
    BY <1>2
  <2>2. \A n \in w.list : \E i \in 1 .. N : order[i] = n
    BY <1>4
  <2> HIDE DEF order, N
  <2> QED BY <2>1, <2>2
<1> QED BY <1>6, <1>7, <1>8, blockDataLoadIs

LEMMA WholeBlockLoads ==
    ASSUME NEW D, NEW g, Fit(g, D), Covers(D), NEW w, w.load = TRUE,
           w.rn \in 0 .. 15, w.list \in SUBSET (0 .. 15), w.writeBack \in BOOLEAN,
           w.writeBack => w.rn \notin w.list, ~(w.forceUser /\ 15 \in w.list),
           \A n \in w.list : Mapped(g, AddressOf(Reg(g, w.rn), w, n))
    PROVE  /\ BlockTransfer(g, w).ok = TRUE
           /\ Fit(BlockTransfer(g, w).m, D)
           /\ BlockTransfer(g, w).m.cells = g.cells
           /\ BlockTransfer(g, w).m.mapped = g.mapped
           /\ BlockTransfer(g, w).m.coprocessors = g.coprocessors
           /\ Loaded(g, w, BlockTransfer(g, w).m)
<1> DEFINE b == blockDataLoad(g, w)
           low == BlockDataLoad(g.p, b)
           n == w.rn
           e == BlockEnd(Reg(g, n), w)
           s0 == RegisterSlot(g.p.cpsr.mode, n)
           based == IF w.writeBack THEN SetRegister(low, n, e).p ELSE low
           r == BlockTransfer(g, w)
<1>1. /\ b.rn = w.rn /\ b.list = w.list /\ b.forceUser = w.forceUser /\ b.writeBack = w.writeBack
      /\ b.end = e
  BY blockDataLoadIs
<1>2. b.loaded = w.list
  BY WholeBlockIsReached
<1>3. Loads(b) /\ Good(g.p)
  BY BlockLoads DEF Fit
<1>4. BlockTail(low, b) = Done(based)
  BY <1>1, <1>2 DEF BlockTail
<1>5. r = [m |-> [g EXCEPT !.p = BlockTail(low, b).p], ok |-> BlockTail(low, b).ok]
  BY BlockParts DEF BlockTransfer
<1>6. r = [m |-> [g EXCEPT !.p = based], ok |-> TRUE]
  <2> HIDE DEF b, low, based, r
  <2> QED BY <1>4, <1>5 DEF Done
<1>7. /\ LoadBank(g.p, b) = BlockBank(g.p, w)
      /\ LoadSlots(g.p, b) = BlockSlots(g.p, w)
  BY <1>1, <1>2 DEF LoadBank, BlockBank, LoadSlots, BlockSlots
<1>8. n \in 0 .. 15 /\ e \in Word
  BY <1>1, <1>3 DEF Loads
<1>9. SUFFICES /\ r.ok = TRUE /\ Fit(r.m, D) /\ r.m.cells = g.cells /\ r.m.mapped = g.mapped
                /\ r.m.coprocessors = g.coprocessors /\ Loaded(g, w, r.m)
  OBVIOUS
<1> HIDE DEF b
<1>10. Good(low) /\ low.cpsr = g.p.cpsr /\ low.spsr = g.p.spsr /\ low.regs = BlockRegs(g.p, b)
  BY <1>3, BlockDataLoadKeeps
<1>11. s0 \in Slots
  BY <1>3, <1>8, SlotExists DEF Good
<1> HIDE DEF low, n, e, s0
<1>12. /\ Good(based) /\ based.cpsr = g.p.cpsr /\ based.spsr = g.p.spsr
       /\ w.writeBack => based.regs[s0] = e
       /\ \A s \in Slots : (w.writeBack => s # s0) => based.regs[s] = low.regs[s]
  <2> DEFINE v == SetRegister(low, n, e).p
  <2>1. n \in Nat
    BY <1>8
  <2>2. Good(v) /\ v.cpsr = low.cpsr /\ v.spsr = low.spsr
    BY <1>8, <1>10, <2>1, SetRegisterKeeps DEF Keeps
  <2>3. v.regs = [low.regs EXCEPT ![s0] = e]
    BY <1>8, <1>10 DEF SetRegister, Done, Good, Processors, s0
  <2>4. low.regs \in [Slots -> Word]
    BY <1>10 DEF Good, Processors
  <2> HIDE DEF v
  <2>5. based = IF w.writeBack THEN v ELSE low
    BY DEF v
  <2> HIDE DEF based
  <2> QED BY <1>10, <1>11, <2>2, <2>3, <2>4, <2>5
<1> HIDE DEF based, r
<1>13. /\ r.ok = TRUE /\ r.m = [g EXCEPT !.p = based]
  BY <1>6
<1>14. /\ Fit(r.m, D) /\ r.m.p = based /\ r.m.cells = g.cells /\ r.m.mapped = g.mapped
       /\ r.m.coprocessors = g.coprocessors
  BY <1>12, <1>13, OtherProcessor
<1>15. \A k \in w.list :
         based.regs[RegisterSlot(BlockBank(g.p, w), k)] = g.cells[CellOf(Reg(g, w.rn), w, k)]
  <2>1. Ascended(w, g.p, g.cells, r.m.p, r.m.cells)
    BY <1>13, BlockLoadAscends DEF r
  <2> QED BY <1>14, <2>1 DEF Ascended, Reg
<1>16. \A s \in Slots \ BlockSlots(g.p, w) : low.regs[s] = g.p.regs[s]
  BY <1>7, <1>10 DEF BlockRegs
<1>17. Loaded(g, w, r.m)
  <2>1. \A s \in Slots \ BlockSlots(g.p, w) :
            (w.writeBack => s # s0) => based.regs[s] = g.p.regs[s]
    BY <1>12, <1>16
  <2> QED BY <1>12, <1>14, <1>15, <2>1 DEF Loaded, s0, e, n
<1> QED BY <1>13, <1>14, <1>17

LEMMA SameProcessor ==
    ASSUME NEW q, Good(q), NEW r, Good(r), r.cpsr = q.cpsr, r.spsr = q.spsr,
           \A s \in Slots : r.regs[s] = q.regs[s]
    PROVE  r = q
<1>1. q.regs \in [Slots -> Word] /\ r.regs \in [Slots -> Word]
  BY DEF Good, Processors
<1>2. r.regs = q.regs
  BY <1>1
<1> QED BY <1>2 DEF Good, Processors

-----------------------------------------------------------------------------
\* What a store has stored comes back

\* A block that is stored: its words, its addresses and its base.
LEMMA WholeBlockIsStored ==
    ASSUME NEW D, NEW g, Fit(g, D), Covers(D), NEW w, ~w.load,
           w.rn \in 0 .. 15, w.list \in SUBSET (0 .. 15), w.writeBack \in BOOLEAN,
           NEW r, r = BlockTransfer(g, w), r.ok
    PROVE  /\ Fit(r.m, D) /\ r.m.mapped = g.mapped /\ r.m.coprocessors = g.coprocessors
           /\ r.m.p.cpsr = g.p.cpsr /\ r.m.p.spsr = g.p.spsr
           /\ \A n \in w.list : Mapped(g, AddressOf(Reg(g, w.rn), w, n))
           /\ \A n \in w.list :
                 r.m.cells[CellOf(Reg(g, w.rn), w, n)]
                   = g.p.regs[RegisterSlot(BlockBank(g.p, w), n)]
           /\ r.m.p.regs = IF w.writeBack
                             THEN Storing(g.p, w.rn, BlockEnd(Reg(g, w.rn), w))
                             ELSE g.p.regs
<1> DEFINE base == Reg(g, w.rn)
           N == Cardinality(w.list)
           order == Order(w.list, w.up)
           moves == StoreMoves(g, w)
           x == StoreWords(g, moves)
           e == BlockEnd(base, w)
<1>1. base \in Nat /\ base \in Int
  BY RegIsWord
<1>2. N \in Nat /\ order \in [1 .. N -> w.list]
  BY OrderIsList
<1>3. e \in Word /\ e \in Int
  BY <1>1, BlockEndIsNumber
<1>4. DOMAIN moves = 1 .. N
  BY <1>2 DEF StoreMoves
<1>5. ASSUME NEW i \in 1 .. N
      PROVE  moves[i].value \in Word /\ moves[i].address = BlockAddress(base, w, i)
  <2>1. /\ moves[i].address = BlockAddress(base, w, i)
        /\ moves[i].value = StoredRegister(g, w, order[i])
    BY <1>2 DEF StoreMoves
  <2>2. order[i] \in 0 .. 15
    BY <1>2
  <2> HIDE DEF moves, order, base
  <2>3. StoredRegister(g, w, order[i]) \in Word
    BY <2>2, RegIsWord, UserRegisterIsWord DEF StoredRegister
  <2> QED BY <2>1, <2>3
<1>6. r = Written(x, w.writeBack, w.rn, e)
  BY StoredByBlock
<1>7. \A n \in w.list :
         r.m.cells[CellOf(base, w, n)] = g.p.regs[RegisterSlot(BlockBank(g.p, w), n)]
  <2>1. Ascended(w, g.p, g.cells, r.m.p, r.m.cells)
    BY BlockStoreAscends
  <2> QED BY <2>1 DEF Ascended, Reg
<1> HIDE DEF moves
<1> DEFINE all == Reached(g, moves) = DOMAIN moves
<1>8. x.ok = all
  BY DEF StoreWords
<1> HIDE DEF x, e, all
<1>9. x.ok
  BY <1>6 DEF Written
<1>10. all
  BY <1>9, <1>8
<1>11. Reached(g, moves) = 1 .. N
  BY <1>4, <1>10 DEF all
<1>12. /\ Fit(x.m, D) /\ x.m.mapped = g.mapped /\ x.m.p = g.p
       /\ x.m.coprocessors = g.coprocessors
  <2>1. Follows(D, g, x, StoreWords(Full(g), moves)) /\ x.m.p = g.p
        /\ x.m.coprocessors = g.coprocessors
    BY <1>2, <1>4, <1>5, StoresAgree DEF x
  <2> QED BY <2>1 DEF Follows
<1>13. ASSUME NEW n \in w.list PROVE Mapped(g, AddressOf(base, w, n))
  <2> DEFINE i == PlaceFor(w, n)
  <2>1. i \in 1 .. N
    BY OrderRanks
  <2>2. BlockAddress(base, w, i) = AddressOf(base, w, n)
    BY <1>1, AddressAscends
  <2> HIDE DEF i, base
  <2>3. i \in Reached(g, moves) /\ i \in 1 .. i
    BY <1>2, <1>11, <2>1
  <2>4. Mapped(g, moves[i].address)
    BY <2>3 DEF Reached
  <2> QED BY <1>5, <2>1, <2>2, <2>4
<1>14. CASE w.writeBack
  <2> DEFINE h == Put(x.m, w.rn, e)
  <2>1. r.m = h
    BY <1>6, <1>9, <1>14 DEF Written, Complete
  <2>2. Fit(h, D) /\ h.mapped = x.m.mapped
    BY <1>3, <1>12, PutKeepsFit
  <2>3. /\ h.p.cpsr = x.m.p.cpsr /\ h.p.spsr = x.m.p.spsr
        /\ h.p.regs = Storing(x.m.p, w.rn, e % WordSpace)
        /\ h.coprocessors = x.m.coprocessors
    <3> DEFINE k == x.m
               n == w.rn
    <3>1. Fit(k, D) /\ n \in 0 .. 15 /\ e \in Int
      BY <1>3, <1>12
    <3> HIDE DEF k, n
    <3>2. /\ Put(k, n, e).p.cpsr = k.p.cpsr /\ Put(k, n, e).p.spsr = k.p.spsr
          /\ Put(k, n, e).p.regs = Storing(k.p, n, e % WordSpace)
          /\ Put(k, n, e).coprocessors = k.coprocessors
      BY <3>1, PutStores
    <3> QED BY <3>2 DEF k, n
  <2>4. e % WordSpace = e
    BY <1>3, Remainders
  <2> HIDE DEF h
  <2> QED BY <1>7, <1>12, <1>13, <1>14, <2>1, <2>2, <2>3, <2>4 DEF e
<1>15. CASE ~w.writeBack
  <2>1. r = x
    BY <1>6, <1>15 DEF Written
  <2> QED BY <1>7, <1>12, <1>13, <1>15, <2>1
<1> QED BY <1>14, <1>15


\* The slots of the registers of a list in a bank.
ListSlots(bank, list) == {RegisterSlot(bank, n) : n \in list}

\* The machine with the registers of a list lost.
Lost(m, bank, list) == [m EXCEPT !.p = Without(m.p, bank, list)]

\* k is m up to what the registers of the list hold.
Kept(D, m, bank, list, k) ==
    /\ Fit(k, D) /\ k.mapped = m.mapped /\ k.cells = m.cells
    /\ k.p.cpsr = m.p.cpsr /\ k.p.spsr = m.p.spsr
    /\ \A s \in Slots : s \notin ListSlots(bank, list) => k.p.regs[s] = m.p.regs[s]

\* Registers that are lost leave the others.
LEMMA LosingFits ==
    ASSUME NEW D, NEW m, Fit(m, D), NEW bank, NEW list \in SUBSET (0 .. 15)
    PROVE  Kept(D, m, bank, list, Lost(m, bank, list))
<1> DEFINE k == Lost(m, bank, list)
           lost == ListSlots(bank, list)
           after == [s \in Slots |-> IF s \in lost THEN 0 ELSE m.p.regs[s]]
           q == [m.p EXCEPT !.regs = after]
<1>1. SUFFICES /\ Fit(k, D) /\ k.mapped = m.mapped /\ k.cells = m.cells
               /\ k.p.cpsr = m.p.cpsr /\ k.p.spsr = m.p.spsr
               /\ \A s \in Slots : s \notin lost => k.p.regs[s] = m.p.regs[s]
  BY DEF Kept
<1>2. Without(m.p, bank, list) = q
  BY DEF Without, ListSlots
<1>3. Good(m.p)
  BY DEF Fit
<1> HIDE DEF lost
<1>4. after \in [Slots -> Word]
  BY <1>3, WordsAreNumbers DEF Good, Processors
<1>5. \A s \in Slots : s \notin lost => after[s] = m.p.regs[s]
  OBVIOUS
<1> HIDE DEF after
<1>6. Good(q) /\ q.cpsr = m.p.cpsr /\ q.spsr = m.p.spsr /\ q.regs = after
  BY <1>3, <1>4 DEF Good, Processors
<1> HIDE DEF q
<1>7. k = [m EXCEPT !.p = q]
  BY <1>2 DEF Lost
<1> HIDE DEF k
<1>8. Fit(k, D) /\ k.p = q /\ k.cells = m.cells /\ k.mapped = m.mapped
  BY <1>6, <1>7 DEF Fit, Good
<1> QED BY <1>5, <1>6, <1>8

\* The load that undoes a store has its words at the same addresses, and ends
\* where the store began.
LEMMA UndoneAddresses ==
    ASSUME NEW t, t.list \in SUBSET (0 .. 15), t.up \in BOOLEAN, t.preindex \in BOOLEAN,
           t.writeBack \in BOOLEAN, NEW u, u.list = t.list, u.up = (t.up # t.writeBack),
           u.preindex = (t.preindex # t.writeBack), NEW base \in Word,
           NEW end, end = IF t.writeBack THEN BlockEnd(base, t) ELSE base
    PROVE  /\ \A n \in t.list : AddressOf(end, u, n) = AddressOf(base, t, n)
           /\ t.writeBack => BlockEnd(end, u) = base
<1> DEFINE N == Cardinality(t.list)
<1>1. N \in Nat /\ base \in Int /\ base % WordSpace = base
  BY ListsAreFinite, WordIsNumber, Remainders
<1>2. \A n \in t.list : Cardinality(Below(t.list, n)) \in Nat
  BY RankOfRegister
<1>3. CASE ~t.writeBack
  <2>1. u.up = t.up /\ u.preindex = t.preindex /\ end = base
    BY <1>3
  <2> QED BY <1>3, <2>1 DEF AddressOf, Lowest
<1>4. CASE t.writeBack /\ t.up
  <2>1. ~u.up /\ u.preindex = ~t.preindex /\ end = (base + 4 * N) % WordSpace
    BY <1>4 DEF BlockEnd, Displaced
  <2> HIDE DEF N
  <2>2. ASSUME NEW n \in t.list PROVE AddressOf(end, u, n) = AddressOf(base, t, n)
    <3> DEFINE b == Cardinality(Below(t.list, n))
               c == IF t.preindex THEN 4 ELSE 0
               y == c + 4 * b - 4 * N
    <3>1. b \in Nat
      BY <1>2
    <3>2. AddressOf(end, u, n) = ((end - 4 * N + (IF u.preindex THEN 0 ELSE 4)) + 4 * b) % WordSpace
      BY <2>1 DEF AddressOf, Lowest, N
    <3>3. AddressOf(base, t, n) = ((base + c) + 4 * b) % WordSpace
      BY <1>4 DEF AddressOf, Lowest
    <3> HIDE DEF b
    <3>4. y \in Int /\ base + 4 * N \in Int /\ (base + 4 * N) + y = (base + c) + 4 * b
      BY <1>1, <3>1
    <3>5. end \in Int
      BY <1>1, <2>1, <3>4, Remainders, WordIsNumber
    <3>6. (end - 4 * N + (IF u.preindex THEN 0 ELSE 4)) + 4 * b = end + y
      <4>1. c \in Int
        OBVIOUS
      <4>2. (IF u.preindex THEN 0 ELSE 4) = c
        <5>1. CASE t.preindex = TRUE
          <6>1. u.preindex = FALSE
            BY <2>1, <5>1
          <6> QED BY <5>1, <6>1
        <5>2. CASE t.preindex = FALSE
          <6>1. u.preindex = TRUE
            BY <2>1, <5>2
          <6> QED BY <5>2, <6>1
        <5> QED BY <5>1, <5>2
      <4> HIDE DEF c
      <4> QED BY <1>1, <3>1, <3>5, <4>1, <4>2
    <3> HIDE DEF y
    <3>7. (end + y) % WordSpace = ((base + 4 * N) + y) % WordSpace
      BY <2>1, <3>4, CutsAdd
    <3> QED BY <3>2, <3>3, <3>4, <3>6, <3>7
  <2>3. BlockEnd(end, u) = base
    <3> DEFINE y == -(4 * N)
    <3>1. y \in Int /\ base + 4 * N \in Int /\ (base + 4 * N) + y = base
      BY <1>1
    <3>2. end \in Int
      BY <1>1, <2>1, <3>1, Remainders, WordIsNumber
    <3>3. end - 4 * N = end + y
      BY <1>1, <3>2
    <3>4. BlockEnd(end, u) = (end - 4 * N) % WordSpace
      BY <2>1 DEF BlockEnd, Displaced, N
    <3> HIDE DEF y
    <3>5. (end + y) % WordSpace = ((base + 4 * N) + y) % WordSpace
      BY <2>1, <3>1, CutsAdd
    <3> QED BY <1>1, <3>1, <3>3, <3>4, <3>5
  <2> QED BY <2>2, <2>3
<1>5. CASE t.writeBack /\ ~t.up
  <2>1. u.up /\ u.preindex = ~t.preindex /\ end = (base - 4 * N) % WordSpace
    BY <1>5 DEF BlockEnd, Displaced
  <2> HIDE DEF N
  <2>2. ASSUME NEW n \in t.list PROVE AddressOf(end, u, n) = AddressOf(base, t, n)
    <3> DEFINE b == Cardinality(Below(t.list, n))
               c == IF t.preindex THEN 0 ELSE 4
               y == c + 4 * b
    <3>1. b \in Nat
      BY <1>2
    <3>2. AddressOf(end, u, n) = ((end + (IF u.preindex THEN 4 ELSE 0)) + 4 * b) % WordSpace
      BY <2>1 DEF AddressOf, Lowest
    <3>3. AddressOf(base, t, n) = ((base - 4 * N + c) + 4 * b) % WordSpace
      BY <1>5 DEF AddressOf, Lowest, N
    <3> HIDE DEF b
    <3>4. y \in Int /\ base - 4 * N \in Int /\ (base - 4 * N) + y = (base - 4 * N + c) + 4 * b
      BY <1>1, <3>1
    <3>5. end \in Int
      BY <1>1, <2>1, <3>4, Remainders, WordIsNumber
    <3>6. (end + (IF u.preindex THEN 4 ELSE 0)) + 4 * b = end + y
      <4>1. c \in Int
        OBVIOUS
      <4>2. (IF u.preindex THEN 4 ELSE 0) = c
        <5>1. CASE t.preindex = TRUE
          <6>1. u.preindex = FALSE
            BY <2>1, <5>1
          <6> QED BY <5>1, <6>1
        <5>2. CASE t.preindex = FALSE
          <6>1. u.preindex = TRUE
            BY <2>1, <5>2
          <6> QED BY <5>2, <6>1
        <5> QED BY <5>1, <5>2
      <4> HIDE DEF c
      <4> QED BY <1>1, <3>1, <3>5, <4>1, <4>2
    <3> HIDE DEF y
    <3>7. (end + y) % WordSpace = ((base - 4 * N) + y) % WordSpace
      BY <2>1, <3>4, CutsAdd
    <3> QED BY <3>2, <3>3, <3>4, <3>6, <3>7
  <2>3. BlockEnd(end, u) = base
    <3> DEFINE y == 4 * N
    <3>1. y \in Int /\ base - 4 * N \in Int /\ (base - 4 * N) + y = base
      BY <1>1
    <3>4. BlockEnd(end, u) = (end + y) % WordSpace
      BY <2>1 DEF BlockEnd, Displaced, N
    <3> HIDE DEF y
    <3>5. (end + y) % WordSpace = ((base - 4 * N) + y) % WordSpace
      BY <2>1, <3>1, CutsAdd
    <3> QED BY <1>1, <3>1, <3>4, <3>5
  <2> QED BY <2>2, <2>3
<1> QED BY <1>3, <1>4, <1>5

\* The load of the block that t has stored.
Undoes(u, t) ==
    /\ u.load = TRUE /\ u.rn = t.rn /\ u.list = t.list /\ u.forceUser = t.forceUser
    /\ u.writeBack = t.writeBack /\ u.up = (t.up # t.writeBack)
    /\ u.preindex = (t.preindex # t.writeBack)

\* A store whose words and whose base a load can bring back.
Undoable(t) ==
    /\ t.load = FALSE /\ t.rn \in 0 .. 15 /\ t.list \in SUBSET (0 .. 15)
    /\ t.up \in BOOLEAN /\ t.preindex \in BOOLEAN /\ t.writeBack \in BOOLEAN
    /\ 15 \notin t.list /\ t.rn \notin t.list

\* A store, and the load that undoes it after the registers of the list are lost.
LEMMA BlockComesBack ==
    ASSUME NEW D, NEW g, Fit(g, D), Covers(D), NEW t, Undoable(t),
           BlockTransfer(g, t).ok, NEW u, Undoes(u, t),
           NEW k, Kept(D, BlockTransfer(g, t).m, BlockBank(g.p, t), t.list, k)
    PROVE  BlockTransfer(k, u).m.p = g.p
<1> DEFINE base == Reg(g, t.rn)
           bank == BlockBank(g.p, t)
           end == IF t.writeBack THEN BlockEnd(base, t) ELSE base
           f == BlockTransfer(k, u)
           s0 == RegisterSlot(g.p.cpsr.mode, t.rn)
<1> DEFINE r == BlockTransfer(g, t)
<1>1. /\ t.load = FALSE /\ t.rn \in 0 .. 15 /\ t.list \in SUBSET (0 .. 15)
      /\ t.up \in BOOLEAN /\ t.preindex \in BOOLEAN /\ t.writeBack \in BOOLEAN
      /\ 15 \notin t.list /\ t.rn \notin t.list
  BY DEF Undoable
<1>2. /\ u.load = TRUE /\ u.rn = t.rn /\ u.list = t.list /\ u.forceUser = t.forceUser
      /\ u.writeBack = t.writeBack /\ u.up = (t.up # t.writeBack)
      /\ u.preindex = (t.preindex # t.writeBack)
  BY DEF Undoes
<1>3. /\ Fit(r.m, D) /\ r.m.mapped = g.mapped
      /\ r.m.p.cpsr = g.p.cpsr /\ r.m.p.spsr = g.p.spsr
      /\ \A n \in t.list : Mapped(g, AddressOf(base, t, n))
      /\ \A n \in t.list : r.m.cells[CellOf(base, t, n)] = g.p.regs[RegisterSlot(bank, n)]
      /\ r.m.p.regs = IF t.writeBack THEN Storing(g.p, t.rn, BlockEnd(base, t)) ELSE g.p.regs
  BY <1>1, WholeBlockIsStored
<1>4. /\ base = g.p.regs[s0] /\ base \in Word
  BY <1>1, RegIsWord
<1>5. s0 \in Slots /\ g.p.regs \in [Slots -> Word]
  BY <1>1, SlotExists DEF Fit, Good, Processors
<1>6. r.m.p.regs = IF t.writeBack THEN [g.p.regs EXCEPT ![s0] = end] ELSE g.p.regs
  BY <1>3 DEF Storing
<1>7. /\ Fit(k, D) /\ k.mapped = r.m.mapped /\ k.cells = r.m.cells
      /\ k.p.cpsr = r.m.p.cpsr /\ k.p.spsr = r.m.p.spsr
      /\ \A s \in Slots : s \notin ListSlots(bank, t.list)
                            => k.p.regs[s] = r.m.p.regs[s]
  BY DEF Kept
<1>8. s0 \notin ListSlots(bank, t.list)
  BY <1>1, SlotsDifferAnywhere DEF ListSlots
<1>9. BlockBank(k.p, u) = bank
  BY <1>3, <1>7, <1>2, <1>1 DEF BlockBank
<1>10. /\ \A n \in t.list : AddressOf(end, u, n) = AddressOf(base, t, n)
       /\ t.writeBack => BlockEnd(end, u) = base
  <2> HIDE DEF base
  <2> QED BY <1>4, <1>2, <1>1, UndoneAddresses
<1>11. Reg(k, u.rn) = end
  <2> DEFINE n == u.rn
  <2>5. n \in 0 .. 15
    BY <1>1, <1>2
  <2>1. Reg(k, n) = k.p.regs[RegisterSlot(k.p.cpsr.mode, n)]
    <3>1. Fit(k, D)
      BY <1>7
    <3> HIDE DEF n
    <3> QED BY <2>5, <3>1, RegIsWord
  <2> HIDE DEF base, bank, s0
  <2>2. RegisterSlot(k.p.cpsr.mode, u.rn) = s0
    BY <1>3, <1>7, <1>2 DEF s0
  <2>3. k.p.regs[s0] = r.m.p.regs[s0]
    BY <1>5, <1>7, <1>8
  <2>4. r.m.p.regs[s0] = end
    BY <1>4, <1>5, <1>6
  <2> QED BY <2>1, <2>2, <2>3, <2>4
<1> HIDE DEF base, bank, end, s0
<1>12. \A n \in u.list : Mapped(k, AddressOf(Reg(k, u.rn), u, n))
  BY <1>1, <1>2, <1>3, <1>7, <1>10, <1>11 DEF Mapped
<1>13. \A n \in t.list : CellOf(end, u, n) = CellOf(base, t, n)
  BY <1>10 DEF CellOf, AddressOf
<1>14. Fit(f.m, D) /\ Loaded(k, u, f.m)
  BY <1>1, <1>2, <1>7, <1>12, WholeBlockLoads
<1> HIDE DEF f
<1>15. /\ f.m.p.cpsr = g.p.cpsr /\ f.m.p.spsr = g.p.spsr
       /\ \A n \in t.list : f.m.p.regs[RegisterSlot(bank, n)] = k.cells[CellOf(end, u, n)]
       /\ t.writeBack => f.m.p.regs[s0] = BlockEnd(end, u)
       /\ \A s \in Slots \ ListSlots(bank, t.list) :
             (t.writeBack => s # s0) => f.m.p.regs[s] = k.p.regs[s]
  BY <1>1, <1>2, <1>3, <1>7, <1>9, <1>11, <1>14 DEF Loaded, BlockSlots, ListSlots, s0
<1>16. ASSUME NEW s \in Slots PROVE f.m.p.regs[s] = g.p.regs[s]
  <2>1. CASE s \in ListSlots(bank, t.list)
    <3>1. PICK n \in t.list : s = RegisterSlot(bank, n)
      BY <2>1 DEF ListSlots
    <3>2. f.m.p.regs[s] = k.cells[CellOf(end, u, n)]
      BY <1>15, <3>1
    <3> QED BY <1>3, <1>7, <1>13, <3>1, <3>2
  <2>2. CASE s \notin ListSlots(bank, t.list) /\ t.writeBack /\ s = s0
    BY <1>4, <1>10, <1>15, <2>2
  <2>3. CASE s \notin ListSlots(bank, t.list) /\ ~(t.writeBack /\ s = s0)
    <3>1. f.m.p.regs[s] = k.p.regs[s]
      BY <1>15, <2>3
    <3>2. k.p.regs[s] = r.m.p.regs[s]
      BY <1>7, <2>3
    <3>3. r.m.p.regs[s] = g.p.regs[s]
      BY <1>5, <1>6, <2>3
    <3> QED BY <3>1, <3>2, <3>3
  <2> QED BY <2>1, <2>2, <2>3
<1>17. Good(f.m.p) /\ Good(g.p)
  BY <1>14 DEF Fit
<1>18. f.m.p = g.p
  <2> DEFINE q == g.p
             h == f.m.p
  <2>1. Good(q) /\ Good(h) /\ h.cpsr = q.cpsr /\ h.spsr = q.spsr
        /\ \A s \in Slots : h.regs[s] = q.regs[s]
    BY <1>15, <1>16, <1>17
  <2> HIDE DEF q, h
  <2>2. h = q
    BY <2>1, SameProcessor
  <2> QED BY <2>2 DEF q, h
<1> QED BY <1>18 DEF f

-----------------------------------------------------------------------------
\* What a push has stored is popped

\* The blocks of push and pop.
Pushed(t) == t.list \union (IF t.extra THEN {14} ELSE {})
Popped(t) == t.list \union (IF t.extra THEN {15} ELSE {})
PushBlock(t) == Block(FALSE, 13, Pushed(t), FALSE, TRUE)
PopBlock(t)  == Block(TRUE, 13, Popped(t), TRUE, FALSE)

\* The register whose value a pop loads in n.
Source(n) == IF n = 15 THEN 14 ELSE n

LEMMA PushAndPopAreBlocks ==
    ASSUME NEW D, NEW g, Fit(g, D), Covers(D), NEW t, t.format = "pushPop",
           t.load \in BOOLEAN, t.list \in SUBSET (0 .. 7), t.extra \in BOOLEAN
    PROVE  PushPopRegisters(g, t)
             = BlockTransfer(g, IF t.load THEN PopBlock(t) ELSE PushBlock(t))
<1>1. Emulate(g, t) = PushPopRegisters(g, t)
  BY Dispatch
<1>2. Twin(g, t) = Emulate(g, t)
  BY PushTwin, PopTwin
<1>3. Twin(g, t) = BlockTransfer(g, Block(t.load, 13,
               t.list \union (IF ~t.extra THEN {} ELSE IF t.load THEN {15} ELSE {14}),
               t.load, ~t.load))
  BY DEF Twin
<1>4. CASE t.load
  <2>1. t.list \union (IF ~t.extra THEN {} ELSE IF t.load THEN {15} ELSE {14}) = Popped(t)
    BY <1>4 DEF Popped
  <2>2. t.load = TRUE /\ (~t.load) = FALSE
    BY <1>4
  <2> QED BY <1>1, <1>2, <1>3, <1>4, <2>1, <2>2 DEF PopBlock
<1>5. CASE ~t.load
  <2>1. t.list \union (IF ~t.extra THEN {} ELSE IF t.load THEN {15} ELSE {14}) = Pushed(t)
    BY <1>5 DEF Pushed
  <2>2. t.load = FALSE /\ (~t.load) = TRUE
    BY <1>5
  <2> QED BY <1>1, <1>2, <1>3, <1>5, <2>1, <2>2 DEF PushBlock
<1> QED BY <1>4, <1>5

\* A pop has its words where the push has stored them.
LEMMA PoppedAddresses ==
    ASSUME NEW t, t.list \in SUBSET (0 .. 7), t.extra \in BOOLEAN, NEW base \in Word,
           NEW end, end = BlockEnd(base, PushBlock(t)), NEW n \in Popped(t)
    PROVE  /\ Source(n) \in Pushed(t)
           /\ AddressOf(end, PopBlock(t), n) = AddressOf(base, PushBlock(t), Source(n))
<1> DEFINE N == Cardinality(Pushed(t))
           b == Cardinality(Below(Popped(t), n))
           x == base - 4 * N
           y == 4 * b
<1>1. Pushed(t) \in SUBSET (0 .. 15) /\ Popped(t) \in SUBSET (0 .. 15)
  BY DEF Pushed, Popped
<1>2. N \in Nat /\ b \in Nat
  BY <1>1, ListsAreFinite, RankOfRegister
<1>3. Source(n) \in Pushed(t) /\ Below(Popped(t), n) = Below(Pushed(t), Source(n))
  <2>1. CASE n \in t.list
    <3>1. n \in 0 .. 7 /\ Source(n) = n
      BY <2>1 DEF Source
    <3>2. \A k \in Popped(t) : k < n => k \in t.list
      BY <3>1 DEF Popped
    <3>3. \A k \in Pushed(t) : k < n => k \in t.list
      BY <3>1 DEF Pushed
    <3> QED BY <2>1, <3>1, <3>2, <3>3 DEF Below, Pushed, Popped
  <2>2. CASE n \notin t.list
    <3>1. t.extra /\ n = 15 /\ Source(n) = 14
      BY <2>2 DEF Popped, Source
    <3>2. Pushed(t) = t.list \union {14} /\ Popped(t) = t.list \union {15}
      BY <3>1 DEF Pushed, Popped
    <3>3. \A k \in t.list : k < 14 /\ k < 15
      OBVIOUS
    <3>4. Below(Popped(t), 15) = t.list
      BY <3>2, <3>3 DEF Below
    <3>5. Below(Pushed(t), 14) = t.list
      BY <3>2, <3>3 DEF Below
    <3> QED BY <3>1, <3>2, <3>4, <3>5
  <2> QED BY <2>1, <2>2
<1>4. end = x % WordSpace
  BY DEF BlockEnd, Displaced, PushBlock, Block
<1>5. AddressOf(end, PopBlock(t), n) = (end + 0 + y) % WordSpace
  BY DEF AddressOf, Lowest, PopBlock, Block
<1>6. AddressOf(base, PushBlock(t), Source(n)) = (x + 0 + y) % WordSpace
  BY <1>3 DEF AddressOf, Lowest, PushBlock, Block
<1>7. x \in Int /\ y \in Int /\ x + 0 = x
  BY <1>2, WordIsNumber
<1> HIDE DEF x, y
<1>8. end \in Int /\ end + 0 = end
  BY <1>4, <1>7, Remainders, WordIsNumber
<1> QED BY <1>3, <1>4, <1>5, <1>6, <1>7, <1>8, CutsAdd

\* A processor without its stack pointer, and with x in the pc if b.
Recalled(q, h, b, x) ==
    /\ Good(h) /\ h.cpsr = q.cpsr /\ h.spsr = q.spsr
    /\ \A s \in Slots :
          h.regs[s] = IF s = RegisterSlot(q.cpsr.mode, 13) THEN 0
                      ELSE IF b /\ s = <<userMode, 15>> THEN x
                      ELSE q.regs[s]

\* A low register is in the same slot in all modes.
LEMMA LowSlots ==
    ASSUME NEW mode, NEW n \in 0 .. 7
    PROVE  RegisterSlot(mode, n) = <<userMode, n>> /\ RegisterSlot(mode, n) = RegisterSlot(userMode, n)
BY DEF RegisterSlot

\* A push, and the pop after the registers of the list are lost.
LEMMA PushComesBack ==
    ASSUME NEW D, NEW g, Fit(g, D), Covers(D), NEW t, t.format = "pushPop", t.load = FALSE,
           t.list \in SUBSET (0 .. 7), t.extra \in BOOLEAN,
           NEW r, r = PushPopRegisters(g, t), r.ok,
           NEW u, u.format = "pushPop", u.load = TRUE, u.list = t.list, u.extra = t.extra,
           NEW k, Kept(D, r.m, userMode, t.list, k)
    PROVE  /\ PushPopRegisters(k, u).ok
           /\ Recalled(g.p, Put(PushPopRegisters(k, u).m, 13, 0).p, t.extra, Reg(g, 14))
<1> DEFINE w == PushBlock(t)
           v == PopBlock(t)
           sp == 13
           base == Reg(g, sp)
           mode == g.p.cpsr.mode
           end == BlockEnd(base, w)
           f == BlockTransfer(k, v)
           h == Put(f.m, sp, 0)
           s0 == RegisterSlot(mode, sp)
<1>1. /\ Fit(k, D) /\ k.mapped = r.m.mapped /\ k.cells = r.m.cells
      /\ k.p.cpsr = r.m.p.cpsr /\ k.p.spsr = r.m.p.spsr
      /\ \A s \in Slots : s \notin ListSlots(userMode, t.list) => k.p.regs[s] = r.m.p.regs[s]
  BY DEF Kept
<1>2. r = BlockTransfer(g, w)
  BY PushAndPopAreBlocks
<1>3. PushPopRegisters(k, u) = f
  <2>1. PushPopRegisters(k, u) = BlockTransfer(k, PopBlock(u))
    BY <1>1, PushAndPopAreBlocks
  <2>2. PopBlock(u) = v
    BY DEF PopBlock, Popped
  <2> QED BY <2>1, <2>2
<1>4. /\ w.load = FALSE /\ w.rn = sp /\ w.list = Pushed(t) /\ w.writeBack = TRUE
      /\ w.forceUser = FALSE
      /\ v.load = TRUE /\ v.rn = sp /\ v.list = Popped(t) /\ v.writeBack = FALSE
      /\ v.forceUser = FALSE
  BY DEF PushBlock, PopBlock, Block
<1>5. Pushed(t) \in SUBSET (0 .. 15) /\ Popped(t) \in SUBSET (0 .. 15) /\ sp \in 0 .. 15
  BY DEF Pushed, Popped
<1> HIDE DEF w, v, sp
<1>6. BlockBank(g.p, w) = mode
  BY <1>4 DEF BlockBank
<1> HIDE DEF mode
<1>7. /\ Fit(r.m, D) /\ r.m.mapped = g.mapped
      /\ r.m.p.cpsr = g.p.cpsr /\ r.m.p.spsr = g.p.spsr
      /\ \A n \in Pushed(t) : Mapped(g, AddressOf(base, w, n))
      /\ \A n \in Pushed(t) : r.m.cells[CellOf(base, w, n)] = g.p.regs[RegisterSlot(mode, n)]
      /\ r.m.p.regs = Storing(g.p, sp, end)
  <2>1. /\ Fit(r.m, D) /\ r.m.mapped = g.mapped
        /\ r.m.p.cpsr = g.p.cpsr /\ r.m.p.spsr = g.p.spsr
        /\ \A n \in w.list : Mapped(g, AddressOf(Reg(g, w.rn), w, n))
        /\ \A n \in w.list :
              r.m.cells[CellOf(Reg(g, w.rn), w, n)]
                = g.p.regs[RegisterSlot(BlockBank(g.p, w), n)]
        /\ r.m.p.regs = IF w.writeBack
                          THEN Storing(g.p, w.rn, BlockEnd(Reg(g, w.rn), w))
                          ELSE g.p.regs
    <3>1. ~w.load /\ w.rn \in 0 .. 15 /\ w.list \in SUBSET (0 .. 15) /\ w.writeBack \in BOOLEAN
      BY <1>4, <1>5
    <3> QED BY <1>2, <3>1, WholeBlockIsStored
  <2> HIDE DEF mode
  <2> QED BY <1>4, <1>6, <2>1
<1>8. base = g.p.regs[s0] /\ base \in Word
  BY <1>5, RegIsWord DEF mode
<1>9. s0 \in Slots /\ g.p.regs \in [Slots -> Word]
  BY <1>5, SlotExists DEF Fit, Good, Processors, mode
<1>10. r.m.p.regs = [g.p.regs EXCEPT ![s0] = end]
  BY <1>7 DEF Storing, mode
<1> HIDE DEF base, end
<1>11. s0 \notin ListSlots(userMode, t.list)
  <2>1. \A n \in t.list : n \in 0 .. 15 /\ n # sp
    BY DEF sp
  <2> QED BY <1>5, <2>1, SlotsDifferAnywhere DEF ListSlots
<1>12. Reg(k, sp) = end
  <2>1. Reg(k, sp) = k.p.regs[RegisterSlot(k.p.cpsr.mode, sp)]
    BY <1>5, <1>1, RegIsWord
  <2>2. RegisterSlot(k.p.cpsr.mode, sp) = s0
    BY <1>7, <1>1 DEF mode
  <2> HIDE DEF s0
  <2> QED BY <1>9, <1>10, <1>11, <1>1, <2>1, <2>2
<1>13. ASSUME NEW n \in Popped(t)
       PROVE  Source(n) \in Pushed(t) /\ AddressOf(end, v, n) = AddressOf(base, w, Source(n))
  BY <1>8, PoppedAddresses DEF end, v, w
<1>14. \A n \in v.list : Mapped(k, AddressOf(Reg(k, v.rn), v, n))
  BY <1>4, <1>7, <1>12, <1>13, <1>1 DEF Mapped
<1>15. f.ok = TRUE /\ Fit(f.m, D) /\ Loaded(k, v, f.m)
  BY <1>4, <1>5, <1>14, <1>1, WholeBlockLoads
<1> HIDE DEF f
<1>16. BlockBank(k.p, v) = mode /\ k.p.cpsr.mode = mode
  BY <1>4, <1>7, <1>1 DEF BlockBank, mode
<1>17. /\ f.m.p.cpsr = g.p.cpsr /\ f.m.p.spsr = g.p.spsr
       /\ \A n \in Popped(t) : f.m.p.regs[RegisterSlot(mode, n)] = k.cells[CellOf(end, v, n)]
       /\ \A s \in Slots \ ListSlots(mode, Popped(t)) : f.m.p.regs[s] = k.p.regs[s]
  BY <1>4, <1>7, <1>12, <1>15, <1>16, <1>1 DEF Loaded, BlockSlots, ListSlots
<1>18. ASSUME NEW n \in Popped(t)
       PROVE  f.m.p.regs[RegisterSlot(mode, n)] = g.p.regs[RegisterSlot(mode, Source(n))]
  <2>1. CellOf(end, v, n) = CellOf(base, w, Source(n))
    BY <1>13 DEF CellOf, AddressOf
  <2> QED BY <1>7, <1>13, <1>17, <1>1, <2>1
<1>19. /\ ListSlots(userMode, t.list) \subseteq ListSlots(mode, Popped(t))
       /\ \A n \in t.list : RegisterSlot(mode, n) = RegisterSlot(userMode, n)
  <2>1. \A n \in t.list : RegisterSlot(mode, n) = RegisterSlot(userMode, n)
    BY LowSlots
  <2> QED BY <2>1 DEF ListSlots, Popped
<1>20. Reg(g, 14) = g.p.regs[RegisterSlot(mode, 14)]
  <2> DEFINE lr == 14
  <2>1. lr \in 0 .. 15
    OBVIOUS
  <2> HIDE DEF lr
  <2>2. Reg(g, lr) = g.p.regs[RegisterSlot(mode, lr)]
    BY <2>1, RegIsWord DEF mode
  <2> QED BY <2>2 DEF lr
<1>21. RegisterSlot(mode, 15) = <<userMode, 15>>
  BY DEF RegisterSlot
<1>22. \A n \in 0 .. 15 : n # sp => RegisterSlot(mode, n) # s0
  BY <1>5, SlotsDifferAnywhere
<1> HIDE DEF s0
<1>23. ASSUME NEW s \in Slots, s # s0
       PROVE  f.m.p.regs[s] = IF t.extra /\ s = <<userMode, 15>> THEN Reg(g, 14)
                              ELSE g.p.regs[s]
  <2>1. CASE s \in ListSlots(mode, Popped(t))
    <3>1. PICK n \in Popped(t) : s = RegisterSlot(mode, n)
      BY <2>1 DEF ListSlots
    <3>2. CASE n = 15
      <4>1. t.extra /\ Source(n) = 14
        BY <3>2 DEF Popped, Source
      <4> QED BY <1>18, <1>20, <1>21, <3>1, <3>2, <4>1
    <3>3. CASE n # 15
      <4>1. n \in 0 .. 7 /\ Source(n) = n
        BY <3>3 DEF Popped, Source
      <4>2. s # <<userMode, 15>>
        BY <3>1, <4>1, LowSlots
      <4> QED BY <1>18, <3>1, <4>1, <4>2
    <3> QED BY <3>2, <3>3
  <2>2. CASE s \notin ListSlots(mode, Popped(t))
    <3>1. f.m.p.regs[s] = k.p.regs[s]
      BY <1>17, <2>2
    <3>2. k.p.regs[s] = r.m.p.regs[s]
      BY <1>19, <1>1, <2>2
    <3>3. r.m.p.regs[s] = g.p.regs[s]
      BY <1>9, <1>10, <1>23
    <3>4. t.extra => s # <<userMode, 15>>
      <4>1. t.extra => 15 \in Popped(t)
        BY DEF Popped
      <4> QED BY <1>21, <2>2, <4>1 DEF ListSlots
    <3> QED BY <3>1, <3>2, <3>3, <3>4
  <2> QED BY <2>1, <2>2
<1>24. /\ Fit(h, D) /\ h.p.cpsr = f.m.p.cpsr /\ h.p.spsr = f.m.p.spsr
       /\ h.p.regs = [f.m.p.regs EXCEPT ![s0] = 0]
  <2> DEFINE m == f.m
             x == 0
  <2>1. Fit(m, D) /\ x \in Int /\ x % WordSpace = x
    BY <1>15, WordsAreNumbers, Remainders
  <2> HIDE DEF m, x
  <2>2. Fit(Put(m, sp, x), D)
    BY <1>5, <2>1, PutKeepsFit
  <2>3. /\ Put(m, sp, x).p.cpsr = m.p.cpsr /\ Put(m, sp, x).p.spsr = m.p.spsr
        /\ Put(m, sp, x).p.regs = Storing(m.p, sp, x % WordSpace)
    <3>1. Put(m, sp, x).p.cpsr = m.p.cpsr /\ Put(m, sp, x).p.spsr = m.p.spsr
      BY <1>5, <2>1, PutStores
    <3>2. Put(m, sp, x).p.regs = Storing(m.p, sp, x % WordSpace)
      BY <1>5, <2>1, PutStores
    <3> QED BY <3>1, <3>2
  <2>4. Storing(m.p, sp, x) = [m.p.regs EXCEPT ![s0] = x]
    BY <1>17 DEF Storing, m, mode, s0
  <2> QED BY <2>1, <2>2, <2>3, <2>4 DEF m, x
<1>25. f.m.p.regs \in [Slots -> Word]
  BY <1>15 DEF Fit, Good, Processors
<1> HIDE DEF h
<1>26. \A s \in Slots : h.p.regs[s] = IF s = s0 THEN 0 ELSE f.m.p.regs[s]
  BY <1>9, <1>24, <1>25
<1>27. Recalled(g.p, h.p, t.extra, Reg(g, 14))
  <2> DEFINE sp2 == RegisterSlot(g.p.cpsr.mode, 13)
             x == Reg(g, 14)
  <2>1. s0 = sp2
    BY DEF s0, mode, sp
  <2> HIDE DEF x, sp2
  <2>2. \A s \in Slots : h.p.regs[s] = IF s = sp2 THEN 0
                                       ELSE IF t.extra /\ s = <<userMode, 15>> THEN x
                                       ELSE g.p.regs[s]
    BY <1>23, <1>26, <2>1 DEF x
  <2>3. Good(h.p)
    BY <1>24 DEF Fit
  <2> QED BY <1>17, <1>24, <2>2, <2>3 DEF Recalled, x, sp2
<1>28. PushPopRegisters(k, u).ok /\ Put(PushPopRegisters(k, u).m, 13, 0) = h
  BY <1>3, <1>15 DEF h, sp
<1> QED BY <1>27, <1>28

LEMMA RecalledIsOne ==
    ASSUME NEW q, NEW b, NEW x, NEW h, Recalled(q, h, b, x), NEW k, Recalled(q, k, b, x)
    PROVE  h = k
<1>1. Good(h) /\ Good(k) /\ h.cpsr = k.cpsr /\ h.spsr = k.spsr
  BY DEF Recalled
<1>2. \A s \in Slots : h.regs[s] = k.regs[s]
  BY DEF Recalled
<1> QED BY <1>1, <1>2, SameProcessor

\* A processor whose stack pointer is lost.
LEMMA LostPointer ==
    ASSUME NEW D, NEW m, Fit(m, D)
    PROVE  LET sp == RegisterSlot(m.p.cpsr.mode, 13)
               h  == Put(m, 13, 0).p
           IN  /\ Good(h) /\ h.cpsr = m.p.cpsr /\ h.spsr = m.p.spsr /\ sp \in Slots
               /\ \A s \in Slots : h.regs[s] = IF s = sp THEN 0 ELSE m.p.regs[s]
<1> DEFINE n == 13
           x == 0
           s0 == RegisterSlot(m.p.cpsr.mode, n)
           h == Put(m, n, x)
<1>1. n \in 0 .. 15 /\ x \in Int /\ x % WordSpace = x
  BY WordsAreNumbers, Remainders
<1>2. s0 \in Slots /\ m.p.regs \in [Slots -> Word]
  BY <1>1, SlotExists DEF Fit, Good, Processors
<1> SUFFICES /\ Good(h.p) /\ h.p.cpsr = m.p.cpsr /\ h.p.spsr = m.p.spsr /\ s0 \in Slots
             /\ \A s \in Slots : h.p.regs[s] = IF s = s0 THEN x ELSE m.p.regs[s]
  OBVIOUS
<1> HIDE DEF n, x
<1>3. Fit(h, D)
  BY <1>1, PutKeepsFit
<1>4. h.p.cpsr = m.p.cpsr /\ h.p.spsr = m.p.spsr
  BY <1>1, PutStores
<1>5. h.p.regs = Storing(m.p, n, x % WordSpace)
  BY <1>1, PutStores
<1>6. h.p.regs = [m.p.regs EXCEPT ![s0] = x]
  BY <1>1, <1>5 DEF Storing
<1> HIDE DEF h, s0
<1> QED BY <1>2, <1>3, <1>4, <1>6 DEF Fit

\* Where a pop that has its words back leaves the guest: after the push, or at
\* the lr it has stored.
LEMMA PopReturns ==
    ASSUME NEW D, NEW g, Fit(g, D), NEW k, k = AfterFetch(g), NEW b \in BOOLEAN,
           NEW m, m = IF b THEN Put(g, 15, Reg(g, 14)) ELSE k
    PROVE  Recalled(k.p, Put(m, 13, 0).p, b, Reg(k, 14))
<1> DEFINE pc == <<userMode, 15>>
           mode == g.p.cpsr.mode
           lr == 14
           sl == RegisterSlot(mode, lr)
           x == Reg(g, lr)
           c == 15
<1>1. /\ Fit(k, D) /\ k.p.cpsr = g.p.cpsr /\ k.p.spsr = g.p.spsr
      /\ k.p.regs = [g.p.regs EXCEPT ![pc] = Ahead(g.p)]
  BY FetchFits DEF Moving
<1>2. lr \in 0 .. 15 /\ c \in 0 .. 15
  OBVIOUS
<1>3. RegisterSlot(mode, c) = pc /\ pc \in Slots /\ mode \in ValidModes
  BY PCSlot DEF Fit, Good
<1>4. sl # pc /\ sl \in Slots
  BY <1>2, <1>3, SlotsDifferAnywhere, SlotExists
<1>5. g.p.regs \in [Slots -> Word]
  BY DEF Fit, Good, Processors
<1> HIDE DEF lr, c
<1>6. x = g.p.regs[sl] /\ x \in Word
  BY <1>2, RegIsWord
<1>7. Reg(k, lr) = k.p.regs[sl]
  <2>1. ASSUME NEW j, Fit(j, D) PROVE Reg(j, lr) = j.p.regs[RegisterSlot(j.p.cpsr.mode, lr)]
    BY <1>2, <2>1, RegIsWord
  <2>2. Reg(k, lr) = k.p.regs[RegisterSlot(k.p.cpsr.mode, lr)]
    BY <1>1, <2>1
  <2> QED BY <1>1, <2>2
<1> HIDE DEF sl
<1>8. Reg(k, lr) = x
  BY <1>1, <1>4, <1>5, <1>6, <1>7
<1> HIDE DEF x, pc
<1>9. /\ Fit(m, D) /\ m.p.cpsr = g.p.cpsr /\ m.p.spsr = g.p.spsr
      /\ \A s \in Slots : m.p.regs[s] = IF b /\ s = pc THEN x ELSE k.p.regs[s]
  <2>1. CASE b
    <3> DEFINE h == Put(g, c, x)
    <3>1. m = h
      BY <2>1 DEF x, c, lr
    <3>2. x \in Int /\ x % WordSpace = x
      BY <1>6, WordIsNumber, Remainders
    <3>3. Fit(h, D)
      BY <1>2, <3>2, PutKeepsFit
    <3>4. h.p.cpsr = g.p.cpsr /\ h.p.spsr = g.p.spsr
      BY <1>2, <3>2, PutStores
    <3>5. h.p.regs = Storing(g.p, c, x % WordSpace)
      BY <1>2, <3>2, PutStores
    <3>6. h.p.regs = [g.p.regs EXCEPT ![pc] = x]
      BY <1>3, <3>2, <3>5 DEF Storing
    <3> HIDE DEF h
    <3>7. \A s \in Slots : h.p.regs[s] = IF s = pc THEN x ELSE k.p.regs[s]
      BY <1>1, <1>3, <1>5, <3>6
    <3> QED BY <2>1, <3>1, <3>3, <3>4, <3>7
  <2>2. CASE ~b
    BY <1>1, <2>2
  <2> QED BY <2>1, <2>2
<1>10. LET sp == RegisterSlot(m.p.cpsr.mode, 13)
           h  == Put(m, 13, 0).p
       IN  /\ Good(h) /\ h.cpsr = m.p.cpsr /\ h.spsr = m.p.spsr /\ sp \in Slots
           /\ \A s \in Slots : h.regs[s] = IF s = sp THEN 0 ELSE m.p.regs[s]
  BY <1>9, LostPointer
<1> DEFINE h == Put(m, 13, 0).p
           s0 == RegisterSlot(m.p.cpsr.mode, 13)
<1>11. /\ Good(h) /\ h.cpsr = m.p.cpsr /\ h.spsr = m.p.spsr
       /\ \A s \in Slots : h.regs[s] = IF s = s0 THEN 0 ELSE m.p.regs[s]
  BY <1>10
<1> HIDE DEF h
<1>12. s0 = RegisterSlot(k.p.cpsr.mode, 13)
  BY <1>1, <1>9
<1> HIDE DEF s0
<1>13. \A s \in Slots : h.regs[s] = IF s = s0 THEN 0 ELSE IF b /\ s = pc THEN x
                                    ELSE k.p.regs[s]
  BY <1>9, <1>11
<1>14. Recalled(k.p, h, b, x)
  BY <1>1, <1>9, <1>11, <1>12, <1>13 DEF Recalled, pc
<1> QED BY <1>8, <1>14 DEF h, lr

\* The load that undoes a store.
Undo(t) == [t EXCEPT !.load = TRUE, !.up = (@ # t.writeBack), !.preindex = (@ # t.writeBack)]

LEMMA BlockUndone ==
    ASSUME NEW D, NEW g, Fit(g, D), Covers(D), NEW t \in ARMFormats, t.format = "block",
           ~t.load, {15, t.rn} \intersect t.list = {},
           NEW r, r = BlockTransfer(g, t), r.ok
    PROVE  BlockTransfer(Lost(r.m, BlockBank(g.p, t), t.list), Undo(t)).m.p = g.p
<1> DEFINE k == Lost(r.m, BlockBank(g.p, t), t.list)
           u == Undo(t)
<1>1. t \in [format : {"block"}, load : BOOLEAN, rn : Registers, list : SUBSET Registers,
             preindex : BOOLEAN, up : BOOLEAN, writeBack : BOOLEAN, forceUser : BOOLEAN]
  BY DEF ARMFormats
<1>2. /\ t.rn \in 0 .. 15 /\ t.list \in SUBSET (0 .. 15) /\ t.up \in BOOLEAN
      /\ t.preindex \in BOOLEAN /\ t.writeBack \in BOOLEAN /\ t.load = FALSE
      /\ 15 \notin t.list /\ t.rn \notin t.list
  BY <1>1 DEF Registers
<1>3. Undoes(u, t)
  BY <1>1 DEF Undo, Undoes
<1>4. Fit(r.m, D)
  BY <1>2, WholeBlockIsStored
<1>5. Kept(D, r.m, BlockBank(g.p, t), t.list, k)
  BY <1>2, <1>4, LosingFits
<1> HIDE DEF k, u
<1>6. BlockTransfer(k, u).m.p = g.p
  <2>1. Undoable(t)
    BY <1>2 DEF Undoable
  <2>2. BlockTransfer(g, t).ok
    OBVIOUS
  <2>3. Kept(D, BlockTransfer(g, t).m, BlockBank(g.p, t), t.list, k)
    BY <1>5
  <2> QED BY <1>3, <2>1, <2>2, <2>3, BlockComesBack
<1> QED BY <1>6 DEF k, u

LEMMA PushUndone ==
    ASSUME NEW D, NEW g, Fit(g, D), Covers(D), NEW t \in THUMBFormats,
           t.format = "pushPop", ~t.load, NEW k, k = AfterFetch(g),
           NEW r, r = PushPopRegisters(k, t), r.ok,
           NEW f, f = PushPopRegisters(Lost(r.m, userMode, t.list), [t EXCEPT !.load = TRUE]),
           NEW m, m = IF t.extra THEN Put(g, 15, Reg(g, 14)) ELSE k
    PROVE  f.ok /\ Put(f.m, 13, 0).p = Put(m, 13, 0).p
<1> DEFINE j == Lost(r.m, userMode, t.list)
           u == [t EXCEPT !.load = TRUE]
<1>1. t \in [format : {"pushPop"}, load : BOOLEAN, list : SUBSET LowRegisters,
             extra : BOOLEAN]
  BY DEF THUMBFormats
<1>2. t.load = FALSE /\ t.list \in SUBSET (0 .. 7) /\ t.extra \in BOOLEAN
      /\ t.list \in SUBSET (0 .. 15)
  BY <1>1 DEF LowRegisters
<1>3. u.format = "pushPop" /\ u.load = TRUE /\ u.list = t.list /\ u.extra = t.extra
  BY <1>1
<1>4. Fit(k, D)
  BY FetchFits
<1>5. Fit(r.m, D)
  <2>1. r = Emulate(k, t)
    BY Dispatch
  <2>2. Retriable(D, k, t)
    BY <1>4, EmulateIsRetriable
  <2>3. Follows(D, k, r, Emulate(Full(k), t))
    BY <2>1, <2>2 DEF Retriable
  <2> QED BY <2>3 DEF Follows
<1>6. Kept(D, r.m, userMode, t.list, j)
  BY <1>2, <1>5, LosingFits
<1>7. f = PushPopRegisters(j, u)
  OBVIOUS
<1> HIDE DEF j, u
<1>8. /\ PushPopRegisters(j, u).ok
      /\ Recalled(k.p, Put(PushPopRegisters(j, u).m, 13, 0).p, t.extra, Reg(k, 14))
  BY <1>2, <1>3, <1>4, <1>6, PushComesBack
<1>9. Recalled(k.p, Put(m, 13, 0).p, t.extra, Reg(k, 14))
  BY <1>2, PopReturns
<1>10. Put(PushPopRegisters(j, u).m, 13, 0).p = Put(m, 13, 0).p
  BY <1>8, <1>9, RecalledIsOne
<1> QED BY <1>7, <1>8, <1>10

\* What a step has stored comes back, if it is the first run and succeeds.
CameBack ==
    LET t == last'.instruction
        q == Fetched(p)
    IN  pending = Nil /\ last' # Nil /\ last'.ok =>
          /\ t.format = "block" /\ ~t.load /\ {15, t.rn} \intersect t.list = {} =>
               LET undo == [t EXCEPT !.load = TRUE, !.up = (@ # t.writeBack),
                                     !.preindex = (@ # t.writeBack)]
                   bank == IF t.forceUser THEN userMode ELSE q.cpsr.mode
                   lost == [machine' EXCEPT !.p = Without(@, bank, t.list)]
               IN  BlockTransfer(lost, undo).m.p = q
          /\ t.format = "pushPop" /\ ~t.load =>
               LET lost   == [machine' EXCEPT !.p = Without(@, userMode, t.list)]
                   popped == PushPopRegisters(lost, [t EXCEPT !.load = TRUE])
                   back   == IF t.extra THEN Put(machine, 15, Reg(machine, 14))
                             ELSE [machine EXCEPT !.p = q]
               IN  popped.ok /\ Put(popped.m, 13, 0).p = Put(back, 13, 0).p

LEMMA StepsBringBack ==
    ASSUME Inv, Next
    PROVE  CameBack
<1>1. CASE RunARM
  <2>1. PICK t \in ARMInstructions : Runs(t)
    BY <1>1 DEF RunARM
  <2> DEFINE r == RunNextInstruction(machine, t)
             k == AfterFetch(machine)
  <2>2. t \in ARMFormats
    BY <2>1, GuestAssumption
  <2>3. Becomes(r.m) /\ last' = [instruction |-> t, ok |-> r.ok]
    BY <2>1 DEF Runs
  <2>4. PICK c \in Memories : Fit(machine, DOMAIN c) /\ Covers(DOMAIN c)
    BY MachineFits
  <2> DEFINE D == DOMAIN c
  <2>5. Fit(k, D) /\ k.p = Fetched(p)
    BY <2>4, FetchFits, MachineParts DEF AfterFetch, Fit
  <2>9. Fit(machine, D) /\ Covers(D)
    BY <2>4
  <2> HIDE DEF k, D
  <2>6. ASSUME r.ok, t.format = "block", ~t.load, {15, t.rn} \intersect t.list = {}
        PROVE  LET bank == IF t.forceUser THEN userMode ELSE Fetched(p).cpsr.mode
                   lost == [machine' EXCEPT !.p = Without(@, bank, t.list)]
               IN  BlockTransfer(lost, Undo(t)).m.p = Fetched(p)
    <3>1. r = BlockTransfer(k, t)
      <4>1. t \in [format : {"block"}, load : BOOLEAN, rn : Registers,
                   list : SUBSET Registers, preindex : BOOLEAN, up : BOOLEAN,
                   writeBack : BOOLEAN, forceUser : BOOLEAN]
        BY <2>2, <2>6 DEF ARMFormats
      <4>2. ~Skipped(machine, t)
        BY <4>1 DEF Skipped
      <4>3. r = IF ~Mapped(machine, PC(machine.p)) THEN Stop(machine) ELSE Emulate(k, t)
        BY <4>2, RunParts DEF k
      <4>4. r = Emulate(k, t)
        BY <2>6, <4>3 DEF Stop
      <4> QED BY <2>6, <4>4 DEF Emulate
    <3>2. Fit(r.m, D)
      <4>1. Follows(D, k, r, Emulate(Full(k), t))
        <5>1. r = Emulate(k, t)
          BY <2>6, <3>1 DEF Emulate
        <5> QED BY <2>2, <2>5, <2>9, <5>1, EmulateIsRetriable DEF Retriable
      <4> QED BY <4>1 DEF Follows
    <3>3. machine' = r.m
      <4> HIDE DEF r
      <4> QED BY <2>3, <3>2, SoundMachine DEF D
    <3> HIDE DEF r
    <3>4. BlockTransfer(Lost(r.m, BlockBank(k.p, t), t.list), Undo(t)).m.p = k.p
      BY <2>2, <2>5, <2>6, <2>9, <3>1, BlockUndone
    <3>5. BlockBank(k.p, t) = IF t.forceUser THEN userMode ELSE Fetched(p).cpsr.mode
      BY <2>5, <2>6 DEF BlockBank
    <3> QED BY <2>5, <3>3, <3>4, <3>5 DEF Lost
  <2>7. t.format # "pushPop"
    BY <2>2 DEF ARMFormats
  <2> HIDE DEF r
  <2>8. last'.instruction = t /\ last'.ok = r.ok
    BY <2>3
  <2> QED BY <2>6, <2>7, <2>8 DEF CameBack, Undo
<1>2. CASE RunTHUMB
  <2>1. PICK t \in THUMBInstructions : Runs(t)
    BY <1>2 DEF RunTHUMB
  <2> DEFINE r == RunNextInstruction(machine, t)
             k == AfterFetch(machine)
  <2>2. t \in THUMBFormats
    BY <2>1, GuestAssumption
  <2>3. Becomes(r.m) /\ last' = [instruction |-> t, ok |-> r.ok]
    BY <2>1 DEF Runs
  <2>4. PICK c \in Memories : Fit(machine, DOMAIN c) /\ Covers(DOMAIN c)
    BY MachineFits
  <2> DEFINE D == DOMAIN c
  <2>5. Fit(k, D) /\ k = [machine EXCEPT !.p = Fetched(p)]
    BY <2>4, FetchFits, MachineParts DEF AfterFetch
  <2>9. Fit(machine, D) /\ Covers(D)
    BY <2>4
  <2>10. k = AfterFetch(machine)
    OBVIOUS
  <2> HIDE DEF k, D
  <2>6. ASSUME r.ok, t.format = "pushPop", ~t.load
        PROVE  LET lost   == [machine' EXCEPT !.p = Without(@, userMode, t.list)]
                   popped == PushPopRegisters(lost, [t EXCEPT !.load = TRUE])
                   back   == IF t.extra THEN Put(machine, 15, Reg(machine, 14))
                             ELSE [machine EXCEPT !.p = Fetched(p)]
               IN  popped.ok /\ Put(popped.m, 13, 0).p = Put(back, 13, 0).p
    <3>1. r = Emulate(k, t)
      <4>1. ~Skipped(machine, t)
        BY <2>2 DEF THUMBFormats, Skipped
      <4>2. r = IF ~Mapped(machine, PC(machine.p)) THEN Stop(machine) ELSE Emulate(k, t)
        BY <4>1, RunParts DEF k
      <4> QED BY <2>6, <4>2 DEF Stop
    <3>2. Fit(r.m, D)
      <4>1. Follows(D, k, r, Emulate(Full(k), t))
        BY <2>2, <2>5, <2>9, <3>1, EmulateIsRetriable DEF Retriable
      <4> QED BY <4>1 DEF Follows
    <3>3. machine' = r.m
      <4> HIDE DEF r
      <4> QED BY <2>3, <3>2, SoundMachine DEF D
    <3>4. r = PushPopRegisters(k, t)
      BY <2>6, <3>1, Dispatch
    <3> HIDE DEF r
    <3> DEFINE g == machine
               f == PushPopRegisters(Lost(r.m, userMode, t.list), [t EXCEPT !.load = TRUE])
               m == IF t.extra THEN Put(g, 15, Reg(g, 14)) ELSE k
    <3>5. f.ok /\ Put(f.m, 13, 0).p = Put(m, 13, 0).p
      <4>1. Fit(g, D) /\ k = AfterFetch(g)
        BY <2>9, <2>10
      <4> HIDE DEF g
      <4> QED BY <2>2, <2>6, <2>9, <3>4, <4>1, PushUndone
    <3> QED BY <2>5, <3>3, <3>5 DEF Lost
  <2>7. t.format # "block"
    BY <2>2 DEF THUMBFormats
  <2> HIDE DEF r
  <2>8. last'.instruction = t /\ last'.ok = r.ok
    BY <2>3
  <2> QED BY <2>6, <2>7, <2>8 DEF CameBack
<1>3. CASE MapPage
  BY <1>3 DEF MapPage, CameBack
<1>4. CASE Retry
  BY <1>4 DEF Retry, CameBack
<1>5. CASE UnmapPage \/ AddCoprocessor \/ HostIRQ \/ HandlerReturns
  BY <1>5 DEF UnmapPage, AddCoprocessor, HostIRQ, HandlerReturns, CameBack
<1> QED BY <1>1, <1>2, <1>3, <1>4, <1>5 DEF Next, Host

-----------------------------------------------------------------------------

\* What a guest that moves data reaches is typed, has a defined mode and keeps
\* for a pending instruction the machine it will end in.
THEOREM TransfersInvariant == Spec => []Inv
<1> USE InitIsSound, StepsKeepInv
<1> QED BY PTL DEF Spec

\* TypeOK: loads, stores, blocks, multiplies, coprocessor transfers and their
\* faults, with whatever the host does in between, leave typed registers, words
\* in memory and pages the host may map.
THEOREM TransfersTypeCorrect == Spec => []TypeOK
<1>1. Inv => TypeOK
  BY DEF Inv
<1> QED BY <1>1, TransfersInvariant, PTL

\* RetriesAreInvisible: an instruction that failed for want of memory, once it
\* succeeds, leaves what it would have left had the pages always been there.
THEOREM RetriesLeaveNoTrace == Spec => RetriesAreInvisible
<1>1. ASSUME Inv, [Next]_vars
      PROVE  [Retry /\ last'.ok /\ Restartable(pending.instruction)
                => /\ p' = pending.goal.p
                   /\ cells' = pending.goal.cells
                   /\ coprocessors' = pending.goal.coprocessors]_vars
  BY <1>1, RetryArrives
<1> QED BY <1>1, TransfersInvariant, PTL DEF Spec, RetriesAreInvisible

\* CallsArrive: the two halves of a THUMB bl jump to the target and leave the
\* return address whatever comes between them, for any offsets and any pc.
THEOREM EveryCallArrives == Spec => CallsArrive
<1>1. Init => Ongoing
  BY DEF Init, Ongoing
<1>2. ASSUME Inv, Ongoing, [Next]_vars
      PROVE  Ongoing'
  <2>1. CASE Next
    BY <1>2, <2>1, StepsKeepCalls
  <2>2. CASE UNCHANGED vars
    BY <1>2, <2>2 DEF vars, Ongoing
  <2> QED BY <1>2, <2>1, <2>2
<1>3. ASSUME Inv, Ongoing, [Next]_vars
      PROVE  [Arriving]_vars
  BY <1>3, StepsKeepCalls
<1>4. [Arriving]_vars =>
        [LET t     == last'.instruction
             half  == 2^BranchBits
             both  == call.offset * half + t.offset
             jump  == IF 2 * call.offset >= half THEN both - half * half ELSE both
             after == (call.pc + 4) % WordSpace
         IN  /\ last' # Nil /\ last'.ok /\ call # Nil
             /\ t.format = "branchLow" /\ p.cpsr.mode = call.mode
             => /\ PC(p') = (call.pc + 4 + 2 * jump) % WordSpace
                /\ GetRegister(p', 14).value = (after + 1 - (after % 2)) % WordSpace
                /\ p'.cpsr = p.cpsr]_vars
  BY Zenon DEF Arriving, Arrived, Target
<1> QED BY <1>1, <1>2, <1>3, <1>4, TransfersInvariant, PTL DEF Spec, CallsArrive

\* BlocksAscend: a ldm or stm, in any addressing mode and with any base, list and
\* S bit, moves its lowest register to or from its lowest address, also where the
\* block wraps around the end of the memory.
THEOREM EveryBlockAscends == Spec => BlocksAscend
<1>1. ASSUME Inv, [Next]_vars
      PROVE  [BlockMoved]_vars
  BY <1>1, StepsMoveBlocks
<1>2. [BlockMoved]_vars =>
        [LET t == last'.instruction
         IN  pending = Nil /\ last' # Nil /\ last'.ok /\ t.format = "block" =>
               LET q      == Fetched(p)
                   base   == GetRegister(q, t.rn).value
                   lowest == IF t.up THEN base + (IF t.preindex THEN 4 ELSE 0)
                             ELSE base - 4 * Cardinality(t.list)
                                       + (IF t.preindex THEN 0 ELSE 4)
                   bank   == IF t.forceUser /\ ~(t.load /\ 15 \in t.list)
                               THEN userMode ELSE q.cpsr.mode
               IN  \A n \in t.list :
                     LET below == Cardinality({k \in t.list : k < n})
                         cell  == Cell((lowest + 4 * below) % WordSpace)
                         slot  == RegisterSlot(bank, n)
                     IN  IF t.load THEN p'.regs[slot] = cells[cell]
                         ELSE cells'[cell] = q.regs[slot]]_vars
  BY Zenon DEF BlockMoved, Ascended, BlockBank, CellOf, Lowest, Below
<1> QED BY <1>1, <1>2, TransfersInvariant, PTL DEF Spec, BlocksAscend

\* LongMultipliesAreExact: a long multiply leaves in its pair the product of its
\* operands, as numbers with or without a sign, and the sum with what was there,
\* unless two words cannot hold it; N and Z are those of the pair.
THEOREM LongMultipliesKeepEveryBit == Spec => LongMultipliesAreExact
<1>1. ASSUME Inv, [Next]_vars
      PROVE  [Multiplied]_vars
  BY <1>1, StepsMultiply
<1>2. [Multiplied]_vars =>
        [LET t     == last'.instruction
             value(n) == LET x == GetRegister(p, n).value
                         IN  IF t.signed THEN Barrel!Signed(x) ELSE x
             exact == value(t.rm) * value(t.rs) + (IF t.accumulate THEN Pair(p, t) ELSE 0)
             least == IF t.signed THEN -((WordSpace * WordSpace) \div 2) ELSE 0
         IN  last' # Nil /\ last'.ok /\ t.format = "longMultiply" =>
               /\ exact \in least .. (least + WordSpace * WordSpace - 1)
                    => Pair(p', t) = exact
               /\ t.s => /\ p'.cpsr.z = (Pair(p', t) = 0)
                         /\ p'.cpsr.n = Barrel!Sign(GetRegister(p', t.rdHigh).value)]_vars
  <2>1. \A t : (IF t.accumulate THEN Pair(p, t) ELSE 0)
                 = (IF t.accumulate
                      THEN Value(t, GetRegister(p, t.rdHigh).value) * WordSpace
                             + GetRegister(p, t.rdLow).value
                      ELSE 0)
    BY DEF Pair, Value
  <2> QED BY <2>1, Zenon DEF Multiplied, Exactly, Value
<1> QED BY <1>1, <1>2, TransfersInvariant, PTL DEF Spec, LongMultipliesAreExact

\* THUMBTransfersMatchARM: a THUMB load, store, push, pop, ldmia or stmia does to
\* registers and memory what the ARM instruction does that it abbreviates, also
\* where it fails half-way, for all registers, lists, offsets and pages.
THEOREM THUMBTransfersAreARM == Spec => THUMBTransfersMatchARM
<1>1. ASSUME Inv, [Next]_vars
      PROVE  [TwinRan]_vars
  BY <1>1, StepsMatchTwins
<1>2. [TwinRan]_vars =>
        [LET t    == last'.instruction
             twin == Twin([machine EXCEPT !.p = Fetched(p)], t)
         IN  /\ pending = Nil /\ last' # Nil
             /\ Mapped(machine, PC(p)) /\ t.format \in Twinned /\ Restartable(t)
             => /\ twin.ok = last'.ok
                /\ twin.ok \/ t.format # "pcRelative" => twin.m = machine']_vars
  BY Zenon DEF TwinRan
<1> QED BY <1>1, <1>2, TransfersInvariant, PTL DEF Spec, THUMBTransfersMatchARM

\* StoresComeBack: an ldm gets back what the stm it undoes has stored, with the
\* base of both, and a THUMB pop what a push has stored, returning to the lr, for
\* all registers, lists, addressing modes and pages.
THEOREM EveryStoreComesBack == Spec => StoresComeBack
<1>1. ASSUME Inv, [Next]_vars
      PROVE  [CameBack]_vars
  BY <1>1, StepsBringBack
<1>2. [CameBack]_vars =>
        [LET t == last'.instruction
             q == Fetched(p)
         IN  pending = Nil /\ last' # Nil /\ last'.ok =>
               /\ t.format = "block" /\ ~t.load /\ {15, t.rn} \intersect t.list = {} =>
                    LET undo == [t EXCEPT !.load = TRUE, !.up = (@ # t.writeBack),
                                          !.preindex = (@ # t.writeBack)]
                        bank == IF t.forceUser THEN userMode ELSE q.cpsr.mode
                        lost == [machine' EXCEPT !.p = Without(@, bank, t.list)]
                    IN  BlockTransfer(lost, undo).m.p = q
               /\ t.format = "pushPop" /\ ~t.load =>
                    LET lost   == [machine' EXCEPT !.p = Without(@, userMode, t.list)]
                        popped == PushPopRegisters(lost, [t EXCEPT !.load = TRUE])
                        back   == IF t.extra THEN Put(machine, 15, Reg(machine, 14))
                                  ELSE [machine EXCEPT !.p = q]
                    IN  popped.ok /\ Put(popped.m, 13, 0).p = Put(back, 13, 0).p]_vars
  BY Zenon DEF CameBack
<1> QED BY <1>1, <1>2, TransfersInvariant, PTL DEF Spec, StoresComeBack
=============================================================================
