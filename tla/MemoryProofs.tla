----------------------------- MODULE MemoryProofs ----------------------------
(***************************************************************************)
(* Proofs that the page tables are an array of bytes, for any size of page *)
(* that is a multiple of four and any number of tables.                    *)
(***************************************************************************)
EXTENDS Memory, TLAPS

-----------------------------------------------------------------------------
\* Quotients

LEMMA Multiples ==
    ASSUME NEW d \in Nat \ {0}, NEW x \in Int, NEW y \in Int, x < y
    PROVE  x * d + d <= y * d
<1>1. \A z \in Nat : z * d >= 0
  OBVIOUS
<1>2. (y - x - 1) * d >= 0
  BY <1>1
<1>3. (y - x - 1) * d = y * d - x * d - d
  OBVIOUS
<1> QED BY <1>2, <1>3

LEMMA Division ==
    ASSUME NEW a \in Nat, NEW d \in Nat \ {0}
    PROVE  \E q \in Nat, r \in 0 .. (d - 1) :
              q = a \div d /\ r = a % d /\ a = q * d + r
<1>1. PICK q \in Int, r \in 0 .. (d - 1) : q = a \div d /\ r = a % d
  OBVIOUS
<1>2. a = q * d + r
  BY <1>1
<1>3. ~(q < 0)
  BY <1>2, Multiples
<1>4. q \in Nat
  BY <1>3
<1> WITNESS q \in Nat, r \in 0 .. (d - 1)
<1> QED BY <1>1, <1>2

LEMMA DivisionUnique ==
    ASSUME NEW d \in Nat \ {0}, NEW q \in Nat, NEW r \in 0 .. (d - 1),
           NEW a, a = q * d + r
    PROVE  a \in Nat /\ a \div d = q /\ a % d = r
<1>1. a \in Nat
  OBVIOUS
<1>2. PICK x \in Nat, y \in 0 .. (d - 1) :
        x = a \div d /\ y = a % d /\ a = x * d + y
  BY <1>1, Division
<1>3. ~(x < q)
  BY <1>2, Multiples
<1>4. ~(q < x)
  BY <1>2, Multiples
<1>5. x = q /\ y = r
  BY <1>2, <1>3, <1>4
<1> QED BY <1>1, <1>2, <1>5

-----------------------------------------------------------------------------
\* Addresses: table, page in the table, offset in the page

At(t, i, o) == (t * PagesPerTable + i) * PageSize + o

LEMMA Sizes ==
    /\ PageSize \in Nat \ {0} /\ PagesPerTable \in Nat \ {0} /\ Tables \in Nat \ {0}
    /\ TableSize \in Nat \ {0} /\ AddressSpace \in Nat \ {0}
    /\ PageSize >= 4 /\ AddressSpace >= PageSize
    /\ \E k \in Nat \ {0} : PageSize = 4 * k
<1>1. /\ PageSize \in Nat \ {0} /\ PagesPerTable \in Nat \ {0}
      /\ Tables \in Nat \ {0} /\ PageSize % 4 = 0
  BY MemoryAssumption
<1>2. \A x, y \in Nat \ {0} : x * y \in Nat \ {0} /\ x * y >= y
  <2> SUFFICES ASSUME NEW x \in Nat \ {0}, NEW y \in Nat \ {0}
               PROVE  x * y \in Nat \ {0} /\ x * y >= y
    OBVIOUS
  <2>1. 0 * y + y <= x * y
    BY Multiples
  <2> QED BY <2>1
<1>3. TableSize \in Nat \ {0}
  BY <1>1, <1>2 DEF TableSize
<1>4. Tables * PagesPerTable \in Nat \ {0}
  BY <1>1, <1>2
<1>5. AddressSpace \in Nat \ {0} /\ AddressSpace >= PageSize
  BY <1>1, <1>2, <1>4 DEF AddressSpace
<1>6. ASSUME NEW k, k = PageSize \div 4
      PROVE  k \in Nat \ {0} /\ PageSize = 4 * k
  BY <1>1, <1>6
<1>7. \E k \in Nat \ {0} : PageSize = 4 * k
  BY <1>6
<1>8. PageSize >= 4
  BY <1>1, <1>7
<1> QED BY <1>1, <1>3, <1>5, <1>7, <1>8

LEMMA Places ==
    ASSUME NEW t \in 0 .. (Tables - 1), NEW i \in 0 .. (PagesPerTable - 1),
           NEW o \in Offsets, NEW a, a = At(t, i, o)
    PROVE  /\ a \in Address
           /\ Level2(a) = t /\ Level1(a) = i /\ Offset(a) = o
           /\ a \div PageSize = t * PagesPerTable + i
<1> DEFINE n == t * PagesPerTable + i
<1>1. /\ PageSize \in Nat \ {0} /\ PagesPerTable \in Nat \ {0} /\ Tables \in Nat \ {0}
      /\ TableSize \in Nat \ {0} /\ AddressSpace \in Nat \ {0}
  BY Sizes
<1>2. n \in Nat /\ n < Tables * PagesPerTable
  <2>1. t * PagesPerTable + PagesPerTable <= Tables * PagesPerTable
    BY <1>1, Multiples
  <2>2. t * PagesPerTable \in Nat
    BY <1>1
  <2> QED BY <1>1, <2>1, <2>2
<1>3. n \div PagesPerTable = t /\ n % PagesPerTable = i
  <2>1. t \in Nat
    BY <1>1
  <2> QED BY <1>1, <2>1, DivisionUnique
<1>4. i * PageSize + o \in 0 .. (TableSize - 1)
  <2>1. i * PageSize + PageSize <= PagesPerTable * PageSize
    BY <1>1, Multiples
  <2>2. i * PageSize \in Nat
    BY <1>1
  <2> QED BY <1>1, <2>1, <2>2 DEF Offsets, TableSize
<1>5. a = t * TableSize + (i * PageSize + o)
  BY <1>1 DEF At, TableSize, Offsets
<1>6. a \div TableSize = t
  <2>1. t \in Nat
    BY <1>1
  <2> QED BY <1>1, <1>4, <1>5, <2>1, DivisionUnique
<1>7. a = n * PageSize + o
  BY DEF At
<1> HIDE DEF n
<1>8. a \in Nat /\ a \div PageSize = n /\ a % PageSize = o
  BY <1>1, <1>2, <1>7, DivisionUnique DEF Offsets
<1>9. a < AddressSpace
  <2>1. Tables * PagesPerTable \in Int
    BY <1>1
  <2>2. n * PageSize + PageSize <= (Tables * PagesPerTable) * PageSize
    BY <1>1, <1>2, <2>1, Multiples
  <2>3. n * PageSize \in Nat
    BY <1>1, <1>2
  <2> QED BY <1>1, <1>7, <2>2, <2>3 DEF AddressSpace, Offsets
<1> QED BY <1>1, <1>3, <1>6, <1>8, <1>9 DEF Address, Level2, Level1, Offset, n

LEMMA Place ==
    ASSUME NEW a \in Address,
           NEW t, t = Level2(a), NEW i, i = Level1(a), NEW o, o = Offset(a)
    PROVE  /\ t \in 0 .. (Tables - 1) /\ i \in 0 .. (PagesPerTable - 1)
           /\ o \in Offsets
           /\ a = At(t, i, o)
           /\ a \div PageSize = t * PagesPerTable + i
<1>1. /\ PageSize \in Nat \ {0} /\ PagesPerTable \in Nat \ {0} /\ Tables \in Nat \ {0}
      /\ AddressSpace \in Nat \ {0}
  BY Sizes
<1>2. a \in Nat /\ a < AddressSpace
  BY <1>1 DEF Address
<1>3. PICK q \in Nat, r \in 0 .. (PageSize - 1) :
        r = a % PageSize /\ a = q * PageSize + r
  BY <1>1, <1>2, Division
<1>4. q < Tables * PagesPerTable
  <2> DEFINE m == Tables * PagesPerTable
  <2>1. m \in Int /\ AddressSpace = m * PageSize
    BY <1>1 DEF AddressSpace
  <2> HIDE DEF m
  <2>2. CASE q = m
    BY <1>1, <1>2, <1>3, <2>1, <2>2
  <2>3. CASE m < q
    <3>1. m * PageSize + PageSize <= q * PageSize
      BY <1>1, <2>1, <2>3, Multiples
    <3>2. m * PageSize \in Int /\ q * PageSize \in Int
      BY <1>1, <2>1
    <3> QED BY <1>1, <1>2, <1>3, <2>1, <3>1, <3>2
  <2>4. CASE q < m
    BY <2>4 DEF m
  <2> QED BY <2>1, <2>2, <2>3, <2>4
<1>5. PICK u \in Nat, j \in 0 .. (PagesPerTable - 1) : q = u * PagesPerTable + j
  <2>1. \E u \in Nat, j \in 0 .. (PagesPerTable - 1) :
          u = q \div PagesPerTable /\ j = q % PagesPerTable /\ q = u * PagesPerTable + j
    <3>1. q \in Nat /\ PagesPerTable \in Nat \ {0}
      BY <1>1
    <3> QED BY <3>1, Division, Zenon
  <2> QED BY <2>1
<1>6. u < Tables
  <2>1. CASE u = Tables
    BY <1>1, <1>4, <1>5, <2>1
  <2>2. CASE Tables < u
    <3>1. Tables * PagesPerTable + PagesPerTable <= u * PagesPerTable
      BY <1>1, <2>2, Multiples
    <3>2. Tables * PagesPerTable \in Int /\ u * PagesPerTable \in Int
      BY <1>1
    <3> QED BY <1>1, <1>4, <1>5, <3>1, <3>2
  <2> QED BY <1>1, <2>1, <2>2
<1>7. u \in 0 .. (Tables - 1) /\ o \in Offsets /\ a = At(u, j, o)
  BY <1>1, <1>3, <1>5, <1>6 DEF Offset, Offsets, At
<1>8. /\ Level2(a) = u /\ Level1(a) = j
      /\ a \div PageSize = u * PagesPerTable + j
  BY <1>7, Places
<1> QED BY <1>7, <1>8

-----------------------------------------------------------------------------
\* Alignment

Widths == {1, 2, 4}

LEMMA Aligned ==
    ASSUME NEW x \in Nat, NEW w \in Widths, NEW y, y = Align(x, w)
    PROVE  /\ y \in Nat /\ y <= x /\ x <= y + w - 1 /\ y % w = 0
           /\ \A z \in y .. (y + w - 1) : Align(z, w) = y
           /\ \A m \in Nat : Align(4 * m + x, w) = 4 * m + y
           /\ \A m \in Nat : x < 4 * m => y + w - 1 < 4 * m
<1>1. CASE w = 1
  BY <1>1 DEF Align
<1>2. CASE w = 2
  BY <1>2 DEF Align
<1>3. CASE w = 4
  BY <1>3 DEF Align
<1> QED BY <1>1, <1>2, <1>3 DEF Widths

\* An aligned group of bytes lies in one page.
LEMMA AlignedPlace ==
    ASSUME NEW a \in Address, NEW w \in Widths,
           NEW base, base = Align(a, w), NEW f, f = Align(Offset(a), w)
    PROVE  /\ f \in Nat /\ f + w - 1 \in Offsets
           /\ base = At(Level2(a), Level1(a), f)
           /\ base \in Nat /\ base % w = 0
<1>1. PICK t \in 0 .. (Tables - 1), i \in 0 .. (PagesPerTable - 1), o \in Offsets :
        /\ t = Level2(a) /\ i = Level1(a) /\ o = Offset(a)
        /\ a = At(t, i, o)
  BY Place
<1>2. PICK k \in Nat \ {0} : PageSize = 4 * k
  BY Sizes
<1>3. t \in Nat /\ i \in Nat /\ o \in Nat /\ o < 4 * k /\ PagesPerTable \in Nat
  BY <1>2, Sizes DEF Offsets
<1> DEFINE m == (t * PagesPerTable + i) * k
<1>4. m \in Nat /\ (t * PagesPerTable + i) * PageSize = 4 * m
  <2>1. t * PagesPerTable + i \in Nat
    BY <1>3
  <2> QED BY <1>2, <2>1
<1>5. a = 4 * m + o
  BY <1>1, <1>4 DEF At
<1>6. At(t, i, f) = 4 * m + f
  BY <1>4 DEF At
<1> HIDE DEF m
<1>7. /\ f \in Nat /\ f + w - 1 < 4 * k
      /\ Align(4 * m + o, w) = 4 * m + f
  BY <1>1, <1>3, <1>4, Aligned
<1>8. base \in Nat /\ base % w = 0
  <2>1. a \in Nat
    BY <1>3, <1>4, <1>5
  <2> QED BY <2>1, Aligned
<1>9. f + w - 1 \in Offsets
  BY <1>2, <1>7 DEF Offsets, Widths
<1> QED BY <1>1, <1>5, <1>6, <1>7, <1>8, <1>9

\* The bytes of the group, from the address.
LEMMA GroupPlace ==
    ASSUME NEW a \in Address, NEW w \in Widths, NEW base, base = Align(a, w),
           NEW k \in 0 .. (w - 1), NEW b, b = base + k
    PROVE  /\ b \in Address /\ Level2(b) = Level2(a) /\ Level1(b) = Level1(a)
           /\ Offset(b) = Align(Offset(a), w) + k
           /\ Align(b, w) = base
<1>1. PICK f : f = Align(Offset(a), w)
  OBVIOUS
<1>2. /\ f \in Nat /\ f + w - 1 \in Offsets
      /\ base = At(Level2(a), Level1(a), f) /\ base \in Nat
  BY <1>1, AlignedPlace
<1>3. PICK t \in 0 .. (Tables - 1), i \in 0 .. (PagesPerTable - 1) :
        t = Level2(a) /\ i = Level1(a)
  BY Place
<1>4. f + k \in Offsets /\ k \in Nat
  BY <1>2, Sizes DEF Offsets, Widths
<1>5. b = At(t, i, f + k)
  <2>1. (t * PagesPerTable + i) * PageSize \in Int
    BY <1>3, Sizes
  <2> QED BY <1>2, <1>3, <1>4, <2>1 DEF At
<1>6. b \in Address /\ Level2(b) = t /\ Level1(b) = i /\ Offset(b) = f + k
  BY <1>4, <1>5, Places
<1>7. Align(b, w) = base
  <2>1. a \in Nat
    BY Sizes DEF Address
  <2>2. b \in base .. (base + w - 1)
    BY <1>2, <1>4 DEF Widths
  <2> QED BY <2>1, <2>2, Aligned
<1> QED BY <1>1, <1>3, <1>6, <1>7

\* The bytes of the group, from their offsets in the page.
LEMMA SamePage ==
    ASSUME NEW a \in Address, NEW w \in Widths, NEW base, base = Align(a, w),
           NEW f, f = Align(Offset(a), w),
           NEW b \in Address, Level2(b) = Level2(a), Level1(b) = Level1(a)
    PROVE  /\ Offset(b) - f = b - base
           /\ Offset(b) \in f .. (f + w - 1) <=> b \in base .. (base + w - 1)
<1>1. /\ f \in Nat /\ base = At(Level2(a), Level1(a), f) /\ base \in Nat
  BY AlignedPlace
<1>2. PICK t \in 0 .. (Tables - 1), i \in 0 .. (PagesPerTable - 1), o \in Offsets :
        /\ t = Level2(b) /\ i = Level1(b) /\ o = Offset(b)
        /\ b = At(t, i, o)
  BY Place
<1>3. (t * PagesPerTable + i) * PageSize \in Int /\ o \in Int /\ b \in Int
  BY <1>2, Sizes DEF Offsets, Address
<1>4. o - f = b - base
  BY <1>1, <1>2, <1>3 DEF At
<1>5. o \in f .. (f + w - 1) <=> b \in base .. (base + w - 1)
  <2>1. w \in Nat
    BY DEF Widths
  <2>2. o = b - base + f
    BY <1>1, <1>3, <1>4
  <2> QED BY <1>1, <1>3, <2>1, <2>2
<1> QED BY <1>2, <1>4, <1>5

-----------------------------------------------------------------------------
\* Pages

\* The page of the table t at i, in the top-level table memory.
Cell(memory, t, i) == IF memory[t] = Nil THEN Nil ELSE memory[t][i]

Memories == [0 .. (Tables - 1) -> Table \union {Nil}]

LEMMA CellType ==
    ASSUME NEW memory \in Memories, NEW t \in 0 .. (Tables - 1),
           NEW i \in 0 .. (PagesPerTable - 1)
    PROVE  Cell(memory, t, i) \in Page \union {Nil}
BY DEF Cell, Memories, Table

\* A page is read at its own bytes.
LEMMA ContentAt ==
    ASSUME NEW memory \in Memories, NEW a \in Address
    PROVE  /\ ContainingPage(memory, a) = Cell(memory, Level2(a), Level1(a))
           /\ ContainingPage(memory, a) \in Page \union {Nil}
           /\ MappedAt(memory, a) => /\ ContainingPage(memory, a) \in Page
                                     /\ Content(memory)[a] \in Byte
                                     /\ Content(memory)[a] # Nil
                                     /\ Content(memory)[a] =
                                          ContainingPage(memory, a)[Offset(a)]
           /\ ~MappedAt(memory, a) => Content(memory)[a] = Nil
<1>1. /\ Level2(a) \in 0 .. (Tables - 1) /\ Level1(a) \in 0 .. (PagesPerTable - 1)
      /\ Offset(a) \in Offsets
  BY Place
<1>2. ContainingPage(memory, a) = Cell(memory, Level2(a), Level1(a))
  BY DEF ContainingPage, Cell
<1>3. ContainingPage(memory, a) \in Page \union {Nil}
  BY <1>1, <1>2, CellType
<1>4. Content(memory)[a] = IF MappedAt(memory, a)
                             THEN ContainingPage(memory, a)[Offset(a)] ELSE Nil
  BY DEF Content
<1>5. ASSUME NEW q \in Page PROVE q[Offset(a)] \in Byte
  BY <1>1 DEF Page
<1>6. Nil \notin Byte
  BY MemoryAssumption
<1> HIDE DEF ContainingPage, Content
<1>7. MappedAt(memory, a) => ContainingPage(memory, a) \in Page
  BY <1>3 DEF MappedAt
<1> QED BY <1>2, <1>3, <1>4, <1>5, <1>6, <1>7

-----------------------------------------------------------------------------
\* Reading

LEMMA Orders ==
    ASSUME isBigEndian \in BOOLEAN, NEW w \in Widths, NEW k \in 0 .. (w - 1)
    PROVE  Order(k, w) \in 0 .. (w - 1) /\ Order(Order(k, w), w) = k
BY DEF Order, Widths

\* The bytes of a group are mapped together.
LEMMA MappedTogether ==
    ASSUME NEW memory, NEW a \in Address, NEW w \in Widths,
           NEW k \in 0 .. (w - 1), NEW b, b = Align(a, w) + k
    PROVE  /\ b \in Address
           /\ ContainingPage(memory, b) = ContainingPage(memory, a)
           /\ MappedAt(memory, b) <=> MappedAt(memory, a)
<1>1. b \in Address /\ Level2(b) = Level2(a) /\ Level1(b) = Level1(a)
  BY GroupPlace
<1> QED BY <1>1 DEF MappedAt, ContainingPage

LEMMA BaseMapped ==
    ASSUME NEW memory, NEW a \in Address, NEW w \in Widths
    PROVE  /\ Align(a, w) \in Address
           /\ ContainingPage(memory, Align(a, w)) = ContainingPage(memory, a)
           /\ Offset(Align(a, w)) = Align(Offset(a), w)
<1>1. PICK b : b = Align(a, w)
  OBVIOUS
<1>2. b \in Nat /\ 0 \in 0 .. (w - 1) /\ b = Align(a, w) + 0
  BY <1>1, AlignedPlace DEF Widths
<1>3. b \in Address /\ ContainingPage(memory, b) = ContainingPage(memory, a)
  BY <1>2, MappedTogether
<1>4. Offset(b) = Align(Offset(a), w) + 0
  BY <1>2, GroupPlace
<1>5. Align(Offset(a), w) \in Nat
  BY AlignedPlace
<1>6. Align(Offset(a), w) + 0 = Align(Offset(a), w)
  BY <1>5
<1> QED BY <1>1, <1>3, <1>4, <1>6

LEMMA ReadsContent ==
    ASSUME isBigEndian \in BOOLEAN, NEW memory \in Memories, NEW a \in Address,
           NEW w \in Widths
    PROVE  /\ Read(memory, a, w).ok <=> MappedAt(memory, a)
           /\ MappedAt(memory, a) =>
                Read(memory, a, w).value =
                  [k \in 0 .. (w - 1) |-> Content(memory)[Align(a, w) + Order(k, w)]]
<1> DEFINE x == Read(memory, a, w)
           base == Align(a, w)
           page == ContainingPage(memory, a)
<1>1. ContainingPage(memory, base) = page
  BY BaseMapped
<1>2. x = IF page = Nil THEN [ok |-> FALSE]
          ELSE [ok |-> TRUE,
                value |-> [k \in 0 .. (w - 1) |-> page[Offset(base) + Order(k, w)]]]
  BY <1>1 DEF Read
<1>3. ASSUME NEW k \in 0 .. (w - 1), MappedAt(memory, a)
      PROVE  page[Offset(base) + Order(k, w)] = Content(memory)[base + Order(k, w)]
  <2>1. PICK j \in 0 .. (w - 1) : j = Order(k, w)
    BY Orders
  <2>2. PICK b : b = base + j
    OBVIOUS
  <2>3. b \in Address /\ ContainingPage(memory, b) = page /\ MappedAt(memory, b)
    BY <1>3, <2>2, MappedTogether
  <2>4. Offset(b) = Align(Offset(a), w) + j
    BY <2>2, GroupPlace
  <2>5. Offset(base) = Align(Offset(a), w)
    BY BaseMapped
  <2>6. Content(memory)[b] = page[Offset(b)]
    BY <2>3, ContentAt
  <2> QED BY <2>1, <2>2, <2>4, <2>5, <2>6
<1> HIDE DEF base, page, x
<1>4. MappedAt(memory, a) <=> page # Nil
  BY DEF MappedAt, page
<1>5. CASE page = Nil
  BY <1>2, <1>4, <1>5 DEF x
<1>6. CASE page # Nil
  <2>1. x.ok /\ x.value = [k \in 0 .. (w - 1) |-> page[Offset(base) + Order(k, w)]]
    BY <1>2, <1>6
  <2>2. [k \in 0 .. (w - 1) |-> page[Offset(base) + Order(k, w)]]
          = [k \in 0 .. (w - 1) |-> Content(memory)[base + Order(k, w)]]
    BY <1>3, <1>4, <1>6
  <2> QED BY <1>4, <1>6, <2>1, <2>2 DEF base, x
<1> QED BY <1>5, <1>6

LEMMA ReadsByte ==
    ASSUME isBigEndian \in BOOLEAN, NEW memory \in Memories, NEW a \in Address,
           NEW w \in Widths, MappedAt(memory, a), NEW k \in 0 .. (w - 1)
    PROVE  Read(memory, a, w).value[k] = Content(memory)[Align(a, w) + Order(k, w)]
<1>1. Read(memory, a, w).value =
        [j \in 0 .. (w - 1) |-> Content(memory)[Align(a, w) + Order(j, w)]]
  BY ReadsContent, Zenon
<1> QED BY <1>1

\* A narrower read inside a word.
LEMMA ReadsPart ==
    ASSUME isBigEndian \in BOOLEAN, NEW memory \in Memories, NEW a \in Address,
           NEW w \in Widths, NEW b \in 0 .. 3, b % w = 0,
           NEW c, c = Align(a, 4) + b, NEW x, x = Read(memory, c, w)
    PROVE  /\ x.ok <=> MappedAt(memory, a)
           /\ x.ok => \A k \in 0 .. (w - 1) :
                         x.value[k] = Content(memory)[c + Order(k, w)]
<1>1. c \in Address /\ (MappedAt(memory, c) <=> MappedAt(memory, a))
  <2>1. 4 \in Widths /\ b \in 0 .. (4 - 1)
    BY DEF Widths
  <2> QED BY <2>1, MappedTogether
<1>2. Align(c, w) = c
  <2>1. PICK y : y = Align(a, 4)
    OBVIOUS
  <2>2. y \in Nat /\ y % 4 = 0
    BY <2>1, AlignedPlace DEF Widths
  <2>3. (y + b) % w = 0
    BY <2>2 DEF Widths
  <2> QED BY <2>1, <2>2, <2>3 DEF Align
<1>3. /\ x.ok <=> MappedAt(memory, c)
      /\ x.ok => \A k \in 0 .. (w - 1) :
                   x.value[k] = Content(memory)[Align(c, w) + Order(k, w)]
  <2>1. c \in Address
    BY <1>1
  <2>2. x.ok <=> MappedAt(memory, c)
    BY <2>1, ReadsContent
  <2>3. ASSUME MappedAt(memory, c), NEW k \in 0 .. (w - 1)
        PROVE  x.value[k] = Content(memory)[Align(c, w) + Order(k, w)]
    BY <2>1, <2>3, ReadsByte
  <2> QED BY <2>2, <2>3
<1> QED BY <1>1, <1>2, <1>3

LEMMA PartsAgree ==
    ASSUME isBigEndian \in BOOLEAN, pages \in Memories
    PROVE  WidthsAgree
<1> SUFFICES ASSUME NEW a \in Address,
                    NEW word, word = Read(pages, a, 4),
                    NEW h0, h0 = Read(pages, Align(a, 4) + 0, 2),
                    NEW h2, h2 = Read(pages, Align(a, 4) + 2, 2),
                    NEW low, low = IF isBigEndian THEN h2 ELSE h0,
                    NEW high, high = IF isBigEndian THEN h0 ELSE h2
             PROVE  /\ word.ok <=> low.ok /\ high.ok
                    /\ \A b \in 0 .. 3 :
                         Read(pages, Align(a, 4) + b, 1).ok <=> word.ok
                    /\ word.ok =>
                         /\ \A k \in {0, 1} : /\ word.value[k] = low.value[k]
                                              /\ word.value[k + 2] = high.value[k]
                         /\ \A b \in 0 .. 3 :
                              Read(pages, Align(a, 4) + b, 1).value[0]
                                = word.value[IF isBigEndian THEN 3 - b ELSE b]
  BY DEF WidthsAgree, ReadMemoryWord, ReadMemoryHalfword, ReadMemoryByte
<1>1. PICK base : base = Align(a, 4)
  OBVIOUS
<1>2. 1 \in Widths /\ 2 \in Widths /\ 4 \in Widths
  BY DEF Widths
<1>3. base \in Nat
  BY <1>1, <1>2, AlignedPlace
<1>4. /\ word.ok <=> MappedAt(pages, a)
      /\ word.ok => \A k \in 0 .. 3 :
                      word.value[k] = Content(pages)[base + Order(k, 4)]
  <2>1. /\ Read(pages, a, 4).ok <=> MappedAt(pages, a)
        /\ MappedAt(pages, a) => Read(pages, a, 4).value =
             [k \in 0 .. (4 - 1) |-> Content(pages)[Align(a, 4) + Order(k, 4)]]
    BY <1>2, ReadsContent, Zenon
  <2> QED BY <1>1, <2>1
<1>5. ASSUME NEW b \in {0, 2}, NEW x, x = Read(pages, base + b, 2)
      PROVE  /\ x.ok <=> MappedAt(pages, a)
             /\ x.ok => \A k \in 0 .. 1 :
                          x.value[k] = Content(pages)[base + b + Order(k, 2)]
  BY <1>1, <1>2, <1>5, ReadsPart
<1>6. ASSUME NEW b \in 0 .. 3, NEW x, x = Read(pages, base + b, 1)
      PROVE  /\ x.ok <=> MappedAt(pages, a)
             /\ x.ok => x.value[0] = Content(pages)[base + b]
  <2>1. Order(0, 1) = 0
    BY DEF Order
  <2>2. /\ x.ok <=> MappedAt(pages, a)
        /\ x.ok => \A k \in 0 .. 0 :
                     x.value[k] = Content(pages)[base + b + Order(k, 1)]
    BY <1>1, <1>2, <1>6, ReadsPart
  <2>3. base + b + 0 = base + b
    BY <1>3
  <2> QED BY <2>1, <2>2, <2>3
<1>7. /\ word.ok <=> low.ok /\ high.ok
      /\ \A b \in 0 .. 3 : Read(pages, Align(a, 4) + b, 1).ok <=> word.ok
  BY <1>1, <1>4, <1>5, <1>6
<1>8. ASSUME word.ok, NEW k \in {0, 1}
      PROVE  word.value[k] = low.value[k] /\ word.value[k + 2] = high.value[k]
  <2>1. /\ word.value[k] = Content(pages)[base + Order(k, 4)]
        /\ word.value[k + 2] = Content(pages)[base + Order(k + 2, 4)]
    BY <1>4, <1>8
  <2>2. /\ h0.value[k] = Content(pages)[base + 0 + Order(k, 2)]
        /\ h2.value[k] = Content(pages)[base + 2 + Order(k, 2)]
    BY <1>1, <1>4, <1>5, <1>8
  <2>3. CASE isBigEndian = TRUE
    <3>1. /\ base + Order(k, 4) = base + 2 + Order(k, 2)
          /\ base + Order(k + 2, 4) = base + 0 + Order(k, 2)
      BY <1>3, <2>3 DEF Order
    <3> QED BY <2>1, <2>2, <2>3, <3>1
  <2>4. CASE isBigEndian = FALSE
    <3>1. /\ base + Order(k, 4) = base + 0 + Order(k, 2)
          /\ base + Order(k + 2, 4) = base + 2 + Order(k, 2)
      BY <1>3, <2>4 DEF Order
    <3> QED BY <2>1, <2>2, <2>4, <3>1
  <2> QED BY <2>3, <2>4
<1>9. ASSUME word.ok, NEW b \in 0 .. 3
      PROVE  Read(pages, Align(a, 4) + b, 1).value[0]
                = word.value[IF isBigEndian THEN 3 - b ELSE b]
  <2>1. Read(pages, Align(a, 4) + b, 1).value[0] = Content(pages)[base + b]
    BY <1>1, <1>4, <1>6, <1>9
  <2>2. PICK k \in 0 .. 3 : k = IF isBigEndian THEN 3 - b ELSE b
    OBVIOUS
  <2>3. Order(k, 4) = b
    BY <2>2 DEF Order
  <2> QED BY <1>4, <1>9, <2>1, <2>2, <2>3
<1> QED BY <1>7, <1>8, <1>9

-----------------------------------------------------------------------------
\* Writing

\* The page of a after the write.
Written(memory, a, w, value) ==
    LET first == Align(Offset(a), w)
    IN  [o \in Offsets |-> IF o \in first .. (first + w - 1)
                            THEN value[Order(o - first, w)]
                            ELSE ContainingPage(memory, a)[o]]

LEMMA WrittenType ==
    ASSUME isBigEndian \in BOOLEAN, NEW memory \in Memories, NEW a \in Address,
           NEW w \in Widths, NEW value \in [0 .. 3 -> Byte], MappedAt(memory, a)
    PROVE  Written(memory, a, w, value) \in Page
<1>1. PICK first : first = Align(Offset(a), w)
  OBVIOUS
<1>2. first \in Nat
  BY <1>1, AlignedPlace
<1>3. ASSUME NEW o \in Offsets, o \in first .. (first + w - 1)
      PROVE  value[Order(o - first, w)] \in Byte
  <2>1. o - first \in 0 .. (w - 1)
    BY <1>2, <1>3 DEF Widths
  <2>2. Order(o - first, w) \in 0 .. 3
    BY <2>1, Orders DEF Widths
  <2> QED BY <2>2
<1>4. ContainingPage(memory, a) \in Page
  BY ContentAt
<1> QED BY <1>1, <1>3, <1>4 DEF Written, Page

\* One entry of one table changes.
LEMMA WriteCells ==
    ASSUME isBigEndian \in BOOLEAN, NEW memory \in Memories, NEW a \in Address,
           NEW w \in Widths, NEW value \in [0 .. 3 -> Byte], MappedAt(memory, a)
    PROVE  /\ Write(memory, a, w, value) \in Memories
           /\ \A t \in 0 .. (Tables - 1), i \in 0 .. (PagesPerTable - 1) :
                Cell(Write(memory, a, w, value), t, i) =
                  IF t = Level2(a) /\ i = Level1(a) THEN Written(memory, a, w, value)
                  ELSE Cell(memory, t, i)
<1>1. PICK u \in 0 .. (Tables - 1), j \in 0 .. (PagesPerTable - 1) :
        u = Level2(a) /\ j = Level1(a)
  BY Place
<1>2. PICK base : base = Align(a, w)
  OBVIOUS
<1>3. /\ ContainingPage(memory, base) = ContainingPage(memory, a)
      /\ Offset(base) = Align(Offset(a), w)
      /\ Level2(base) = u /\ Level1(base) = j
  <2>1. base \in Nat /\ 0 \in 0 .. (w - 1) /\ base = Align(a, w) + 0
    BY <1>2, AlignedPlace DEF Widths
  <2>2. Level2(base) = Level2(a) /\ Level1(base) = Level1(a)
    BY <2>1, GroupPlace
  <2> QED BY <1>1, <1>2, <2>2, BaseMapped
<1> DEFINE page == Written(memory, a, w, value)
<1>4. page \in Page
  BY WrittenType
<1>5. Write(memory, a, w, value) = [memory EXCEPT ![u][j] = page]
  BY <1>2, <1>3 DEF Write, Written
<1> HIDE DEF page
<1>6. memory[u] \in Table
  <2>1. memory[u] # Nil
    BY <1>1 DEF MappedAt, ContainingPage
  <2> QED BY <2>1 DEF Memories
<1>7. PICK new : new = [memory[u] EXCEPT ![j] = page]
  OBVIOUS
<1>8. new \in Table /\ new[j] = page
      /\ \A i \in 0 .. (PagesPerTable - 1) : i # j => new[i] = memory[u][i]
  BY <1>4, <1>6, <1>7 DEF Table
<1>9. PICK after : after = [memory EXCEPT ![u] = new]
  OBVIOUS
<1>10. Write(memory, a, w, value) = after
  BY <1>5, <1>7, <1>9
<1>11. after \in Memories /\ after[u] = new
       /\ \A t \in 0 .. (Tables - 1) : t # u => after[t] = memory[t]
  BY <1>8, <1>9 DEF Memories
<1>12. new # Nil /\ memory[u] # Nil
  <2>1. memory[u] # Nil
    BY <1>1 DEF MappedAt, ContainingPage
  <2> QED BY <1>8, <2>1, MemoryAssumption
<1>13. ASSUME NEW t \in 0 .. (Tables - 1), NEW i \in 0 .. (PagesPerTable - 1)
       PROVE  Cell(after, t, i) = IF t = u /\ i = j THEN page ELSE Cell(memory, t, i)
  BY <1>8, <1>11, <1>12 DEF Cell
<1> QED BY <1>1, <1>10, <1>11, <1>13 DEF page

\* What is mapped stays so, and the bytes of the group are the value's.
LEMMA WritesContent ==
    ASSUME isBigEndian \in BOOLEAN, NEW memory \in Memories, NEW a \in Address,
           NEW w \in Widths, NEW value \in [0 .. 3 -> Byte], MappedAt(memory, a),
           NEW after, after = Write(memory, a, w, value), NEW b \in Address,
           NEW base, base = Align(a, w)
    PROVE  /\ MappedAt(after, b) <=> MappedAt(memory, b)
           /\ b \in base .. (base + w - 1) =>
                /\ MappedAt(memory, b)
                /\ Content(after)[b] = value[Order(b - base, w)]
           /\ b \notin base .. (base + w - 1) =>
                Content(after)[b] = Content(memory)[b]
<1> DEFINE page == Written(memory, a, w, value)
           f == Align(Offset(a), w)
<1>1. /\ Level2(b) \in 0 .. (Tables - 1) /\ Level1(b) \in 0 .. (PagesPerTable - 1)
      /\ Offset(b) \in Offsets
  BY Place
<1>2. page \in Page
  BY WrittenType
<1>3. after \in Memories
  BY WriteCells
<1>4. Cell(after, Level2(b), Level1(b)) =
        IF Level2(b) = Level2(a) /\ Level1(b) = Level1(a) THEN page
        ELSE Cell(memory, Level2(b), Level1(b))
  BY <1>1, WriteCells
<1>5. /\ ContainingPage(after, b) = Cell(after, Level2(b), Level1(b))
      /\ ContainingPage(memory, b) = Cell(memory, Level2(b), Level1(b))
  BY <1>3, ContentAt
<1>6. page # Nil
  BY <1>2, MemoryAssumption
<1>7. CASE Level2(b) = Level2(a) /\ Level1(b) = Level1(a)
  <2>1. ContainingPage(memory, b) = ContainingPage(memory, a)
    BY <1>7 DEF ContainingPage
  <2>2. MappedAt(memory, b) /\ MappedAt(after, b)
    BY <1>4, <1>5, <1>6, <1>7, <2>1 DEF MappedAt
  <2>3. Content(after)[b] = page[Offset(b)]
    BY <1>3, <1>4, <1>5, <1>7, <2>2, ContentAt
  <2>4. Content(memory)[b] = ContainingPage(memory, a)[Offset(b)]
    BY <2>1, <2>2, ContentAt
  <2>5. page[Offset(b)] = IF Offset(b) \in f .. (f + w - 1)
                            THEN value[Order(Offset(b) - f, w)]
                            ELSE ContainingPage(memory, a)[Offset(b)]
    BY <1>1 DEF Written
  <2>6. /\ Offset(b) - f = b - base
        /\ Offset(b) \in f .. (f + w - 1) <=> b \in base .. (base + w - 1)
    BY <1>7, SamePage
  <2> HIDE DEF page, f
  <2> QED BY <2>2, <2>3, <2>4, <2>5, <2>6
<1>8. CASE ~(Level2(b) = Level2(a) /\ Level1(b) = Level1(a))
  <2>1. b \notin base .. (base + w - 1)
    <3> SUFFICES ASSUME b \in base .. (base + w - 1) PROVE FALSE
      OBVIOUS
    <3>1. base \in Nat /\ w \in Nat
      BY AlignedPlace DEF Widths
    <3>2. PICK k \in 0 .. (w - 1) : b = base + k
      <4>1. b - base \in 0 .. (w - 1) /\ b = base + (b - base)
        BY <3>1
      <4> QED BY <4>1
    <3>3. Level2(b) = Level2(a) /\ Level1(b) = Level1(a)
      BY <3>2, GroupPlace
    <3> QED BY <1>8, <3>3
  <2>2. ContainingPage(after, b) = ContainingPage(memory, b)
    BY <1>4, <1>5, <1>8
  <2>3. Content(after)[b] = Content(memory)[b]
        /\ (MappedAt(after, b) <=> MappedAt(memory, b))
    BY <2>2 DEF Content, MappedAt
  <2> QED BY <2>1, <2>3
<1> QED BY <1>7, <1>8

LEMMA WritesReadBack ==
    ASSUME isBigEndian \in BOOLEAN, pages \in Memories
    PROVE  RoundTrips
<1> SUFFICES ASSUME NEW a \in HostAddresses, NEW value \in HostWords,
                    NEW w \in {1, 2, 4}, MappedAt(pages, a)
             PROVE  LET after == Write(pages, a, w, value)
                    IN  /\ Read(after, a, w).value = [k \in 0 .. (w - 1) |-> value[k]]
                        /\ \A b \in Address : Content(after)[b] # Content(pages)[b]
                                => Align(b, w) = Align(a, w)
  BY DEF RoundTrips
<1> w \in Widths
  BY DEF Widths
<1>0. PICK after : after = Write(pages, a, w, value)
  OBVIOUS
<1>1. a \in Address /\ value \in [0 .. 3 -> Byte]
  BY MemoryAssumption
<1>2. after \in Memories
  BY <1>0, <1>1, WriteCells
<1>3. PICK base : base = Align(a, w)
  OBVIOUS
<1>4. base \in Nat /\ w \in Nat
  BY <1>1, <1>3, AlignedPlace DEF Widths
<1>5. MappedAt(after, a)
  BY <1>0, <1>1, <1>3, WritesContent
<1>6. Read(after, a, w).value =
        [k \in 0 .. (w - 1) |-> Content(after)[base + Order(k, w)]]
  BY <1>1, <1>2, <1>3, <1>5, ReadsContent
<1>7. ASSUME NEW k \in 0 .. (w - 1)
      PROVE  Content(after)[base + Order(k, w)] = value[k]
  <2>1. PICK j \in 0 .. (w - 1) : j = Order(k, w) /\ Order(j, w) = k
    BY Orders
  <2>2. PICK b : b = base + j
    OBVIOUS
  <2>3. b \in Address
    BY <1>1, <1>3, <2>2, GroupPlace
  <2>4. b \in base .. (base + w - 1) /\ b - base = j
    BY <1>4, <2>2
  <2>5. Content(after)[b] = value[Order(b - base, w)]
    BY <1>0, <1>1, <1>3, <2>3, <2>4, WritesContent
  <2> QED BY <2>1, <2>2, <2>4, <2>5
<1>8. ASSUME NEW b \in Address, Content(after)[b] # Content(pages)[b]
      PROVE  Align(b, w) = Align(a, w)
  <2>1. b \in base .. (base + w - 1)
    BY <1>0, <1>1, <1>3, <1>8, WritesContent
  <2>2. a \in Nat
    BY <1>1, Sizes DEF Address
  <2> QED BY <1>3, <2>1, <2>2, Aligned
<1>9. Read(after, a, w).value = [k \in 0 .. (w - 1) |-> value[k]]
  BY <1>6, <1>7
<1> QED BY <1>0, <1>8, <1>9

-----------------------------------------------------------------------------
\* Mapping

LEMMA DivisionMonotone ==
    ASSUME NEW d \in Nat \ {0}, NEW x \in Nat, NEW y \in Nat, x <= y
    PROVE  x \div d <= y \div d
<1>1. PICK q \in Nat, r \in 0 .. (d - 1) : q = x \div d /\ x = q * d + r
  BY Division
<1>2. PICK u \in Nat, v \in 0 .. (d - 1) : u = y \div d /\ y = u * d + v
  BY Division
<1>3. ~(u < q)
  BY <1>1, <1>2, Multiples
<1>4. q <= u
  BY <1>3
<1> QED BY <1>1, <1>2, <1>4

LEMMA FilledType ==
    ASSUME NEW page \in Page \union {Nil}, NEW n \in Nat, NEW base \in Nat,
           NEW data \in Seq(Byte)
    PROVE  Filled(page, n, base, data) \in Page
<1>1. ASSUME NEW o \in Offsets, NEW a, a = n * PageSize + o
      PROVE  (IF base <= a /\ a < base + Len(data) THEN data[a - base + 1]
              ELSE IF page = Nil THEN 0 ELSE page[o]) \in Byte
  <2>1. a \in Nat
    BY <1>1, Sizes DEF Offsets
  <2>2. CASE base <= a /\ a < base + Len(data)
    <3>1. a - base + 1 \in 1 .. Len(data)
      BY <2>1, <2>2
    <3>2. data[a - base + 1] \in Byte
      BY <3>1
    <3> QED BY <2>2, <3>2
  <2>3. page # Nil => page[o] \in Byte
    BY DEF Page
  <2> QED BY <2>2, <2>3, MemoryAssumption
<1>2. ASSUME NEW o \in Offsets PROVE Filled(page, n, base, data)[o] \in Byte
  BY <1>1 DEF Filled
<1>3. Filled(page, n, base, data)
        = [o \in Offsets |-> Filled(page, n, base, data)[o]]
  BY DEF Filled
<1> HIDE DEF Filled
<1> QED BY <1>2, <1>3 DEF Page

\* Every page the region touches is filled, the others stay.
LEMMA RegionCells ==
    ASSUME NEW memory \in Memories, NEW base \in Address, NEW data \in Seq(Byte),
           NEW after, after = SetRegion(memory, base, data),
           NEW touched, touched = TouchedPages(base, Len(data))
    PROVE  /\ after \in Memories
           /\ \A t \in 0 .. (Tables - 1), i \in 0 .. (PagesPerTable - 1) :
                Cell(after, t, i) =
                  IF t * PagesPerTable + i \in touched
                    THEN Filled(Cell(memory, t, i), t * PagesPerTable + i, base, data)
                    ELSE Cell(memory, t, i)
<1> DEFINE span(t) == t * PagesPerTable .. (t + 1) * PagesPerTable - 1
           new(t) == [i \in 0 .. (PagesPerTable - 1) |->
                        IF t * PagesPerTable + i \in touched
                          THEN Filled(Cell(memory, t, i), t * PagesPerTable + i, base, data)
                          ELSE Cell(memory, t, i)]
<1>1. after = [t \in 0 .. (Tables - 1) |->
                 IF touched \intersect span(t) = {} THEN memory[t] ELSE new(t)]
  BY DEF SetRegion, Cell
<1>2. base \in Nat
  BY Sizes DEF Address
<1>3. ASSUME NEW t \in 0 .. (Tables - 1) PROVE new(t) \in Table
  <2>1. ASSUME NEW i \in 0 .. (PagesPerTable - 1)
        PROVE  /\ Cell(memory, t, i) \in Page \union {Nil}
               /\ Filled(Cell(memory, t, i), t * PagesPerTable + i, base, data) \in Page
    <3>1. Cell(memory, t, i) \in Page \union {Nil}
      BY CellType
    <3>2. t * PagesPerTable + i \in Nat
      BY Sizes
    <3> QED BY <1>2, <3>1, <3>2, FilledType
  <2> QED BY <2>1 DEF Table
<1>4. ASSUME NEW t \in 0 .. (Tables - 1), NEW i \in 0 .. (PagesPerTable - 1)
      PROVE  t * PagesPerTable + i \in span(t)
  <2>1. t * PagesPerTable \in Int /\ (t + 1) * PagesPerTable = t * PagesPerTable + PagesPerTable
    BY Sizes
  <2> QED BY <2>1, Sizes
<1>5. ASSUME NEW t \in 0 .. (Tables - 1), NEW i \in 0 .. (PagesPerTable - 1),
             touched \intersect span(t) = {}
      PROVE  t * PagesPerTable + i \notin touched
  BY <1>4, <1>5
<1>6. ASSUME NEW t \in 0 .. (Tables - 1), NEW i \in 0 .. (PagesPerTable - 1)
      PROVE  new(t)[i] = IF t * PagesPerTable + i \in touched
                           THEN Filled(Cell(memory, t, i), t * PagesPerTable + i, base, data)
                           ELSE Cell(memory, t, i)
  OBVIOUS
<1> HIDE DEF span, new
<1>7. after \in Memories
  BY <1>1, <1>3 DEF Memories
<1>8. ASSUME NEW t \in 0 .. (Tables - 1), NEW i \in 0 .. (PagesPerTable - 1)
      PROVE  Cell(after, t, i) =
                  IF t * PagesPerTable + i \in touched
                    THEN Filled(Cell(memory, t, i), t * PagesPerTable + i, base, data)
                    ELSE Cell(memory, t, i)
  <2>1. CASE touched \intersect span(t) = {}
    <3>1. after[t] = memory[t]
      BY <1>1, <2>1
    <3>2. Cell(after, t, i) = Cell(memory, t, i)
      BY <3>1 DEF Cell
    <3> QED BY <1>5, <2>1, <3>2
  <2>2. CASE touched \intersect span(t) # {}
    <3>1. after[t] = new(t)
      BY <1>1, <2>2
    <3>2. Cell(after, t, i) = new(t)[i]
      BY <1>3, <3>1, MemoryAssumption DEF Cell
    <3> QED BY <1>6, <3>2
  <2> QED BY <2>1, <2>2
<1> QED BY <1>7, <1>8

\* The data at its addresses, zeroes where a page is new, and nothing else.
LEMMA RegionContent ==
    ASSUME NEW memory \in Memories, NEW base \in Address, NEW data \in Seq(Byte),
           NEW after, after = SetRegion(memory, base, data), NEW b \in Address
    PROVE  /\ base <= b /\ b < base + Len(data) => Content(after)[b] = data[b - base + 1]
           /\ ~(base <= b /\ b < base + Len(data)) =>
                \/ Content(after)[b] = Content(memory)[b]
                \/ Content(memory)[b] = Nil /\ Content(after)[b] = 0
<1>1. PICK t \in 0 .. (Tables - 1), i \in 0 .. (PagesPerTable - 1), o \in Offsets :
        /\ t = Level2(b) /\ i = Level1(b) /\ o = Offset(b)
        /\ b = At(t, i, o) /\ b \div PageSize = t * PagesPerTable + i
  BY Place
<1>2. PICK n : n = t * PagesPerTable + i
  OBVIOUS
<1>3. b \div PageSize = n /\ b = n * PageSize + o
  BY <1>1, <1>2 DEF At
<1>4. base \in Nat /\ b \in Nat /\ n \in Nat /\ Len(data) \in Nat
  <2>1. t * PagesPerTable \in Nat
    BY Sizes
  <2> QED BY <1>2, <2>1, Sizes DEF Address
<1>5. PICK touched : touched = TouchedPages(base, Len(data))
  OBVIOUS
<1>6. /\ after \in Memories
      /\ Cell(after, t, i) = IF n \in touched THEN Filled(Cell(memory, t, i), n, base, data)
                             ELSE Cell(memory, t, i)
  BY <1>2, <1>5, RegionCells
<1>7. /\ ContainingPage(after, b) = Cell(after, t, i)
      /\ ContainingPage(memory, b) = Cell(memory, t, i)
  BY <1>1, <1>6, ContentAt
<1>8. CASE n \notin touched
  <2>1. Content(after)[b] = Content(memory)[b]
    BY <1>6, <1>7, <1>8 DEF Content, MappedAt
  <2>2. ~(base <= b /\ b < base + Len(data))
    <3> SUFFICES ASSUME base <= b, b < base + Len(data) PROVE FALSE
      OBVIOUS
    <3>1. base + Len(data) \in Nat /\ b <= base + Len(data)
      BY <1>4
    <3>2. /\ base \div PageSize <= b \div PageSize
          /\ b \div PageSize <= (base + Len(data)) \div PageSize
      BY <1>4, <3>1, DivisionMonotone, Sizes
    <3>3. base \div PageSize \in Int /\ (base + Len(data)) \div PageSize \in Int
      BY <1>4, <3>1, Sizes
    <3>4. n \in touched
      BY <1>3, <1>4, <1>5, <3>2, <3>3 DEF TouchedPages
    <3> QED BY <1>8, <3>4
  <2> QED BY <2>1, <2>2
<1>9. CASE n \in touched
  <2> DEFINE page == Filled(Cell(memory, t, i), n, base, data)
  <2>1. page \in Page
    BY <1>4, CellType, FilledType
  <2>2. ContainingPage(after, b) = page /\ MappedAt(after, b)
    BY <1>6, <1>7, <1>9, <2>1, MemoryAssumption DEF MappedAt
  <2>3. Content(after)[b] = page[o]
    BY <1>1, <1>6, <2>2, ContentAt
  <2>4. page[o] = IF base <= b /\ b < base + Len(data) THEN data[b - base + 1]
                  ELSE IF Cell(memory, t, i) = Nil THEN 0 ELSE Cell(memory, t, i)[o]
    BY <1>3 DEF Filled
  <2>5. Content(memory)[b] = IF Cell(memory, t, i) = Nil THEN Nil
                             ELSE Cell(memory, t, i)[o]
    BY <1>1, <1>7 DEF Content, MappedAt
  <2> HIDE DEF page
  <2> QED BY <2>3, <2>4, <2>5
<1> QED BY <1>8, <1>9

-----------------------------------------------------------------------------
\* Unmapping

LEMMA WithoutCells ==
    ASSUME NEW memory \in Memories, NEW numbers, NEW after,
           after = WithoutPages(memory, numbers)
    PROVE  /\ after \in Memories
           /\ \A t \in 0 .. (Tables - 1), i \in 0 .. (PagesPerTable - 1) :
                Cell(after, t, i) \in {Nil, Cell(memory, t, i)}
<1> DEFINE new(t) == [i \in 0 .. (PagesPerTable - 1) |->
                        IF t * PagesPerTable + i \in numbers THEN Nil ELSE memory[t][i]]
<1>1. after = [t \in 0 .. (Tables - 1) |-> IF memory[t] = Nil THEN Nil ELSE new(t)]
  BY DEF WithoutPages
<1>2. ASSUME NEW t \in 0 .. (Tables - 1), memory[t] # Nil
      PROVE  /\ new(t) \in Table
             /\ \A i \in 0 .. (PagesPerTable - 1) : new(t)[i] \in {Nil, memory[t][i]}
  BY <1>2 DEF Memories, Table
<1> HIDE DEF new
<1>3. after \in Memories
  BY <1>1, <1>2 DEF Memories
<1>4. ASSUME NEW t \in 0 .. (Tables - 1), NEW i \in 0 .. (PagesPerTable - 1)
      PROVE  Cell(after, t, i) \in {Nil, Cell(memory, t, i)}
  BY <1>1, <1>2 DEF Cell
<1> QED BY <1>3, <1>4

LEMMA ClearsOnly ==
    ASSUME pages \in Memories, NEW base, NEW size, ClearRegion(base, size)
    PROVE  /\ pages' \in Memories
           /\ outcome' \in {"cleared", "panic"}
           /\ \A b \in Address : Content(pages')[b] \in {Nil, Content(pages)[b]}
<1> DEFINE free == PagesToFree(base, size)
           absent == {n \in free : pages[n \div PagesPerTable] = Nil}
           some == WithoutPages(pages, {n \in free : \A m \in absent : n < m})
           all == WithoutPages(pages, free)
<1>1. \/ /\ outcome' = "cleared"
         /\ pages' = [t \in 0 .. (Tables - 1) |->
                        IF t \in TablesToFree(base, size) THEN Nil ELSE all[t]]
      \/ outcome' = "panic" /\ pages' = some
  BY DEF ClearRegion
<1>2. /\ some \in Memories /\ all \in Memories
      /\ \A t \in 0 .. (Tables - 1), i \in 0 .. (PagesPerTable - 1) :
           /\ Cell(some, t, i) \in {Nil, Cell(pages, t, i)}
           /\ Cell(all, t, i) \in {Nil, Cell(pages, t, i)}
  BY WithoutCells
<1> HIDE DEF free, absent, some, all
<1>3. pages' \in Memories
  BY <1>1, <1>2 DEF Memories
<1>4. ASSUME NEW t \in 0 .. (Tables - 1), NEW i \in 0 .. (PagesPerTable - 1)
      PROVE  Cell(pages', t, i) \in {Nil, Cell(pages, t, i)}
  <2>1. CASE pages' = some
    BY <1>2, <2>1
  <2>2. CASE pages' = [u \in 0 .. (Tables - 1) |->
                        IF u \in TablesToFree(base, size) THEN Nil ELSE all[u]]
    <3>1. pages'[t] \in {Nil, all[t]}
      BY <2>2
    <3>2. Cell(pages', t, i) \in {Nil, Cell(all, t, i)}
      BY <3>1 DEF Cell
    <3> QED BY <1>2, <3>2
  <2> QED BY <1>1, <2>1, <2>2
<1>5. ASSUME NEW b \in Address
      PROVE  Content(pages')[b] \in {Nil, Content(pages)[b]}
  <2>1. ContainingPage(pages', b) \in {Nil, ContainingPage(pages, b)}
    BY <1>3, <1>4, ContentAt, Place
  <2> QED BY <2>1 DEF Content, MappedAt
<1> QED BY <1>1, <1>3, <1>5

-----------------------------------------------------------------------------
\* The theorems

\* Tables hold pages, pages hold bytes, and a new page has all its bytes:
\* createContainingPage, the reads, the writes and ClearMemoryRegion agree on it.
THEOREM MemoryTypeCorrect == Spec => []TypeOK
<1>1. Init => TypeOK
  BY DEF Init, TypeOK, Outcomes
<1>2. TypeOK /\ [Next]_vars => TypeOK'
  <2> SUFFICES ASSUME TypeOK, [Next]_vars PROVE TypeOK'
    OBVIOUS
  <2>1. pages \in Memories /\ isBigEndian \in BOOLEAN
    BY DEF TypeOK, Memories
  <2>2. ASSUME NEW w \in Widths, WriteMemory(w) PROVE TypeOK'
    <3>1. PICK a \in HostAddresses, value \in HostWords :
            \/ outcome' = "error" /\ UNCHANGED pages
            \/ /\ ContainingPage(pages, Align(a, w)) # Nil
               /\ outcome' = "written" /\ pages' = Write(pages, a, w, value)
      BY <2>2 DEF WriteMemory
    <3>2. a \in Address /\ value \in [0 .. 3 -> Byte]
      BY MemoryAssumption
    <3>3. ContainingPage(pages, Align(a, w)) = ContainingPage(pages, a)
      BY <3>2, BaseMapped
    <3>4. MappedAt(pages, a) => Write(pages, a, w, value) \in Memories
      BY <2>1, <3>2, WriteCells
    <3>5. pages' \in Memories /\ outcome' \in Outcomes
      BY <2>1, <3>1, <3>3, <3>4 DEF MappedAt, Outcomes
    <3>6. isBigEndian' = isBigEndian
      BY <2>2 DEF WriteMemory
    <3> QED BY <2>1, <3>5, <3>6 DEF TypeOK, Memories
  <2>3. CASE SetMemoryRegion
    <3>1. PICK base \in HostAddresses, data \in HostData : MapRegion(base, data)
      BY <2>3 DEF SetMemoryRegion
    <3>2. base \in Address /\ data \in Seq(Byte)
      BY MemoryAssumption
    <3>3. SetRegion(pages, base, data) \in Memories
      BY <2>1, <3>2, RegionCells
    <3>4. pages' \in Memories /\ outcome' \in Outcomes
      BY <2>1, <3>1, <3>3 DEF MapRegion, Outcomes
    <3>5. isBigEndian' = isBigEndian
      BY <2>3 DEF SetMemoryRegion
    <3> QED BY <2>1, <3>4, <3>5 DEF TypeOK, Memories
  <2>4. CASE ClearMemoryRegion
    <3>1. PICK base \in HostAddresses, size \in HostSizes : ClearRegion(base, size)
      BY <2>4 DEF ClearMemoryRegion
    <3>2. pages' \in Memories /\ outcome' \in Outcomes
      BY <2>1, <3>1, ClearsOnly DEF Outcomes
    <3>3. isBigEndian' = isBigEndian
      BY <2>4 DEF ClearMemoryRegion
    <3> QED BY <2>1, <3>2, <3>3 DEF TypeOK, Memories
  <2>5. CASE SetBigEndian
    BY <2>1, <2>5 DEF SetBigEndian, TypeOK, Memories, Outcomes
  <2>6. CASE UNCHANGED vars
    BY <2>6 DEF vars, TypeOK
  <2>7. WriteMemoryWord \/ WriteMemoryHalfword \/ WriteMemoryByte
          => \E w \in Widths : WriteMemory(w)
    BY DEF WriteMemoryWord, WriteMemoryHalfword, WriteMemoryByte, Widths
  <2> QED BY <2>2, <2>3, <2>4, <2>5, <2>6, <2>7 DEF Next
<1> QED BY <1>1, <1>2, PTL DEF Spec

\* A word is made of its two halfwords and each of its bytes, in either byte
\* order, and all of them are mapped or none is (the six accessors).
THEOREM WidthsAlwaysAgree == Spec => []WidthsAgree
<1>1. TypeOK => WidthsAgree
  BY PartsAgree DEF TypeOK, Memories
<1> QED BY MemoryTypeCorrect, <1>1, PTL

\* What WriteMemoryWord, -Halfword or -Byte stores is what the same read gives
\* back, and it stores nothing outside the aligned value.
THEOREM WritesAreReadBack == Spec => []RoundTrips
<1>1. TypeOK => RoundTrips
  BY WritesReadBack DEF TypeOK, Memories
<1> QED BY MemoryTypeCorrect, <1>1, PTL

-----------------------------------------------------------------------------
\* The page tables implement FlatMemory

LEMMA FlatStore ==
    ASSUME isBigEndian \in BOOLEAN, pages \in Memories, NEW w \in Widths,
           WriteMemory(w)
    PROVE  Flat!Next \/ UNCHANGED pages
<1> SUFFICES ASSUME pages' # pages PROVE Flat!Next
  OBVIOUS
<1>1. PICK a \in HostAddresses, value \in HostWords :
        /\ ContainingPage(pages, Align(a, w)) # Nil
        /\ pages' = Write(pages, a, w, value)
  BY DEF WriteMemory
<1>2. a \in Address /\ value \in [0 .. 3 -> Byte]
  BY MemoryAssumption
<1>3. MappedAt(pages, a)
  BY <1>1, <1>2, BaseMapped DEF MappedAt
<1>4. PICK base : base = Align(a, w)
  OBVIOUS
<1>5. base \in Nat /\ base % w = 0 /\ w \in Nat \ {0}
  BY <1>2, <1>4, AlignedPlace DEF Widths
<1>6. base \in Address
  BY <1>2, <1>4, BaseMapped
<1> DEFINE c == Content(pages)
           d == Content(pages')
           group == base .. (base + w - 1)
<1>7. ASSUME NEW b \in group
      PROVE  b \in Address /\ b - base \in 0 .. (w - 1)
  <2>1. PICK k \in 0 .. (w - 1) : b = base + k
    <3>1. b - base \in 0 .. (w - 1) /\ b = base + (b - base)
      BY <1>5
    <3> QED BY <3>1
  <2>2. b \in Address
    BY <1>2, <1>4, <2>1, GroupPlace
  <2>3. b - base = k
    BY <1>5, <2>1
  <2> QED BY <2>2, <2>3
<1>8. ASSUME NEW b \in Address
      PROVE  /\ b \in group => c[b] # Nil /\ d[b] = value[Order(b - base, w)]
             /\ b \notin group => d[b] = c[b]
  BY <1>1, <1>2, <1>3, <1>4, ContentAt, WritesContent
<1>9. (Content(pages))' = d
  BY DEF Content, MappedAt, ContainingPage
<1> HIDE DEF c, d
<1>10. group \subseteq Flat!Mapped
  BY <1>7, <1>8 DEF Flat!Mapped, c
<1>11. Flat!Changed \subseteq group
  BY <1>8, <1>9 DEF Flat!Changed, c
<1>12. \/ \A b \in group : d[b] = value[b - base]
       \/ \A b \in group : d[b] = value[w - 1 - (b - base)]
  <2>1. CASE isBigEndian = TRUE
    BY <1>7, <1>8, <2>1 DEF Order
  <2>2. CASE isBigEndian = FALSE
    BY <1>7, <1>8, <2>2 DEF Order
  <2> QED BY <2>1, <2>2
<1>13. Flat!Store(base, w, value)
  BY <1>9, <1>10, <1>11, <1>12 DEF Flat!Store
<1> QED BY <1>5, <1>6, <1>13 DEF Flat!Next, Widths

LEMMA FlatMap ==
    ASSUME pages \in Memories, NEW base \in HostAddresses, NEW data \in HostData,
           MapRegion(base, data)
    PROVE  Flat!Next \/ UNCHANGED pages
<1> SUFFICES ASSUME pages' # pages PROVE Flat!Next
  OBVIOUS
<1>1. base + Len(data) <= AddressSpace - 1 /\ pages' = SetRegion(pages, base, data)
  <2>1. base + Len(data) \in Int
    BY MemoryAssumption, Sizes DEF Address
  <2> QED BY <2>1, Sizes DEF MapRegion
<1>2. base \in Address /\ base \in Nat /\ data \in Seq(Byte) /\ Len(data) \in Nat
  BY MemoryAssumption, Sizes DEF Address
<1> DEFINE c == Content(pages)
           d == Content(pages')
<1>3. ASSUME NEW b \in Address
      PROVE  /\ base <= b /\ b < base + Len(data) => d[b] = data[b - base + 1]
             /\ ~(base <= b /\ b < base + Len(data)) =>
                  d[b] = c[b] \/ (c[b] = Nil /\ d[b] = 0)
  BY <1>1, <1>2, RegionContent
<1>4. (Content(pages))' = d
  BY DEF Content, MappedAt, ContainingPage
<1> HIDE DEF c, d
\* Where no data is given the address does not matter.
<1>5. PICK first \in Address : /\ first + Len(data) - 1 \in Address
                               /\ Len(data) # 0 => first = base
  <2>1. CASE Len(data) = 0
    <3>1. 1 \in Address /\ 1 + Len(data) - 1 \in Address
      BY <2>1, Sizes DEF Address
    <3> QED BY <2>1, <3>1
  <2>2. CASE Len(data) # 0
    <3>1. base + Len(data) - 1 \in Address
      BY <1>1, <1>2, <2>2, Sizes DEF Address
    <3> QED BY <1>2, <3>1
  <2> QED BY <2>1, <2>2
<1>6. ASSUME NEW i \in 1 .. Len(data) PROVE d[first + i - 1] = data[i]
  <2>1. first = base /\ i \in Nat
    BY <1>2, <1>5
  <2>2. base + i - 1 \in Address /\ base + i - 1 >= base /\ base + i - 1 < base + Len(data)
    BY <1>1, <1>2, <2>1, Sizes DEF Address
  <2>3. (base + i - 1) - base + 1 = i
    BY <1>2, <2>1
  <2>4. d[base + i - 1] = data[(base + i - 1) - base + 1]
    BY <1>3, <2>2
  <2> QED BY <2>1, <2>3, <2>4
<1>7. ASSUME NEW b \in Address, d[b] # c[b], b \notin first .. (first + Len(data) - 1)
      PROVE  c[b] = Nil /\ d[b] = 0
  <2>1. b \in Int /\ first \in Int
    BY Sizes DEF Address
  <2>2. ~(base <= b /\ b < base + Len(data))
    BY <1>2, <1>5, <1>7, <2>1
  <2> QED BY <1>3, <1>7, <2>2
<1>8. Flat!Map(first, data)
  BY <1>4, <1>6, <1>7 DEF Flat!Map, Flat!Changed, c
<1> QED BY <1>5, <1>8 DEF Flat!Next

LEMMA FlatUnmap ==
    ASSUME pages \in Memories, NEW base, NEW size, ClearRegion(base, size)
    PROVE  Flat!Next
<1>1. \A b \in Address : Content(pages')[b] \in {Nil, Content(pages)[b]}
  BY ClearsOnly
<1>2. (Content(pages))' = Content(pages')
  BY DEF Content, MappedAt, ContainingPage
<1> HIDE DEF Content
<1>3. Flat!Unmap
  BY <1>1, <1>2 DEF Flat!Unmap, Flat!Changed
<1> QED BY <1>3 DEF Flat!Next

\* Behind the two levels of tables the host sees one array of bytes: a write
\* changes an aligned group, mapping stores its bytes and brings in zeroes,
\* clearing only unmaps.
THEOREM PageTablesAreFlat == Spec => PagesAreFlat
<1>1. Init => Flat!Init
  <2> SUFFICES ASSUME Init PROVE Flat!Init
    OBVIOUS
  <2>1. ASSUME NEW a \in Address PROVE ~MappedAt(pages, a)
    <3>1. Level2(a) \in 0 .. (Tables - 1)
      BY Place
    <3> QED BY <3>1 DEF Init, MappedAt, ContainingPage
  <2>2. Content(pages) = [a \in Address |-> Nil]
    BY <2>1 DEF Content
  <2> QED BY <2>2 DEF Flat!Init
<1>2. TypeOK /\ [Next]_vars => [Flat!Next]_(Content(pages))
  <2> SUFFICES ASSUME TypeOK, [Next]_vars
               PROVE  Flat!Next \/ UNCHANGED Content(pages)
    OBVIOUS
  <2>1. pages \in Memories /\ isBigEndian \in BOOLEAN
    BY DEF TypeOK, Memories
  <2>2. UNCHANGED pages => UNCHANGED Content(pages)
    BY DEF Content, MappedAt, ContainingPage
  <2>3. ASSUME NEW w \in Widths, WriteMemory(w)
        PROVE  Flat!Next \/ UNCHANGED Content(pages)
    BY <2>1, <2>2, <2>3, FlatStore
  <2>4. CASE SetMemoryRegion
    BY <2>1, <2>2, <2>4, FlatMap DEF SetMemoryRegion
  <2>5. CASE ClearMemoryRegion
    BY <2>1, <2>5, FlatUnmap DEF ClearMemoryRegion
  <2>6. CASE SetBigEndian \/ UNCHANGED vars
    BY <2>2, <2>6 DEF SetBigEndian, vars
  <2>7. WriteMemoryWord \/ WriteMemoryHalfword \/ WriteMemoryByte
          => \E w \in Widths : WriteMemory(w)
    BY DEF WriteMemoryWord, WriteMemoryHalfword, WriteMemoryByte, Widths
  <2> QED BY <2>3, <2>4, <2>5, <2>6, <2>7 DEF Next
<1> QED BY MemoryTypeCorrect, <1>1, <1>2, PTL DEF Spec, PagesAreFlat, Flat!Spec
=============================================================================
