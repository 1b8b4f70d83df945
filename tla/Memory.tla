------------------------------- MODULE Memory -------------------------------
(***************************************************************************)
(* basicARMMemory (src/memory_management.go): two levels of page tables,   *)
(* pages made on demand by SetMemoryRegion and dropped by                  *)
(* ClearMemoryRegion, and reads and writes of words, halfwords and bytes   *)
(* in either byte order.                                                   *)
(*                                                                         *)
(* A value of several bytes is a function from 0 to its width - 1, with    *)
(* the least significant byte at 0.                                        *)
(***************************************************************************)
EXTENDS Integers, Sequences

CONSTANTS
    PageSize,           \* bytes in a page: 4096 in the code
    PagesPerTable,      \* pages in a level-1 table: 256
    Tables,             \* entries of the top-level table: 4096
    Byte,               \* values of a byte
    Nil,                \* Go's nil, for a table or a page
    HostAddresses,      \* arguments of the calls
    HostSizes,
    HostData,           \* byte arrays given to SetMemoryRegion
    HostWords           \* words, halfwords and bytes written, as functions

AddressSpace == Tables * PagesPerTable * PageSize
Address      == 0 .. (AddressSpace - 1)
TableSize    == PagesPerTable * PageSize

Offsets == 0 .. (PageSize - 1)
Page    == [Offsets -> Byte]
Table   == [0 .. (PagesPerTable - 1) -> Page \union {Nil}]

ASSUME MemoryAssumption ==
    /\ {PageSize, PagesPerTable, Tables} \subseteq Nat \ {0}
    /\ PageSize % 4 = 0
    /\ 0 \in Byte
    /\ Nil \notin Byte \union Page \union Table
    /\ HostAddresses \subseteq Address
    /\ HostSizes \subseteq Address
    /\ HostData \subseteq Seq(Byte)
    /\ HostWords \subseteq [0 .. 3 -> Byte]

VARIABLES
    pages,              \* the top-level table
    isBigEndian,
    outcome             \* how the last call ended: what it did, or why it failed

vars == <<pages, isBigEndian, outcome>>

Outcomes == {"none", "written", "mapped", "cleared", "ordered", "error", "panic"}

Init ==
    /\ pages = [t \in 0 .. (Tables - 1) |-> Nil]
    /\ isBigEndian = FALSE
    /\ outcome = "none"

-----------------------------------------------------------------------------
\* getAddressPageIndices, getContainingPage

Level2(a) == a \div TableSize
Level1(a) == (a \div PageSize) % PagesPerTable
Offset(a) == a % PageSize

ContainingPage(memory, a) ==
    IF memory[Level2(a)] = Nil THEN Nil ELSE memory[Level2(a)][Level1(a)]

-----------------------------------------------------------------------------
\* Reads and writes: the address is rounded down to the width, so that a value
\* never crosses a page.

Align(a, width) == a - (a % width)

\* Which byte of the value lies at offset i, in the current byte order.
Order(i, width) == IF isBigEndian THEN width - 1 - i ELSE i

\* Faulty variant: halfwords are read in little-endian order.
ReadHalvesLittle(memory, a, width) ==
    LET base == Align(a, width)
        page == ContainingPage(memory, base)
    IN  IF page = Nil THEN [ok |-> FALSE]
        ELSE [ok |-> TRUE,
              value |-> [k \in 0 .. (width - 1) |->
                  page[Offset(base) + (IF width = 2 THEN k ELSE Order(k, width))]]]

Read(memory, a, width) ==
    LET base == Align(a, width)
        page == ContainingPage(memory, base)
    IN  IF page = Nil THEN [ok |-> FALSE]
        ELSE [ok |-> TRUE,
              value |-> [k \in 0 .. (width - 1) |->
                           page[Offset(base) + Order(k, width)]]]

\* Faulty variants: big-endian order is forgotten; the address is not aligned.
WriteLittle(memory, a, width, value) ==
    LET first == Offset(Align(a, width))
    IN  [memory EXCEPT ![Level2(a)][Level1(a)] =
            [o \in Offsets |-> IF o \in first .. (first + width - 1)
                               THEN value[o - first] ELSE @[o]]]

WriteUnaligned(memory, a, width, value) ==
    LET first == Offset(a)
    IN  [memory EXCEPT ![Level2(a)][Level1(a)] =
            [o \in Offsets |-> IF o \in first .. (first + width - 1)
                               THEN value[Order(o - first, width)] ELSE @[o]]]

Write(memory, a, width, value) ==
    LET base  == Align(a, width)
        page  == ContainingPage(memory, base)
        first == Offset(base)
    IN  [memory EXCEPT ![Level2(base)][Level1(base)] =
            [o \in Offsets |->
                IF o \in first .. (first + width - 1)
                  THEN value[Order(o - first, width)] ELSE page[o]]]

ReadMemoryWord(memory, a)     == Read(memory, a, 4)
ReadMemoryHalfword(memory, a) == Read(memory, a, 2)
ReadMemoryByte(memory, a)     == Read(memory, a, 1)

WriteMemory(width) ==
    \E a \in HostAddresses, value \in HostWords :
        /\ IF ContainingPage(pages, Align(a, width)) = Nil
             THEN outcome' = "error" /\ UNCHANGED pages
             ELSE outcome' = "written" /\ pages' = Write(pages, a, width, value)
        /\ UNCHANGED isBigEndian

WriteMemoryWord     == WriteMemory(4)
WriteMemoryHalfword == WriteMemory(2)
WriteMemoryByte     == WriteMemory(1)

-----------------------------------------------------------------------------
\* Mapping

\* The pages SetMemoryRegion creates: the one of base, and one more each time
\* the offset reaches the end of a page, also when no data is left.
TouchedPages(base, length) == (base \div PageSize) .. ((base + length) \div PageSize)

\* Faulty variant: the page is too long.
FilledLong(page, number, base, data) ==
    [o \in 0 .. PageSize |->
        LET a == number * PageSize + o
        IN  IF base <= a /\ a < base + Len(data) THEN data[a - base + 1] ELSE 0]

\* The page after the copy; a new page is zero.
Filled(page, number, base, data) ==
    [o \in Offsets |->
        LET a == number * PageSize + o
        IN  IF base <= a /\ a < base + Len(data) THEN data[a - base + 1]
            ELSE IF page = Nil THEN 0 ELSE page[o]]

SetRegion(memory, base, data) ==
    LET touched == TouchedPages(base, Len(data))
    IN  [t \in 0 .. (Tables - 1) |->
           IF touched \intersect (t * PagesPerTable .. (t + 1) * PagesPerTable - 1) = {}
             THEN memory[t]
           ELSE [i \in 0 .. (PagesPerTable - 1) |->
                   LET number == t * PagesPerTable + i
                       page   == IF memory[t] = Nil THEN Nil ELSE memory[t][i]
                   IN  IF number \in touched THEN Filled(page, number, base, data)
                       ELSE page]]

MapRegion(base, data) ==
    IF base + Len(data) > AddressSpace - 1
      THEN outcome' = "error" /\ UNCHANGED pages
      ELSE outcome' = "mapped" /\ pages' = SetRegion(pages, base, data)

SetMemoryRegion ==
    \E base \in HostAddresses, data \in HostData :
        MapRegion(base, data) /\ UNCHANGED isBigEndian

-----------------------------------------------------------------------------
\* Unmapping.  Sums of addresses wrap; all bounds are computed before the loops.

\* The first loop: pages from base rounded up, below the page of the end.
PagesToFree(base, size) ==
    LET first == (((base + PageSize - 1) \div PageSize) * PageSize) % AddressSpace
        limit == Align((base + size) % AddressSpace, PageSize)
    IN  {n \in 0 .. (Tables * PagesPerTable - 1) :
            first <= n * PageSize /\ n * PageSize < limit}

\* The second loop: tables from the one of base, below the one of the end.
TablesToFree(base, size) ==
    {t \in 0 .. (Tables - 1) :
        /\ Align(base, TableSize) <= t * TableSize
        /\ t * TableSize < Align((base + size) % AddressSpace, TableSize)}

WithoutPages(memory, numbers) ==
    [t \in 0 .. (Tables - 1) |->
        IF memory[t] = Nil THEN Nil
        ELSE [i \in 0 .. (PagesPerTable - 1) |->
                IF t * PagesPerTable + i \in numbers THEN Nil ELSE memory[t][i]]]

\* A page whose table was never made is an index into a nil slice: the loop
\* panics there, having freed the pages before it.
ClearRegion(base, size) ==
    LET free   == PagesToFree(base, size)
        absent == {n \in free : pages[n \div PagesPerTable] = Nil}
    IN  IF absent = {}
          THEN /\ outcome' = "cleared"
               /\ pages' = [t \in 0 .. (Tables - 1) |->
                              IF t \in TablesToFree(base, size) THEN Nil
                              ELSE WithoutPages(pages, free)[t]]
          ELSE /\ outcome' = "panic"
               /\ pages' = WithoutPages(pages,
                              {n \in free : \A m \in absent : n < m})

ClearMemoryRegion ==
    \E base \in HostAddresses, size \in HostSizes :
        ClearRegion(base, size) /\ UNCHANGED isBigEndian

SetBigEndian ==
    /\ isBigEndian' \in BOOLEAN
    /\ outcome' = "ordered"
    /\ UNCHANGED pages

\* A panic unwinds to the host, which may recover and go on.
Next ==
    \/ WriteMemoryWord \/ WriteMemoryHalfword \/ WriteMemoryByte
    \/ SetMemoryRegion \/ ClearMemoryRegion \/ SetBigEndian

Spec == Init /\ [][Next]_vars

-----------------------------------------------------------------------------
\* Properties

TypeOK ==
    /\ pages \in [0 .. (Tables - 1) -> Table \union {Nil}]
    /\ isBigEndian \in BOOLEAN
    /\ outcome \in Outcomes

MappedAt(memory, a) == ContainingPage(memory, a) # Nil

Content(memory) == [a \in Address |->
    IF MappedAt(memory, a) THEN ContainingPage(memory, a)[Offset(a)] ELSE Nil]

\* The three widths are one memory: whatever was mapped, written and cleared
\* before, a word is made of its two halfwords and a halfword of its two
\* bytes, in the current byte order, and all of them are mapped or none is.
WidthsAgree ==
    \A a \in Address :
        LET word == ReadMemoryWord(pages, a)
            half(b) == ReadMemoryHalfword(pages, Align(a, 4) + b)
            byte(b) == ReadMemoryByte(pages, Align(a, 4) + b)
            low  == IF isBigEndian THEN half(2) ELSE half(0)
            high == IF isBigEndian THEN half(0) ELSE half(2)
        IN  /\ word.ok <=> low.ok /\ high.ok
            /\ \A b \in 0 .. 3 : byte(b).ok <=> word.ok
            /\ word.ok =>
                 /\ \A k \in {0, 1} : /\ word.value[k] = low.value[k]
                                      /\ word.value[k + 2] = high.value[k]
                 /\ \A b \in 0 .. 3 :
                      byte(b).value[0] = word.value[IF isBigEndian THEN 3 - b ELSE b]

\* What is written is read back, at every mapped address and width, and no
\* byte outside the aligned value changes.
RoundTrips ==
    \A a \in HostAddresses, value \in HostWords, width \in {1, 2, 4} :
        MappedAt(pages, a) =>
            LET after == Write(pages, a, width, value)
            IN  /\ Read(after, a, width).value = [k \in 0 .. (width - 1) |-> value[k]]
                /\ \A b \in Address : Content(after)[b] # Content(pages)[b]
                        => Align(b, width) = Align(a, width)

Flat == INSTANCE FlatMemory WITH Words <- HostWords, Data <- HostData,
                                 Unmapped <- Nil, content <- Content(pages)

\* The page tables implement a flat array of bytes, whatever order the host
\* maps, clears and writes in.
PagesAreFlat == Flat!Spec

\* src/memory_management.go:12 says that ClearMemoryRegion ""Unmaps" the given
\* range": for a range of whole pages it returns, the pages of the range are
\* unmapped, and every other address is as it was.
ClearsGivenRange ==
    [][\A base \in HostAddresses, size \in HostSizes :
        ClearRegion(base, size) /\ {base, size} \subseteq {Align(a, PageSize) : a \in Address} =>
            /\ outcome' = "cleared"
            /\ \A a \in Address :
                 Content(pages')[a] = IF a \in base .. (base + size - 1) THEN Nil
                                      ELSE Content(pages)[a]]_vars
=============================================================================
