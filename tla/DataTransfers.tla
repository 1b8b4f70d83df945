---------------------------- MODULE DataTransfers ----------------------------
(***************************************************************************)
(* The Emulate methods that touch memory or a coprocessor, with the        *)
(* multiplies and the two halves of the THUMB bl (src/emulate.go,          *)
(* src/emulate_thumb.go, src/coprocessor.go), as operators on a machine    *)
(*                                                                         *)
(*   g = [p |-> processor, cells |-> [word address -> word],               *)
(*        mapped |-> set of pages, coprocessors |-> sequence].             *)
(*                                                                         *)
(* cells holds the words of the pages there are and of the pages the host  *)
(* would map; only those in mapped can be read or written.  Addresses are  *)
(* rounded down to the width as module Memory checks; the byte order is    *)
(* little endian (Memory shows that either gives the same views).          *)
(*                                                                         *)
(* A method yields [m |-> g', ok |-> BOOLEAN]: a failing one keeps what it *)
(* did before the error.                                                   *)
(***************************************************************************)
EXTENDS ControlInstructions, SequencesExt

CONSTANTS
    ByteSpace,          \* number of values of a byte: 256
    PageSize,           \* bytes of a page: 4096
    WordBits,           \* bits of a word: 32
    BranchBits          \* bits of an offset in a half of a THUMB bl: 11

ASSUME TransfersAssumption ==
    /\ ByteSpace \in Nat /\ WordSpace = (ByteSpace * ByteSpace) * (ByteSpace * ByteSpace)
    /\ PageSize \in Nat \ {0} /\ PageSize % 4 = 0
    /\ WordBits \in Nat \ {0} /\ WordSpace = 2^WordBits
    /\ BranchBits \in Nat \ {0}

Barrel == INSTANCE Shifter WITH HalfSpace <- WordSpace \div 2, AmountValues <- 256

Complete(g) == [m |-> g, ok |-> TRUE]
Stop(g)     == [m |-> g, ok |-> FALSE]

Reg(g, n)    == GetRegister(g.p, n).value
Put(g, n, x) == [g EXCEPT !.p = SetRegister(@, n, x % WordSpace).p]

-----------------------------------------------------------------------------
\* Memory

Cell(a) == a - (a % 4)

Mapped(g, a) == a \div PageSize \in g.mapped

\* The values of so many bytes, and the weight of the value of this width that
\* lies at address a in its word.
Values(width) ==
    CASE width = 0 -> 1
      [] width = 1 -> ByteSpace
      [] width = 2 -> ByteSpace * ByteSpace
      [] width = 3 -> ByteSpace * ByteSpace * ByteSpace
      [] width = 4 -> WordSpace

Lane(a, width) == Values((a % 4) - (a % width))

ReadMemory(g, a, width) ==
    (g.cells[Cell(a)] \div Lane(a, width)) % Values(width)

\* Faulty variant: the value is not cut to its width.
WriteMemoryWide(g, a, width, x) ==
    LET change == x - ReadMemory(g, a, width)
    IN  [g EXCEPT !.cells[Cell(a)] = @ + change * Lane(a, width)]

WriteMemory(g, a, width, x) ==
    LET change == (x % Values(width)) - ReadMemory(g, a, width)
    IN  [g EXCEPT !.cells[Cell(a)] = @ + change * Lane(a, width)]

SignExtended(x, width) ==
    IF 2 * x >= Values(width) THEN x + WordSpace - Values(width) ELSE x

\* The common body of the plain loads and stores.
Transfer(g, load, rd, address, width) ==
    IF ~Mapped(g, address) THEN Stop(g)
    ELSE IF load THEN Complete(Put(g, rd, ReadMemory(g, address, width)))
    ELSE Complete(WriteMemory(g, address, width, Reg(g, rd)))

\* The loops over the registers of a block transfer: one word after the other
\* until one is not mapped.  A move is an address and the value to store, or an
\* address and the register to load; no block is as long as the memory, so that
\* no two of its moves have the same word.
Reached(g, moves) ==
    {i \in DOMAIN moves : \A j \in 1 .. i : Mapped(g, moves[j].address)}

StoreWords(g, moves) ==
    LET at(c)  == {i \in Reached(g, moves) : Cell(moves[i].address) = c}
        stored == [c \in DOMAIN g.cells |->
                     IF at(c) = {} THEN g.cells[c] ELSE moves[Min(at(c))].value]
    IN  [m |-> [g EXCEPT !.cells = stored], ok |-> Reached(g, moves) = DOMAIN moves]

LoadWords(g, moves) ==
    LET into(s) == {i \in Reached(g, moves) :
                      RegisterSlot(g.p.cpsr.mode, moves[i].register) = s}
        loaded  == [s \in Slots |->
                      IF into(s) = {} THEN g.p.regs[s]
                      ELSE ReadMemory(g, moves[Min(into(s))].address, 4)]
    IN  [m |-> [g EXCEPT !.p.regs = loaded], ok |-> Reached(g, moves) = DOMAIN moves]

-----------------------------------------------------------------------------
\* ARM: one value

Displaced(base, up, offset) ==
    (IF up THEN base + offset ELSE base - offset) % WordSpace

(***************************************************************************)
(* SingleDataTransferInstruction: t.offset is the immediate, or t.rm is    *)
(* shifted by t.shift and t.amount (t.byRegister: by a register).  The     *)
(* shifter sets the carry before the access can fail.  r15 as a base that  *)
(* would be written back is noticed only after the transfer.               *)
(***************************************************************************)
SingleDataTransfer(g, t) ==
    LET shifted     == Barrel!ShiftBy(t.shift, Reg(g, t.rm), t.amount, FALSE, g.p.cpsr.c)
        ready       == IF t.immediate THEN g
                       ELSE [g EXCEPT !.p = SetFlag(@, "c", shifted.carry).p]
        offset      == IF t.immediate THEN t.offset ELSE shifted.value
        base        == (Reg(g, t.rn) + (IF t.rn = 15 THEN 4 ELSE 0)) % WordSpace
        end         == Displaced(base, t.up, offset)
        address     == IF t.preindex THEN end ELSE base
        width       == IF t.byte THEN 1 ELSE 4
        transferred == IF t.load
                         THEN Put(ready, t.rd, ReadMemory(g, address, width))
                         ELSE WriteMemory(ready, address, width,
                                  Reg(g, t.rd) + (IF t.rd = 15 THEN 8 ELSE 0))
    IN  IF ~t.immediate /\ (t.byRegister \/ t.rm = 15) THEN Stop(g)
        ELSE IF ~Mapped(g, address) THEN Stop(ready)
        ELSE IF t.preindex /\ ~t.writeBack THEN Complete(transferred)
        ELSE IF t.rn = 15 THEN Stop(transferred)
        ELSE Complete(Put(transferred, t.rn, end))

\* HalfwordDataTransferInstruction: a store is of a halfword whatever the S and
\* H bits say, and r15 may be written back.
HalfwordDataTransfer(g, t) ==
    LET offset      == IF t.immediate THEN t.offset ELSE Reg(g, t.rm)
        base        == (Reg(g, t.rn) + (IF t.rn = 15 THEN 4 ELSE 0)) % WordSpace
        end         == Displaced(base, t.up, offset)
        address     == IF t.preindex THEN end ELSE base
        width       == IF t.halfword \/ ~t.load THEN 2 ELSE 1
        read        == ReadMemory(g, address, width)
        transferred ==
            IF t.load THEN Put(g, t.rd, IF t.signed THEN SignExtended(read, width) ELSE read)
            ELSE WriteMemory(g, address, width,
                             Reg(g, t.rd) + (IF t.rd = 15 THEN 8 ELSE 0))
    IN  IF ~Mapped(g, address) THEN Stop(g)
        ELSE IF t.preindex /\ ~t.writeBack THEN Complete(transferred)
        ELSE Complete(Put(transferred, t.rn, end))

\* SingleDataSwapInstruction: Rm is read before Rd is written.  The store goes
\* where the load has just succeeded.
SingleDataSwap(g, t) ==
    LET address == Reg(g, t.rn)
        width   == IF t.byte THEN 1 ELSE 4
        loaded  == Put(g, t.rd, ReadMemory(g, address, width))
    IN  IF ~Mapped(g, address) THEN Stop(g)
        ELSE Complete(WriteMemory(loaded, address, width, Reg(g, t.rm)))

-----------------------------------------------------------------------------
\* ARM: blocks

\* The registers of list up to n.
UpTo(list, n) == {k \in list : k <= n}

\* The i-th register of a list has i of them up to itself.
Ascending(list) ==
    [i \in 1 .. Cardinality(list) |->
        CHOOSE n \in list : Cardinality(UpTo(list, n)) = i]

\* Faulty variant: the order is not reversed when going down.
OrderAlwaysUp(list, up) == Ascending(list)

\* The order of the transfers, first register first.
Order(list, up) == IF up THEN Ascending(list) ELSE Reverse(Ascending(list))

\* The address of the i-th transfer.
BlockAddress(base, t, i) ==
    Displaced(base, t.up, 4 * (IF t.preindex THEN i ELSE i - 1))

\* Faulty variant: the end of the block is one word short.
BlockEndShort(base, t) == BlockAddress(base, t, Cardinality(t.list))

\* The base after the block.
BlockEnd(base, t) == Displaced(base, t.up, 4 * Cardinality(t.list))

\* Faulty variant: the base is written back before a store has failed.
blockDataStoreEarlyBase(g, t) ==
    LET order  == Order(t.list, t.up)
        base   == Reg(g, t.rn)
        stored == StoreWords(g, [i \in DOMAIN order |->
                     [address |-> BlockAddress(base, t, i),
                      value   |-> Reg(g, order[i])]])
    IN  IF ~t.writeBack THEN stored
        ELSE [stored EXCEPT !.m = Put(@, t.rn, BlockEnd(base, t))]

\* All the registers are read before the first store; the base is written last.
blockDataStore(g, t) ==
    LET order  == Order(t.list, t.up)
        base   == Reg(g, t.rn)
        Value(n) == IF t.forceUser THEN GetUserRegister(g.p, n).value ELSE Reg(g, n)
        stored == StoreWords(g, [i \in DOMAIN order |->
                     [address |-> BlockAddress(base, t, i), value |-> Value(order[i])]])
    IN  IF stored.ok /\ t.writeBack
          THEN Complete(Put(stored.m, t.rn, BlockEnd(base, t)))
          ELSE stored

\* What ControlInstructions!BlockDataTransfer needs of the memory: the registers
\* before the first missing page, and their words.
blockDataLoad(g, t) ==
    LET order    == Order(t.list, t.up)
        moves    == [i \in DOMAIN order |->
                       [address |-> BlockAddress(Reg(g, t.rn), t, i)]]
        loaded   == {order[i] : i \in Reached(g, moves)}
        place(n) == CHOOSE i \in DOMAIN order : order[i] = n
    IN  [rn |-> t.rn, list |-> t.list, loaded |-> loaded,
         word |-> [n \in loaded |-> ReadMemory(g, moves[place(n)].address, 4)],
         forceUser |-> t.forceUser, writeBack |-> t.writeBack,
         end |-> BlockEnd(Reg(g, t.rn), t)]

BlockTransfer(g, t) ==
    LET loaded == BlockDataTransfer(g.p, blockDataLoad(g, t))
    IN  IF ~t.load THEN blockDataStore(g, t)
        ELSE [m |-> [g EXCEPT !.p = loaded.p], ok |-> loaded.ok]

-----------------------------------------------------------------------------
\* Multiplies

\* Faulty variant: the operands of a signed multiply are not sign extended.
ProductUnsigned(g, t) == Reg(g, t.rm) * Reg(g, t.rs)

\* The 64-bit product, before it wraps.
Product(g, t) ==
    LET a == Reg(g, t.rm)
        b == Reg(g, t.rs)
    IN  IF t.signed THEN Barrel!Signed(a) * Barrel!Signed(b) ELSE a * b

WithSigns(g, t, negative, zero) ==
    IF ~t.s THEN g
    ELSE [g EXCEPT !.p.cpsr = [@ EXCEPT !.n = negative, !.z = zero]]

\* rdHigh is Rd and rdLow is Rn of a multiply that is not long.
Multiply(g, t) ==
    LET result == (Reg(g, t.rm) * Reg(g, t.rs)
                     + (IF t.accumulate THEN Reg(g, t.rdLow) ELSE 0)) % WordSpace
    IN  Complete(WithSigns(Put(g, t.rdHigh, result), t, Barrel!Sign(result), result = 0))

LongMultiply(g, t) ==
    LET toAdd  == IF t.accumulate
                    THEN Reg(g, t.rdHigh) * WordSpace + Reg(g, t.rdLow) ELSE 0
        result == (Product(g, t) + toAdd) % (WordSpace * WordSpace)
        low    == Put(g, t.rdLow, result % WordSpace)
        high   == Put(low, t.rdHigh, result \div WordSpace)
    IN  Complete(WithSigns(high, t, Barrel!Sign(result \div WordSpace), result = 0))

-----------------------------------------------------------------------------
\* Coprocessors

\* The simpleCounterCoprocessor, a number and a register; k is its place on the
\* list.  Its test of the number repeats that of the caller.
Holding(g, k, x) ==
    [g EXCEPT !.coprocessors = [@ EXCEPT ![k].register = x % WordSpace]]

Operation(g, k) == Holding(g, k, g.coprocessors[k].register + 1)

CounterTransfer(g, k, load, address) ==
    IF ~Mapped(g, address) THEN Stop(g)
    ELSE IF load THEN Complete(Holding(g, k, ReadMemory(g, address, 4)))
    ELSE Complete(WriteMemory(g, address, 4, g.coprocessors[k].register))

RegisterTransfer(g, k, rd, load) ==
    IF load THEN Put(g, rd, g.coprocessors[k].register) ELSE Holding(g, k, Reg(g, rd))

\* The first coprocessor with the number of the instruction is called, none if
\* there is no such: its index, or 0.
Called(g, number) ==
    LET matching == {k \in DOMAIN g.coprocessors : g.coprocessors[k].number = number}
    IN  IF matching = {} THEN 0 ELSE Min(matching)

CoprocDataOperation(g, t) ==
    LET k == Called(g, t.number)
    IN  Complete(IF k = 0 THEN g ELSE Operation(g, k))

\* The base is written back also when there is no such coprocessor.
CoprocDataTransfer(g, t) ==
    LET k       == Called(g, t.number)
        end     == Displaced(Reg(g, t.rn), t.up, 4 * t.offset)
        address == IF t.preindex THEN end ELSE Reg(g, t.rn)
        after   == IF k = 0 THEN Complete(g) ELSE CounterTransfer(g, k, t.load, address)
    IN  IF after.ok /\ t.writeBack THEN Complete(Put(after.m, t.rn, end)) ELSE after

CoprocRegisterTransfer(g, t) ==
    LET k == Called(g, t.number)
    IN  Complete(IF k = 0 THEN g ELSE RegisterTransfer(g, k, t.rd, t.load))
=============================================================================
