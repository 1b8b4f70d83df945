--------------------------- MODULE THUMBTransfers ---------------------------
(***************************************************************************)
(* The Emulate methods of the THUMB formats that touch memory or compute   *)
(* an address (src/emulate_thumb.go), on the machine of DataTransfers.     *)
(***************************************************************************)
EXTENDS DataTransfers

\* The pc as an address operand: that of the instruction plus 4, rounded down.
AlignedPC(g) == Cell((PC(g.p) + 2) % WordSpace)

PcRelativeLoad(g, t) ==
    Transfer(g, TRUE, t.rd, (AlignedPC(g) + 4 * t.offset) % WordSpace, 4)

LoadStoreRegisterOffset(g, t) ==
    Transfer(g, t.load, t.rd, (Reg(g, t.rb) + Reg(g, t.ro)) % WordSpace,
             IF t.byte THEN 1 ELSE 4)

\* The S and H bits: strh, ldrh, ldsb and ldsh.
LoadStoreSignExtendedHalfword(g, t) ==
    LET address == (Reg(g, t.rb) + Reg(g, t.ro)) % WordSpace
        width   == IF t.signExtend /\ ~t.halfword THEN 1 ELSE 2
        plain   == Transfer(g, t.signExtend \/ t.halfword, t.rd, address, width)
    IN  IF plain.ok /\ t.signExtend
          THEN Complete(Put(plain.m, t.rd, SignExtended(Reg(plain.m, t.rd), width)))
          ELSE plain

LoadStoreImmediateOffset(g, t) ==
    LET width == IF t.byte THEN 1 ELSE 4
    IN  Transfer(g, t.load, t.rd, (Reg(g, t.rb) + width * t.offset) % WordSpace, width)

LoadStoreHalfword(g, t) ==
    Transfer(g, t.load, t.rd, (Reg(g, t.rb) + 2 * t.offset) % WordSpace, 2)

SPRelativeLoadStore(g, t) ==
    Transfer(g, t.load, t.rd, (Reg(g, 13) + 4 * t.offset) % WordSpace, 4)

LoadAddress(g, t) ==
    Complete(Put(g, t.rd, (IF t.loadSP THEN Reg(g, 13) ELSE AlignedPC(g)) + 4 * t.offset))

AddToStackPointer(g, t) ==
    Complete(Put(g, 13, Displaced(Reg(g, 13), ~t.negative, 4 * t.offset)))

\* Faulty variant: the values are not reversed before they go down the stack.
pushRegistersInOrder(g, t) ==
    LET order  == Ascending(t.list) \o (IF t.extra THEN <<14>> ELSE <<>>)
        stored == StoreWords(g, [i \in DOMAIN order |->
                     [address |-> Displaced(Reg(g, 13), FALSE, 4 * i),
                      value   |-> Reg(g, order[i])]])
    IN  IF stored.ok
          THEN Complete(Put(stored.m, 13, Displaced(Reg(g, 13), FALSE, 4 * Len(order))))
          ELSE stored

\* t.extra stores lr with the list, or loads the pc: the sp is written last.
pushRegisters(g, t) ==
    LET order  == Reverse(Ascending(t.list) \o (IF t.extra THEN <<14>> ELSE <<>>))
        stored == StoreWords(g, [i \in DOMAIN order |->
                     [address |-> Displaced(Reg(g, 13), FALSE, 4 * i),
                      value   |-> Reg(g, order[i])]])
    IN  IF stored.ok
          THEN Complete(Put(stored.m, 13, Displaced(Reg(g, 13), FALSE, 4 * Len(order))))
          ELSE stored

\* The sp is not written back, and the pc is loaded as any register.
popRegisters(g, t) ==
    LET order == Ascending(t.list) \o (IF t.extra THEN <<15>> ELSE <<>>)
    IN  LoadWords(g, [i \in DOMAIN order |->
            [address  |-> (Reg(g, 13) + 4 * (i - 1)) % WordSpace,
             register |-> order[i]]])

PushPopRegisters(g, t) ==
    IF t.load THEN popRegisters(g, t) ELSE pushRegisters(g, t)

\* The base is written back after the last word, also over a loaded one.
MultipleLoadStore(g, t) ==
    LET order      == Ascending(t.list)
        address(i) == (Reg(g, t.rb) + 4 * (i - 1)) % WordSpace
        moved      ==
            IF t.load
              THEN LoadWords(g, [i \in DOMAIN order |->
                       [address |-> address(i), register |-> order[i]]])
              ELSE StoreWords(g, [i \in DOMAIN order |->
                       [address |-> address(i), value |-> Reg(g, order[i])]])
    IN  IF moved.ok THEN Complete(Put(moved.m, t.rb, address(Len(order) + 1))) ELSE moved

\* The first half of a bl: lr becomes the pc of the next instruction plus 2 plus
\* the sign-extended high part of the offset.
LongBranchHigh(g, t) ==
    LET high == IF 2 * t.offset >= 2^BranchBits THEN t.offset - 2^BranchBits ELSE t.offset
    IN  Complete(Put(g, 14, PC(g.p) + 2 + high * 2^(BranchBits + 1)))

\* Faulty variant: the return address is put in lr before lr is read.
LongBranchLowLate(g, t) ==
    LET linked == Put(g, 14, PC(g.p) + 1)
    IN  Complete(Put(linked, 15, Reg(linked, 14) + 2 * t.offset))

\* The second half.  The pc is even or, after a bx that left bit 0 in it, odd:
\* either way bit 0 of lr is set.
LongBranchLow(g, t) ==
    LET target == Reg(g, 14) + 2 * t.offset
        back   == PC(g.p) + 1 - (PC(g.p) % 2)
    IN  Complete(Put(Put(g, 14, back), 15, target))
=============================================================================
