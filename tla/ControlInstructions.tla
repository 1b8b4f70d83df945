------------------------ MODULE ControlInstructions -------------------------
(***************************************************************************)
(* The Emulate methods of the instructions that can move the pc, the mode  *)
(* or a status register (src/emulate.go, src/emulate_thumb.go), as         *)
(* operators on a processor.  Each is what happens once its condition      *)
(* holds; RunNextInstruction has already advanced the pc (see Fetched).    *)
(*                                                                         *)
(* Values an opcode computes, words read from memory and words a status    *)
(* register reads as are parameters here: any value the caller chooses.    *)
(* A failing instruction keeps what it did before the error, as the code   *)
(* does.                                                                   *)
(***************************************************************************)
EXTENDS Processor

\* Faulty variant: the pc is not a uint32.
FetchedUnbounded(q) ==
    SetRegister(q, 15, PC(q) + (IF q.cpsr.thumb THEN 2 ELSE 4)).p

\* What RunNextInstruction does before Emulate: pc+4, or pc+2 in THUMB state.
Fetched(q) ==
    LET width == IF q.cpsr.thumb THEN 2 ELSE 4
    IN  SetRegister(q, 15, (PC(q) + width) % WordSpace).p

(***************************************************************************)
(* DataProcessingInstruction.  d.flags and d.result are what the opcode    *)
(* handler left in the CPSR and returned, d.writes is FALSE for tst, teq,  *)
(* cmp and cmn, d.s is the S bit.  The handler always sets the flags; a    *)
(* clear S bit puts the old CPSR back at the end.                          *)
(***************************************************************************)
DataProcessing(q, d) ==
    LET evaluated == [q EXCEPT !.cpsr = WithFlags(@, d.flags)]
        written   == IF d.writes THEN SetRegister(evaluated, d.rd, d.result).p
                     ELSE evaluated
        saved     == GetSPSR(written)
    IN  IF d.writes /\ d.rd = 15 /\ d.s
          THEN IF saved.ok THEN SetCPSR(written, saved.value) ELSE Fail(written)
        ELSE IF d.s THEN Done(written)
        ELSE SetCPSR(written, q.cpsr)

\* PSRTransferInstruction reading (MRS); word is the status register's word.
ReadPSR(q, rd, useCPSR, word) ==
    IF rd = 15 \/ (~useCPSR /\ ~GetSPSR(q).ok) THEN Fail(q)
    ELSE SetRegister(q, rd, word)

\* Faulty variant: no test for user mode.
WritePSRUnmasked(q, useCPSR, flagsOnly, rm, status) ==
    LET current == IF useCPSR THEN [value |-> q.cpsr, ok |-> TRUE] ELSE GetSPSR(q)
        value   == IF flagsOnly THEN WithFlags(current.value, status) ELSE status
    IN  IF rm = 15 \/ (flagsOnly /\ ~current.ok) THEN Fail(q)
        ELSE IF useCPSR THEN SetCPSR(q, value) ELSE SetSPSR(q, value)

\* rm of an msr that has an immediate instead.
NoRegister == 16

\* PSRTransferInstruction writing (MSR) status, the word of register rm or an
\* immediate.  User mode gets the flags only.
WritePSR(q, useCPSR, flagsOnly, rm, status) ==
    LET current  == IF useCPSR THEN [value |-> q.cpsr, ok |-> TRUE] ELSE GetSPSR(q)
        masked   == flagsOnly \/ q.cpsr.mode = userMode
        value    == IF masked THEN WithFlags(current.value, status) ELSE status
    IN  IF rm = 15 \/ (masked /\ ~current.ok) THEN Fail(q)
        ELSE IF useCPSR THEN SetCPSR(q, value) ELSE SetSPSR(q, value)

(***************************************************************************)
(* BlockDataTransferInstruction loading (LDM).  b.list is the register     *)
(* list, b.loaded the registers whose words could be read before the first *)
(* memory error (all of them when there is none), b.word[n] the word for   *)
(* register n and b.end the base address after the last transfer.          *)
(***************************************************************************)
BlockDataLoad(q, b) ==
    LET userBank == b.forceUser /\ 15 \notin b.list
        bank     == IF userBank THEN userMode ELSE q.cpsr.mode
        written  == {RegisterSlot(bank, n) : n \in b.loaded}
        number(slot) == CHOOSE n \in b.loaded : RegisterSlot(bank, n) = slot
    IN  [q EXCEPT !.regs = [s \in Slots |->
            IF s \in written THEN b.word[number(s)] ELSE @[s]]]

\* Faulty variant: the status is restored also when the load has failed.
BlockDataTransferRestoring(q, b) ==
    LET loaded   == BlockDataLoad(q, b)
        restored == IF b.forceUser /\ 15 \in b.list /\ GetSPSR(loaded).ok
                      THEN SetCPSR(loaded, GetSPSR(loaded).value).p ELSE loaded
    IN  IF b.loaded # b.list THEN Fail(restored)
        ELSE IF b.forceUser /\ 15 \in b.list /\ ~GetSPSR(loaded).ok THEN Fail(loaded)
        ELSE IF b.writeBack /\ b.rn \notin b.list THEN SetRegister(restored, b.rn, b.end)
        ELSE Done(restored)

BlockDataTransfer(q, b) ==
    LET loaded == BlockDataLoad(q, b)
        based  == IF b.writeBack /\ b.rn \notin b.list
                    THEN SetRegister(loaded, b.rn, b.end).p ELSE loaded
        saved  == GetSPSR(based)
    IN  IF b.loaded # b.list THEN Fail(loaded)
        ELSE IF ~(b.forceUser /\ 15 \in b.list) THEN Done(based)
        ELSE IF saved.ok THEN SetCPSR(based, saved.value)
        ELSE Fail(based)

\* BranchInstruction and the THUMB branches: target is the computed address.
Branch(q, link, target) ==
    LET linked == IF link THEN SetRegister(q, 14, PC(q)).p ELSE q
    IN  SetRegister(linked, 15, target)

\* BranchExchangeInstruction: bit 0 of the register chooses THUMB and stays in
\* the pc.
BranchExchange(q, destination) ==
    LET state == IF destination % 2 = 1 THEN SetTHUMBMode(q, TRUE).p ELSE q
    IN  SetRegister(state, 15, destination)

\* The bx of HighRegisterOperationInstruction leaves THUMB when bit 0 is clear.
BranchExchangeTHUMB(q, destination) ==
    LET state == IF destination % 2 = 0 THEN SetTHUMBMode(q, FALSE).p ELSE q
    IN  SetRegister(state, 15, destination)

SoftwareInterrupt(q) == EnterException(q, supervisorMode, PC(q), 8)

SoftwareInterruptTHUMB(q) ==
    SetTHUMBMode(EnterException(q, supervisorMode, PC(q), 8).p, FALSE)
=============================================================================
