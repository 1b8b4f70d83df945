----------------------------- MODULE Processor -----------------------------
(***************************************************************************)
(* The register file of basicARMProcessor (src/processor.go) and every     *)
(* method that reads or writes it, as operators on a processor value       *)
(*                                                                         *)
(*   q = [cpsr |-> status, spsr |-> [SavedModes -> status],                *)
(*        regs |-> [Slots -> Word]]                                        *)
(*                                                                         *)
(* A method that may change the processor yields [p |-> q', ok |-> BOOLEAN]*)
(* where ok is FALSE when the Go method returns a non-nil error; one that  *)
(* reads a value yields [value |-> x, ok |-> BOOLEAN].                     *)
(*                                                                         *)
(* A status register is a record of the bits the code tests: the four      *)
(* condition flags, I (bit 7), F (bit 6), T (bit 5) and the mode field.    *)
(* Bits 8 to 27 are never tested and only ever travel with the control     *)
(* bits, so they are left out.                                             *)
(***************************************************************************)
EXTENDS Integers

CONSTANT WordSpace      \* number of values of a uint32: 2^32 in the code

\* The exception vectors and the +4 of SendIRQ are words.
ASSUME WordSpaceAssumption == WordSpace \in Nat /\ WordSpace > 28

Word == 0 .. (WordSpace - 1)

-----------------------------------------------------------------------------
\* Modes and status registers

userMode       == 16
fiqMode        == 17
irqMode        == 18
supervisorMode == 19
abortMode      == 23
undefinedMode  == 27
systemMode     == 31

SavedModes == {fiqMode, irqMode, supervisorMode, abortMode, undefinedMode}
ValidModes == SavedModes \union {userMode, systemMode}

Flags == {"n", "z", "c", "v"}

Status == [n : BOOLEAN, z : BOOLEAN, c : BOOLEAN, v : BOOLEAN,
           irqDisabled : BOOLEAN, fiqDisabled : BOOLEAN, thumb : BOOLEAN,
           mode : 0 .. 31]

\* The uint32 zero: every status register of a new processor but the CPSR.
ZeroStatus == [n |-> FALSE, z |-> FALSE, c |-> FALSE, v |-> FALSE,
               irqDisabled |-> FALSE, fiqDisabled |-> FALSE, thumb |-> FALSE,
               mode |-> 0]

WithFlags(status, from) ==
    [status EXCEPT !.n = from.n, !.z = from.z, !.c = from.c, !.v = from.v]

-----------------------------------------------------------------------------
\* Register storage: currentRegisters is bank userMode, the other arrays carry
\* the name of their mode and are indexed from 0 as in the Go arrays.

Slots == ({userMode} \X (0 .. 15)) \union ({fiqMode} \X (0 .. 6))
            \union ((SavedModes \ {fiqMode}) \X (0 .. 1))

Processors == [cpsr : Status, spsr : [SavedModes -> Status],
               regs : [Slots -> Word]]

NewARMProcessor == [cpsr |-> [ZeroStatus EXCEPT !.mode = userMode],
                    spsr |-> [m \in SavedModes |-> ZeroStatus],
                    regs |-> [s \in Slots |-> 0]]

Done(q) == [p |-> q, ok |-> TRUE]
Fail(q) == [p |-> q, ok |-> FALSE]

\* Faulty variant: the test for r8 to r12 comes before the one for fiq mode.
RegisterSlotLowFirst(mode, number) ==
    IF number = 15 \/ number < 13 \/ mode \in {userMode, systemMode}
      THEN <<userMode, number>>
    ELSE IF mode = fiqMode THEN <<fiqMode, number - 8>>
    ELSE <<mode, number - 13>>

\* Faulty variant: a case of the switch copied from another mode.
RegisterSlotCopied(mode, number) ==
    IF number = 15 \/ number < 8 \/ mode \in {userMode, systemMode}
      THEN <<userMode, number>>
    ELSE IF mode = fiqMode THEN <<fiqMode, number - 8>>
    ELSE IF number < 13 THEN <<userMode, number>>
    ELSE <<IF mode = supervisorMode THEN irqMode ELSE mode, number - 13>>

\* The chain of tests shared by GetRegister and SetRegister, for number <= 15.
RegisterSlot(mode, number) ==
    IF number = 15 \/ number < 8 \/ mode \in {userMode, systemMode}
      THEN <<userMode, number>>
    ELSE IF mode = fiqMode THEN <<fiqMode, number - 8>>
    ELSE IF number < 13 THEN <<userMode, number>>
    ELSE <<mode, number - 13>>

\* The final error return is the code's "Should be unreachable".
GetRegister(q, number) ==
    LET slot == RegisterSlot(q.cpsr.mode, number)
    IN  IF number > 15 \/ slot \notin Slots THEN [value |-> 0, ok |-> FALSE]
        ELSE [value |-> q.regs[slot], ok |-> TRUE]

\* With a mode that has no bank the switch falls through: no error, no write.
SetRegister(q, number, value) ==
    IF number > 15 THEN Fail(q)
    ELSE Done([q EXCEPT !.regs =
                 [@ EXCEPT ![RegisterSlot(q.cpsr.mode, number)] = value]])

GetUserRegister(q, number) ==
    IF number > 15 THEN [value |-> 0, ok |-> FALSE]
    ELSE [value |-> q.regs[<<userMode, number>>], ok |-> TRUE]

SetUserRegister(q, number, value) ==
    IF number > 15 THEN Fail(q)
    ELSE Done([q EXCEPT !.regs = [@ EXCEPT ![<<userMode, number>>] = value]])

-----------------------------------------------------------------------------
\* Status registers

SetFlag(q, flag, value) == Done([q EXCEPT !.cpsr = [@ EXCEPT ![flag] = value]])

SetTHUMBMode(q, thumbMode) == Done([q EXCEPT !.cpsr.thumb = thumbMode])

GetSPSR(q) ==
    IF q.cpsr.mode \in SavedModes
      THEN [value |-> q.spsr[q.cpsr.mode], ok |-> TRUE]
      ELSE [value |-> ZeroStatus, ok |-> FALSE]

SetSPSR(q, status) ==
    IF q.cpsr.mode \in SavedModes
      THEN Done([q EXCEPT !.spsr = [@ EXCEPT ![q.cpsr.mode] = status]])
      ELSE Fail(q)

\* Faulty variant: the CPSR is saved before the mode changes.
SetModeSavesTooEarly(q, mode) ==
    IF mode \notin ValidModes THEN Fail(q)
    ELSE Done([SetSPSR(q, q.cpsr).p EXCEPT !.cpsr.mode = mode])

\* Faulty variant: the CPSR is not saved.
SetModeWithoutSaving(q, mode) ==
    IF mode \notin ValidModes THEN Fail(q)
    ELSE Done([q EXCEPT !.cpsr.mode = mode])

\* The whole old CPSR becomes the SPSR of the mode that is entered.
SetMode(q, mode) ==
    IF mode \notin ValidModes THEN Fail(q)
    ELSE LET switched == [q EXCEPT !.cpsr.mode = mode]
         IN  IF mode \in SavedModes THEN SetSPSR(switched, q.cpsr)
             ELSE Done(switched)

\* Faulty variant: the error of SetMode is not looked at.
SetCPSRIgnoringError(q, status) ==
    LET moved == IF status.mode # q.cpsr.mode THEN SetMode(q, status.mode)
                 ELSE Done(q)
    IN  Done([moved.p EXCEPT !.cpsr =
                IF q.cpsr.mode = userMode THEN WithFlags(q.cpsr, status) ELSE status])

\* Faulty variant: SetMode is called also when the mode does not change.
SetCPSRAlwaysSwitching(q, status) ==
    LET moved == SetMode(q, status.mode)
    IN  IF ~moved.ok THEN moved
        ELSE Done([moved.p EXCEPT !.cpsr =
                     IF q.cpsr.mode = userMode THEN WithFlags(q.cpsr, status)
                     ELSE status])

\* Faulty variant: the other bits are stored before SetMode can fail.
SetCPSRStoringFirst(q, status) ==
    LET stored == IF q.cpsr.mode = userMode THEN WithFlags(q.cpsr, status)
                  ELSE [status EXCEPT !.mode = q.cpsr.mode]
        kept   == [q EXCEPT !.cpsr = stored]
        moved  == SetMode(q, status.mode)
    IN  IF status.mode = q.cpsr.mode THEN Done(kept)
        ELSE IF ~moved.ok THEN Fail(kept)
        ELSE Done([moved.p EXCEPT !.cpsr =
                     IF q.cpsr.mode = userMode THEN stored ELSE status])

\* SetMode runs first, also when a user-mode caller will not get the mode: the
\* SPSR it wrote stays, then the CPSR is replaced.
SetCPSR(q, status) ==
    LET moved  == IF status.mode # q.cpsr.mode THEN SetMode(q, status.mode)
                  ELSE Done(q)
        stored == IF q.cpsr.mode = userMode THEN WithFlags(q.cpsr, status)
                  ELSE status
    IN  IF ~moved.ok THEN moved
        ELSE Done([moved.p EXCEPT !.cpsr = stored])

-----------------------------------------------------------------------------
\* Exceptions

\* The part SendIRQ, SendFIQ and the SWI handlers have in common: SetMode, then
\* lr of the new bank, then pc. None of the three calls can fail here.
EnterException(q, mode, returnAddress, vector) ==
    LET entered == SetMode(q, mode).p
        linked  == SetRegister(entered, 14, returnAddress).p
    IN  SetRegister(linked, 15, vector)

PC(q) == GetRegister(q, 15).value

\* Faulty variants: no wrap at the end of memory; no correction.
ReturnAddressUnbounded(q)   == PC(q) + 4
ReturnAddressUncorrected(q) == PC(q)

ReturnAddress(q) == (PC(q) + 4) % WordSpace

SendIRQ(q) ==
    IF q.cpsr.irqDisabled THEN Done(q)
    ELSE EnterException(q, irqMode, ReturnAddress(q), 24)

SendFIQ(q) ==
    IF q.cpsr.fiqDisabled THEN Done(q)
    ELSE EnterException(q, fiqMode, ReturnAddress(q), 28)
=============================================================================
