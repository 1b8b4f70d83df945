--------------------------- MODULE HandlerNesting ---------------------------
(***************************************************************************)
(* Exceptions taken inside exceptions. The guest is well behaved: each     *)
(* handler runs in ARM state, saves its return state before it lets itself *)
(* be interrupted, puts it back, and leaves with the ARM return            *)
(* instruction, subs pc, lr, #4 for an interrupt and movs pc, lr for a     *)
(* swi. A program in THUMB state is never interrupted, since SendIRQ and   *)
(* SendFIQ enter the handler in THUMB state too (see InterruptsEnterARM in *)
(* GuestControl); it may call swi. The processor is basicARMProcessor as   *)
(* it is: SendIRQ and SendFIQ do not mask interrupts on entry, and every   *)
(* mode change made by SetCPSR writes the SPSR of the mode it goes to      *)
(* (src/processor.go).                                                     *)
(*                                                                         *)
(* frames records what each exception interrupted, outermost first, to say *)
(* what the handler's return ought to restore.  It is not in the code.     *)
(***************************************************************************)
EXTENDS ControlInstructions, Sequences, SequencesExt

CONSTANTS
    Targets,            \* addresses the guest branches to
    GuestFlags,         \* flags a comparison may produce, as status records
    GuestMasks,         \* I and F bits that privileged code sets, as pairs
    ProgramStates,      \* T bits the program may start with
    MaxExceptions       \* bound: exceptions taken in a run

ASSUME NestingAssumption ==
    /\ Targets \subseteq Word
    /\ GuestFlags \subseteq Status
    /\ GuestMasks \subseteq BOOLEAN \X BOOLEAN
    /\ ProgramStates \subseteq BOOLEAN
    /\ MaxExceptions \in Nat

VARIABLES
    p,                  \* the processor
    frames,             \* the active exceptions
    taken               \* exceptions taken so far, for the bound

vars == <<p, frames, taken>>

(***************************************************************************)
(* A frame: the mode of the handler, the pc and CPSR it interrupted, the   *)
(* lr and SPSR it has saved, where it stands, and whether it was exposed:  *)
(* interrupted while its return state was only in the banked registers, or *)
(* resumed by a handler that had been.                                     *)
(***************************************************************************)
Phases == {"entered", "saved", "restored"}

Frame == [mode : SavedModes, pc : Word, cpsr : Status, lr : Word, spsr : Status,
          phase : Phases, exposed : BOOLEAN]

Top == Last(frames)

Init ==
    /\ \E thumb \in ProgramStates : p = SetTHUMBMode(NewARMProcessor, thumb).p
    /\ frames = <<>>
    /\ taken = 0

-----------------------------------------------------------------------------
\* Taking an exception

Interruptible == ~p.cpsr.thumb

Push(mode, resume) ==
    LET outer == IF frames = <<>> THEN frames
                 ELSE Front(frames) \o
                      <<[Top EXCEPT !.exposed = @ \/ Top.phase # "saved"]>>
        frame == [mode |-> mode, pc |-> resume, cpsr |-> p.cpsr, lr |-> 0,
                  spsr |-> ZeroStatus, phase |-> "entered", exposed |-> FALSE]
    IN  /\ taken < MaxExceptions
        /\ taken' = taken + 1
        /\ frames' = Append(outer, frame)

TakeIRQ ==
    /\ Interruptible /\ ~p.cpsr.irqDisabled
    /\ p' = SendIRQ(p).p
    /\ Push(irqMode, PC(p))

TakeFIQ ==
    /\ Interruptible /\ ~p.cpsr.fiqDisabled
    /\ p' = SendFIQ(p).p
    /\ Push(fiqMode, PC(p))

\* A masked interrupt is dropped: the code keeps no pending request.
TakeMasked ==
    /\ \/ p.cpsr.irqDisabled /\ p' = SendIRQ(p).p
       \/ p.cpsr.fiqDisabled /\ p' = SendFIQ(p).p
    /\ UNCHANGED <<frames, taken>>

\* A handler makes no system call before it has saved its state.
MayCall == frames # <<>> => Top.phase = "saved"

CallSupervisor ==
    /\ MayCall
    /\ p' = (IF p.cpsr.thumb THEN SoftwareInterruptTHUMB(Fetched(p))
                             ELSE SoftwareInterrupt(Fetched(p))).p
    /\ Push(supervisorMode, PC(Fetched(p)))

-----------------------------------------------------------------------------
\* Ordinary code, of the program or of a handler that has saved its state

Compare ==
    /\ MayCall
    /\ \E f \in GuestFlags :
          p' = DataProcessing(Fetched(p),
                 [rd |-> 0, result |-> 0, flags |-> f, writes |-> FALSE, s |-> TRUE]).p
    /\ UNCHANGED <<frames, taken>>

BranchTo ==
    /\ MayCall
    /\ \E x \in Targets : p' = Branch(Fetched(p), FALSE, x).p
    /\ UNCHANGED <<frames, taken>>

\* mrs, orr or bic, and msr of the CPSR; in user mode only the flags are written.
Mask ==
    /\ MayCall /\ ~p.cpsr.thumb
    /\ \E m \in GuestMasks :
          p' = WritePSR(Fetched(p), TRUE, FALSE, 0,
                 [p.cpsr EXCEPT !.irqDisabled = m[1], !.fiqDisabled = m[2]]).p
    /\ UNCHANGED <<frames, taken>>

-----------------------------------------------------------------------------
\* The handler's prologue, epilogue and return, in ARM state

InHandler(phase) == frames # <<>> /\ Top.phase = phase /\ ~p.cpsr.thumb

\* stmfd of lr, mrs and a push of the SPSR, to the handler's own stack.
SaveState ==
    /\ InHandler("entered")
    /\ frames' = Front(frames) \o
                 <<[Top EXCEPT !.phase = "saved",
                               !.lr = GetRegister(p, 14).value,
                               !.spsr = GetSPSR(p).value]>>
    /\ p' = Fetched(p)
    /\ UNCHANGED taken

\* ldmfd of lr, and msr of the SPSR.
RestoreState ==
    /\ InHandler("saved")
    /\ p' = WritePSR(SetRegister(Fetched(p), 14, Top.lr).p, FALSE, FALSE, 0, Top.spsr).p
    /\ frames' = Front(frames) \o <<[Top EXCEPT !.phase = "restored"]>>
    /\ UNCHANGED taken

\* subs pc, lr, #4 or movs pc, lr; a handler that saved nothing may also
\* return at once.  The flags the subtraction leaves do not matter.
Return ==
    /\ InHandler("entered") \/ InHandler("restored")
    /\ LET back == IF Top.mode = supervisorMode THEN 0 ELSE 4
           lr   == GetRegister(p, 14).value
       IN  p' = DataProcessing(Fetched(p),
                  [rd |-> 15, result |-> (lr - back) % WordSpace,
                   flags |-> ZeroStatus, writes |-> TRUE, s |-> TRUE]).p
    /\ frames' = LET outer == Front(frames)
                 IN  IF outer # <<>> /\ Top.exposed
                       THEN [outer EXCEPT ![Len(outer)].exposed = TRUE]
                       ELSE outer
    /\ UNCHANGED taken

Next ==
    \/ TakeIRQ \/ TakeFIQ \/ TakeMasked \/ CallSupervisor
    \/ Compare \/ BranchTo \/ Mask
    \/ SaveState \/ RestoreState \/ Return

Spec == Init /\ [][Next]_vars

-----------------------------------------------------------------------------
\* Properties

TypeOK == p \in Processors /\ frames \in Seq(Frame) /\ Len(frames) <= taken
          /\ taken \in 0 .. MaxExceptions

Resumes(frame) == p'.cpsr = frame.cpsr /\ PC(p') = frame.pc

Returned == Len(frames') < Len(frames)

\* A handler whose return state was never left in the banked registers during
\* another exception returns to the instruction, the mode and the flags it
\* interrupted, however many exceptions came in between, also of its own mode.
SavingHandlersReturn == [][Returned /\ ~Top.exposed => Resumes(Top)]_vars

\* The return state of the handler now running is where its return will look
\* for it: in the frame while it is saved, else in its lr and SPSR.
ReturnStateKept ==
    frames # <<>> /\ ~Top.exposed =>
        LET lr     == IF Top.phase = "saved" THEN Top.lr ELSE GetRegister(p, 14).value
            status == IF Top.phase = "saved" THEN Top.spsr ELSE GetSPSR(p).value
            back   == IF Top.mode = supervisorMode THEN 0 ELSE 4
        IN  p.cpsr.mode = Top.mode /\ lr = (Top.pc + back) % WordSpace
            /\ status = Top.cpsr
=============================================================================
