---------------------------- MODULE GuestControl ----------------------------
(***************************************************************************)
(* An arbitrary guest program on basicARMProcessor: any sequence of        *)
(* instructions that move the pc, the mode or a status register, run by    *)
(* RunNextInstruction (src/processor.go), with the host calling SendIRQ    *)
(* and SendFIQ between any two of them.  Nothing is assumed of the guest:  *)
(* every instruction may come next with any operands, in any mode.         *)
(***************************************************************************)
EXTENDS ControlInstructions

CONSTANTS
    BootModes,          \* modes the host may start the guest in
    GuestRegisters,     \* register numbers named by instructions
    GuestWords,         \* results, branch targets and words read from memory
    GuestFlags,         \* flags an opcode may produce, as status records
    GuestStatus,        \* status words a guest register or the memory may hold
    GuestLists,         \* register lists of block transfers
    MaxSteps            \* bound: length of the instruction sequences explored

ASSUME GuestAssumption ==
    /\ BootModes \subseteq ValidModes
    /\ GuestRegisters \subseteq 0 .. 15
    /\ GuestWords \subseteq Word
    /\ GuestFlags \subseteq Status
    /\ GuestStatus \subseteq Status
    /\ \A list \in GuestLists : list \subseteq 0 .. 15
    /\ MaxSteps \in Nat

VARIABLES
    p,                  \* the processor
    ok,                 \* did the last call return a nil error?
    steps               \* calls so far

vars == <<p, ok, steps>>

\* A new processor on which the host has chosen a mode and a state; SetMode
\* from user mode stores a valid CPSR as the SPSR of that mode.
Init ==
    /\ \E m \in BootModes, thumb \in BOOLEAN :
          p = SetTHUMBMode(SetMode(NewARMProcessor, m).p, thumb).p
    /\ ok = TRUE
    /\ steps = 0

Returns(result) ==
    /\ steps < MaxSteps
    /\ steps' = steps + 1
    /\ p' = result.p
    /\ ok' = result.ok

-----------------------------------------------------------------------------
\* Instructions in ARM state

InARM   == ~p.cpsr.thumb
InTHUMB == p.cpsr.thumb

RunDataProcessing ==
    /\ InARM
    /\ \E rd \in GuestRegisters, x \in GuestWords, f \in GuestFlags,
          writes \in BOOLEAN, s \in BOOLEAN :
          Returns(DataProcessing(Fetched(p),
             [rd |-> rd, result |-> x, flags |-> f, writes |-> writes, s |-> s]))

\* The second operand is shifted by r15, an error before anything is done.
RunRefusedShift == InARM /\ Returns(Fail(Fetched(p)))

RunMRS ==
    /\ InARM
    /\ \E rd \in GuestRegisters, useCPSR \in BOOLEAN, x \in GuestWords :
          Returns(ReadPSR(Fetched(p), rd, useCPSR, x))

RunMSR ==
    /\ InARM
    /\ \E useCPSR \in BOOLEAN, flagsOnly \in BOOLEAN, s \in GuestStatus,
          rm \in GuestRegisters \union {NoRegister} :
          Returns(WritePSR(Fetched(p), useCPSR, flagsOnly, rm, s))

\* The transfer may stop anywhere in the list, from either end (the U bit).
Prefixes(list) ==
    {{n \in list : n < k} : k \in list \union {16}}
        \union {{n \in list : n > k} : k \in list}

RunLDM ==
    /\ InARM
    /\ \E list \in GuestLists : \E loaded \in Prefixes(list),
          forceUser \in BOOLEAN, writeBack \in BOOLEAN,
          rn \in GuestRegisters, x \in GuestWords, end \in GuestWords :
          Returns(BlockDataTransfer(Fetched(p),
             [rn |-> rn, list |-> list, loaded |-> loaded,
              word |-> [n \in list |-> x], forceUser |-> forceUser,
              writeBack |-> writeBack, end |-> end]))

RunBranch ==
    \E link \in BOOLEAN, x \in GuestWords :
        (InTHUMB => ~link) /\ Returns(Branch(Fetched(p), link, x))

RunBX == InARM /\ \E x \in GuestWords : Returns(BranchExchange(Fetched(p), x))

RunSWI == InARM /\ Returns(SoftwareInterrupt(Fetched(p)))

-----------------------------------------------------------------------------
\* Instructions in THUMB state: no access to the status registers but the
\* flags, and any register can be written by some of them.

RunBXTHUMB ==
    InTHUMB /\ \E x \in GuestWords : Returns(BranchExchangeTHUMB(Fetched(p), x))

RunSWITHUMB == InTHUMB /\ Returns(SoftwareInterruptTHUMB(Fetched(p)))

RunDataTHUMB ==
    /\ InTHUMB
    /\ \E rd \in GuestRegisters, x \in GuestWords, f \in GuestFlags :
          LET flagged == [Fetched(p) EXCEPT !.cpsr = WithFlags(@, f)]
          IN  Returns(SetRegister(flagged, rd, x))

-----------------------------------------------------------------------------
\* Instructions that do nothing, and the host

\* The condition is not met.
RunSkipped == Returns(Done(Fetched(p)))

\* The word cannot be decoded.  The pc has moved only in THUMB state, where
\* RunNextInstruction increments it before it decodes.
RunUndecodable == Returns(Fail(IF p.cpsr.thumb THEN Fetched(p) ELSE p))

HostIRQ == Returns(SendIRQ(p))
HostFIQ == Returns(SendFIQ(p))

GuestStep ==
    \/ RunDataProcessing \/ RunRefusedShift \/ RunMRS \/ RunMSR \/ RunLDM
    \/ RunBranch \/ RunBX \/ RunSWI \/ RunBXTHUMB \/ RunSWITHUMB \/ RunDataTHUMB
    \/ RunSkipped \/ RunUndecodable

Next == GuestStep \/ HostIRQ \/ HostFIQ

Spec == Init /\ [][Next]_vars

-----------------------------------------------------------------------------
\* Properties

TypeOK == p \in Processors /\ ok \in BOOLEAN /\ steps \in 0 .. MaxSteps

UserSlots == {userMode} \X (0 .. 15)

Control(status) == <<status.mode, status.irqDisabled, status.fiqDisabled>>

\* What user mode may do on its own: its registers, its flags and T.
StaysInUserMode ==
    /\ Control(p'.cpsr) = Control(p.cpsr)
    /\ p'.spsr = p.spsr
    /\ \A s \in Slots \ UserSlots : p'.regs[s] = p.regs[s]

\* How user mode gets out: to mode m at its vector, with what was interrupted
\* in the SPSR and lr of m and everything else as it was.
EntersFromUser(m, lr, vector) ==
    /\ p'.cpsr.mode = m
    /\ p'.spsr = [p.spsr EXCEPT ![m] = p.cpsr]
    /\ p'.regs = [p.regs EXCEPT ![RegisterSlot(m, 14)] = lr % WordSpace,
                                ![<<userMode, 15>>] = vector]

Interrupted == \/ EntersFromUser(irqMode, PC(p) + 4, 24)
               \/ EntersFromUser(fiqMode, PC(p) + 4, 28)

CalledSupervisor ==
    /\ EntersFromUser(supervisorMode, PC(p) + (IF InTHUMB THEN 2 ELSE 4), 8)
    /\ ~p'.cpsr.thumb

\* A user-mode program cannot leave user mode, mask interrupts, or touch an
\* SPSR or a banked register, by msr, by movs pc, by ldm with ^ or any
\* sequence of instructions that fail half-way: only swi and the host's
\* interrupts get it out.
UserIsolation ==
    [][p.cpsr.mode = userMode
            => StaysInUserMode \/ CalledSupervisor \/ Interrupted]_vars

\* No step, of the guest or the host, writes a register that is neither the
\* user bank's nor one of the mode it starts or ends in.
BankIsolation ==
    [][\A s \in Slots : p'.regs[s] # p.regs[s]
            => s[1] \in {userMode, p.cpsr.mode, p'.cpsr.mode}]_vars

\* An SPSR changes only for the mode the step ends in: SetMode's write to the
\* SPSR of the mode it enters is never left behind in a mode not entered.
SavedStatusStability ==
    [][\A m \in SavedModes : p'.spsr[m] # p.spsr[m] => p'.cpsr.mode = m]_vars

\* A guest that loads an SPSR with an undefined mode and returns through it
\* gets an error, and the processor stays in a mode it has registers for.
ModeAlwaysValid == p.cpsr.mode \in ValidModes

\* An instruction that fails has neither switched modes nor masked interrupts
\* nor lost a saved status, whatever else it had done by then.
FailuresKeepControl ==
    [][~ok' => Control(p'.cpsr) = Control(p.cpsr) /\ p'.spsr = p.spsr]_vars

\* An interrupt jumps to its handler the way swi does, in ARM state: the word
\* at the vector is an ARM instruction.
InterruptsEnterARM ==
    [][(HostIRQ \/ HostFIQ) /\ p' # p => ~p'.cpsr.thumb]_vars
=============================================================================
