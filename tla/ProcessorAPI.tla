---------------------------- MODULE ProcessorAPI ----------------------------
(***************************************************************************)
(* basicARMProcessor driven by its embedding program through the           *)
(* ARMProcessor interface (src/processor.go): any sequence of the methods  *)
(* that change registers or status, in any order, with valid and invalid   *)
(* arguments.                                                              *)
(***************************************************************************)
EXTENDS Processor

CONSTANTS
    HostModes,          \* arguments the host passes to SetMode (a uint8)
    HostStatus,         \* arguments of SetCPSR and SetSPSR
    HostFlags,          \* flags the host sets
    HostRegisters,      \* register numbers (an ARMRegister is a uint8)
    HostValues          \* words written to registers

ASSUME HostAssumption ==
    /\ HostModes \subseteq 0 .. 255
    /\ HostStatus \subseteq Status
    /\ HostFlags \subseteq Flags
    /\ HostRegisters \subseteq 0 .. 255
    /\ HostValues \subseteq Word

VARIABLES
    p,                  \* the processor
    ok                  \* did the last call return a nil error?

vars == <<p, ok>>

Init == p = NewARMProcessor /\ ok = TRUE

Returns(result) == p' = result.p /\ ok' = result.ok

CallSetMode          == \E m \in HostModes : Returns(SetMode(p, m))
CallSetCPSR          == \E s \in HostStatus : Returns(SetCPSR(p, s))
CallSetSPSR          == \E s \in HostStatus : Returns(SetSPSR(p, s))
CallSetFlag          == \E f \in HostFlags, b \in BOOLEAN :
                            Returns(SetFlag(p, f, b))
CallSetTHUMBMode     == \E b \in BOOLEAN : Returns(SetTHUMBMode(p, b))
CallSetRegister      == \E n \in HostRegisters, x \in HostValues :
                            Returns(SetRegister(p, n, x))
CallSetUserRegister  == \E n \in HostRegisters, x \in HostValues :
                            Returns(SetUserRegister(p, n, x))
CallSendIRQ          == Returns(SendIRQ(p))
CallSendFIQ          == Returns(SendFIQ(p))

Next ==
    \/ CallSetMode
    \/ CallSetCPSR
    \/ CallSetSPSR
    \/ CallSetFlag
    \/ CallSetTHUMBMode
    \/ CallSetRegister
    \/ CallSetUserRegister
    \/ CallSendIRQ
    \/ CallSendFIQ

Spec == Init /\ [][Next]_vars

-----------------------------------------------------------------------------
\* Properties

\* Every register holds a word and every status register has its fields: the
\* Go field types, which the +4 of SendIRQ and SendFIQ could leave.
TypeOK == p \in Processors /\ ok \in BOOLEAN

\* No sequence of calls leaves an undefined mode in the CPSR, although SPSRs
\* start at zero and SetSPSR accepts any word, so that the last return of
\* GetRegister (processor.go:217 "Should be unreachable") is unreachable.
ModeAlwaysValid ==
    /\ p.cpsr.mode \in ValidModes
    /\ \A n \in 0 .. 15 : GetRegister(p, n).ok

\* A method that returns an error has changed nothing: SetCPSR, which calls
\* SetMode and then stores, and SetMode, which stores and then calls SetSPSR,
\* are all-or-nothing.
FailedCallsChangeNothing == [][~ok' => p' = p]_vars

\* SetCPSR of the value GetCPSR returned changes nothing, in any mode: the
\* emulation of instructions that leave the flags alone relies on it to put
\* the CPSR back (src/emulate.go:65), and a SetMode made on the way would
\* destroy the SPSR.
RestoringStatusIsIdentity == SetCPSR(p, p.cpsr) = Done(p)

\* An SPSR is written only on behalf of the mode the call ends in, or of a
\* mode that a SetCPSR made in user mode asked for and did not get.
SavedStatusStability ==
    [][\A m \in SavedModes : p'.spsr[m] # p.spsr[m] =>
            p'.cpsr.mode = m \/ (p.cpsr.mode = userMode /\ p'.cpsr.mode = userMode)]_vars

\* The register arrays implement the ARM banks: reads and writes agree on the
\* array and index in each mode, and no write reaches a mode that does not
\* share the register.
Private(m) == IF m = fiqMode THEN 8 .. 14
              ELSE IF m \in SavedModes THEN 13 .. 14 ELSE {}

Visible(q) == [n \in 0 .. 15 |-> [m \in ValidModes |->
                GetRegister([q EXCEPT !.cpsr.mode = m], n).value]]

Banked == INSTANCE BankedRegisters
            WITH Modes <- ValidModes, User <- userMode, Value <- Word,
                 mode <- p.cpsr.mode, view <- Visible(p)

RegistersAreBanked == Banked!Spec
=============================================================================
