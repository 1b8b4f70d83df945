--------------------------- MODULE MCProcessorAPI ---------------------------
(***************************************************************************)
(* Inputs for model checking ProcessorAPI, and a bound.                    *)
(***************************************************************************)
EXTENDS ProcessorAPI, FiniteSets

MCStatus(mode, flag, irqOff, thumb) ==
    [ZeroStatus EXCEPT !.mode = mode, !.c = flag, !.irqDisabled = irqOff,
                       !.thumb = thumb]

\* A return to user mode, one to a banked mode with interrupts masked, and a
\* word whose mode field names no mode.
MCHostStatus == {MCStatus(userMode, TRUE, FALSE, FALSE),
                 MCStatus(irqMode, FALSE, TRUE, TRUE),
                 MCStatus(5, FALSE, FALSE, FALSE)}

\* Bound: how much has happened.  A status register is marked when a flag, T
\* or I is set in it; states with more than MarkedPlusWritten marked status
\* registers and written registers, r15 aside, are not gone on from.
CONSTANT MarkedPlusWritten

Marked(status) == status.c \/ status.thumb \/ status.irqDisabled

MCBound ==
    Cardinality({m \in SavedModes : Marked(p.spsr[m])})
        + (IF Marked(p.cpsr) THEN 1 ELSE 0)
        + Cardinality({s \in Slots \ {<<userMode, 15>>} : p.regs[s] # 0})
            <= MarkedPlusWritten
=============================================================================
