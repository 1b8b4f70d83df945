--------------------------- MODULE MCGuestControl ---------------------------
(***************************************************************************)
(* Operands for model checking GuestControl.                               *)
(***************************************************************************)
EXTENDS GuestControl

MCStatus(mode, flag, irqOff, thumb) ==
    [ZeroStatus EXCEPT !.mode = mode, !.c = flag, !.irqDisabled = irqOff,
                       !.thumb = thumb]

\* Flags clear and flags set.
MCFlags == {ZeroStatus, [ZeroStatus EXCEPT !.n = TRUE, !.c = TRUE]}

\* A way back to user mode, a banked mode with irq masked, no mode at all.
MCGuestStatus == {MCStatus(userMode, TRUE, FALSE, TRUE),
                  MCStatus(irqMode, FALSE, TRUE, FALSE),
                  MCStatus(1, TRUE, TRUE, FALSE)}

MCLists == {{8, 13}, {14, 15}}
=============================================================================
