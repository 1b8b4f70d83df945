-------------------------- MODULE BankedRegisters ---------------------------
(***************************************************************************)
(* What the ARM register file promises its users, with no storage: in each *)
(* mode sixteen registers can be seen, and two modes see the same register *)
(* n exactly when neither of them has a private copy of n, or they are the *)
(* same mode.  A write through one mode is seen by exactly the modes that  *)
(* share the register.                                                     *)
(***************************************************************************)
EXTENDS Integers

CONSTANTS
    Modes,              \* the processor modes
    User,               \* the mode whose registers any mode can write
    Private(_),         \* Private(m): numbers of the registers banked in m
    Value               \* contents of a register

VARIABLES
    mode,               \* the current mode
    view                \* view[n][m]: what register n reads in mode m

Numbers == 0 .. 15

Shares(m1, m2, n) ==
    m1 = m2 \/ (n \notin Private(m1) /\ n \notin Private(m2))

Init == mode \in Modes /\ view = [n \in Numbers |-> [m \in Modes |-> 0]]

\* Register n gets some value through mode m.
Stored(n, m) ==
    /\ view'[n][m] \in Value
    /\ \A k \in Modes : view'[n][k] = IF Shares(m, k, n) THEN view'[n][m]
                                                       ELSE view[n][k]

Kept(numbers) == \A n \in numbers : view'[n] = view[n]

\* A write as the current mode sees the register, or as user mode does.
Write(n) ==
    /\ UNCHANGED mode
    /\ Kept(Numbers \ {n})
    /\ \E m \in {mode, User} : Stored(n, m)

Switch == mode' \in Modes /\ Kept(Numbers)

\* Take an exception to mode m: its own r14 gets the return address, and r15,
\* private to no mode, the vector.
Enter(m) ==
    /\ mode' = m
    /\ Kept(Numbers \ {14, 15})
    /\ Stored(14, m)
    /\ Stored(15, m)

Next ==
    \/ Switch
    \/ \E n \in Numbers : Write(n)
    \/ \E m \in Modes : Enter(m)

Spec == Init /\ [][Next]_<<mode, view>>
=============================================================================
