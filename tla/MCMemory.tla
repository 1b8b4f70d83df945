------------------------------ MODULE MCMemory ------------------------------
(***************************************************************************)
(* Two tables of two pages of four bytes: sixteen addresses.               *)
(***************************************************************************)
EXTENDS Memory

MCByte == 0 .. 4

\* One word with four different bytes, so that a swapped order shows; the
\* halfword and the byte written are its low ones.
MCWords == {[k \in 0 .. 3 |-> k + 1]}

\* Nothing at all; three bytes, which from address 6 cross into the other table
\* and from address 13 reach the last address, where the code refuses them.
MCData == {<<>>, <<3, 4, 3>>}
=============================================================================
