-------------------------- MODULE MCHandlerNesting --------------------------
(***************************************************************************)
(* Small programs for model checking HandlerNesting.                       *)
(***************************************************************************)
EXTENDS HandlerNesting

\* Nothing masked, irq, irq and fiq.
MCMasks == {<<FALSE, FALSE>>, <<TRUE, FALSE>>, <<TRUE, TRUE>>}

MCFlags == {[ZeroStatus EXCEPT !.z = TRUE]}
=============================================================================
