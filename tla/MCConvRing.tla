----------------------------- MODULE MCConvRing -----------------------------
(* Two channel values and a zero; chunks up to 5 tokens go once round the     *)
(* ring and two slots further.                                               *)
EXTENDS ConvRing
=============================================================================
