--------------------------- MODULE MCFaultInjector ---------------------------
(***************************************************************************)
(* Two requests at a time over two ticks.                                *)
(***************************************************************************)
EXTENDS FaultInjector

CONSTANTS s1, s2
=============================================================================
