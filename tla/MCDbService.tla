----------------------------- MODULE MCDbService -----------------------------
(***************************************************************************)
(* A pool of two connections; a goroutine asks for one more than it has.   *)
(***************************************************************************)
EXTENDS DbService

CONSTANTS c1, c2, r1, r2, i1, i2
=============================================================================
