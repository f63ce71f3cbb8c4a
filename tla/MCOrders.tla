------------------------------ MODULE MCOrders ------------------------------
(***************************************************************************)
(* Orders over a channel that holds fewer than there are orders.           *)
(***************************************************************************)
EXTENDS Orders

CONSTANTS o1, o2, o3
=============================================================================
