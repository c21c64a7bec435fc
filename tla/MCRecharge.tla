------------------------------ MODULE MCRecharge ------------------------------
(***************************************************************************)
(* Small instances of Recharge: an order, whose ref anyone may give, and   *)
(* two recharges that differ in their amount or their user.                *)
(***************************************************************************)
EXTENDS Recharge

CONSTANTS k1, k2

MCOrderCredit == [o \in Order |-> k1]
=============================================================================
