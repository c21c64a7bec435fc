-------------------------- MODULE MCSettlementQueue --------------------------
(***************************************************************************)
(* Small instances of SettlementQueue: one consumer; r1 and r2 come with   *)
(* usage, r3 is tokenized by the worker.                                   *)
(***************************************************************************)
EXTENDS SettlementQueue

CONSTANTS r1, r2, r3, u1

MCUserOf == [r \in Request |-> u1]
MCCost   == [r \in Request |-> 2]
MCLazy   == Request \cap {r3}
MCLimit  == [m \in Meter |-> IF m = "key_model" THEN 3 ELSE 0]
=============================================================================
