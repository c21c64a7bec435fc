------------------------------- MODULE MCPayout -------------------------------
(***************************************************************************)
(* Small instances of Payout: r1 and r2 earn something, r3 was free.       *)
(***************************************************************************)
EXTENDS Payout

CONSTANTS r1, r2, r3

MCRevenue == [r \in Record |-> IF r = r3 THEN 0 ELSE 1]
=============================================================================
