----------------------------- MODULE MCIdentity -----------------------------
(***************************************************************************)
(* One address with two applications, and two handlers at a time.          *)
(***************************************************************************)
EXTENDS Identity, TLC

CONSTANTS e1, a1, a2, p1, p2

Symmetric == Permutations(Application) \cup Permutations(Caller)
=============================================================================
