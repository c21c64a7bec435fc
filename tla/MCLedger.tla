------------------------------ MODULE MCLedger ------------------------------
(***************************************************************************)
(* Small instances of Ledger: two users and the platform, and one          *)
(* operation of every kind billing.go and settlement.go issue.             *)
(***************************************************************************)
EXTENDS Ledger

CONSTANTS u1, u2, platform

Wallet(owner) == [owner |-> owner, asset |-> Credits]
Points(owner) == [owner |-> owner, asset |-> "points"]

MCAccount == {Wallet(u1), Wallet(u2), Wallet(platform), Points(u1)}

(* The entries Settle builds: consumer, provider, platform, then points.   *)
Settlement(consumer, provider, cost, revenue) ==
    <<[acct |-> Wallet(consumer), delta |-> - cost],
      [acct |-> Wallet(provider), delta |-> revenue],
      [acct |-> Wallet(platform), delta |-> cost - revenue]>>

Single(kind, a, delta) ==
    [kind |-> kind, entries |-> <<[acct |-> a, delta |-> delta]>>]

(* Credits, debits and lookups of one account, and a recharge.             *)
SingleOps ==
    {Single("ensure", Wallet(u1), 0),
     Single("credit", Wallet(u1), 2),
     Single("debit", Wallet(u1), -2),
     Single("recharge", Wallet(u1), 1)}

(* Settlements in both directions between the users, one with itself, one  *)
(* that does not balance, and an empty one.                                *)
SettleOps ==
    {[kind |-> "settle", entries |-> Settlement(u1, u2, 2, 1)],
     [kind |-> "settle", entries |->
        Settlement(u2, u1, 2, 1) \o <<[acct |-> Points(u1), delta |-> 1]>>],
     [kind |-> "settle", entries |-> Settlement(u1, u1, 2, 1)],
     [kind |-> "settle", entries |-> <<[acct |-> Wallet(u2), delta |-> 1]>>],
     [kind |-> "settle", entries |-> <<>>]}

AllOps == SingleOps \cup SettleOps
=============================================================================
