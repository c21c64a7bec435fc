---------------------------- MODULE AtomicLedger ----------------------------
(***************************************************************************)
(* What the double-entry ledger promises its callers: every operation      *)
(* either posts all of its entries, in order, on the balances of one       *)
(* moment, or leaves no trace.  The module Ledger, which follows the SQL   *)
(* statements of billing.go and ledger.go, is shown to implement it.       *)
(***************************************************************************)
EXTENDS Integers, FiniteSets, SequencesExt

CONSTANTS Account,  \* accounts rows, identified by (owner_type, owner_id, asset)
          Op        \* the operations callers may request

(* The accounts of a deployment are finitely many. *)
ASSUME AccountAssumption == IsFiniteSet(Account)

VARIABLE acct       \* the committed accounts, each with its statement of entries

(***************************************************************************)
(* A row of accounts together with the transaction_entries that name it,   *)
(* in the order of their ids.  A row that was never inserted has           *)
(* exists = FALSE; the column defaults are balance_micro 0 and version 0.  *)
(***************************************************************************)
NewRow == [exists |-> TRUE, balance |-> 0, version |-> 0, log |-> <<>>]
NoRow  == [exists |-> FALSE, balance |-> 0, version |-> 0, log |-> <<>>]

(* The statement of one account adds up: the version counts its entries,   *)
(* each entry's balance_after is the previous one's plus its delta, and    *)
(* the balance of the account is the last one's.                           *)
BalanceBefore(log, i) == IF i = 1 THEN 0 ELSE log[i - 1].after

RowOK(row) ==
    /\ row.version = Len(row.log)
    /\ row.balance = BalanceBefore(row.log, Len(row.log) + 1)
    /\ \A i \in 1 .. Len(row.log) :
         row.log[i].after = BalanceBefore(row.log, i) + row.log[i].delta
    /\ row.exists \/ row = NoRow

Credits == "credits"

(* The sum over the entries that move credits; points are not balanced.   *)
CreditsSum(entries) ==
    FoldLeft(LAMBDA sum, e : IF e.acct.asset = Credits THEN sum + e.delta
                                                       ELSE sum, 0, entries)

(* Mutant of Admissible: the zero-sum check is missing.                    *)
AdmissibleUnbalanced(o) == o.entries # <<>>

(* The check postLedger makes before it writes; the single-entry          *)
(* operations of billing.go do not make it.                                *)
Admissible(o) ==
    /\ o.entries # <<>>
    /\ o.kind = "settle" => CreditsSum(o.entries) = 0

(* DebitAccount refuses to take a balance below zero; nobody else checks.  *)
Covered(row, kind, delta) == kind = "debit" => row.balance + delta >= 0

-----------------------------------------------------------------------------

Init == acct = [a \in Account |-> NoRow]

(* The entries of o that name account a, up to the n-th.                   *)
Named(o, a, n) == {i \in 1 .. n : o.entries[i].acct = a}

(* Statement t is statement s with those entries behind it, in their order. *)
Follows(s, t, o, a, n) ==
    /\ RowOK(t)
    /\ Len(t.log) = Len(s.log) + Cardinality(Named(o, a, n))
    /\ \A i \in 1 .. Len(s.log) : t.log[i] = s.log[i]
    /\ \A i \in Named(o, a, n) :
          LET e == t.log[Len(s.log) + Cardinality(Named(o, a, i))]
          IN  e.kind = o.kind /\ e.delta = o.entries[i].delta

(* All the entries of one operation are posted, and nothing else changes.  *)
Post(o) ==
    /\ o.kind # "ensure"
    /\ Admissible(o)
    /\ Covered(acct[o.entries[1].acct], o.kind, o.entries[1].delta)
    /\ DOMAIN acct' = Account
    /\ \A a \in Account :
          IF Named(o, a, Len(o.entries)) = {} THEN acct'[a] = acct[a]
          ELSE acct'[a].exists /\ Follows(acct[a], acct'[a], o, a, Len(o.entries))

(* EnsureAccount: the account springs into existence, with no entries.     *)
Open(o) ==
    /\ o.kind = "ensure"
    /\ ~ acct[o.entries[1].acct].exists
    /\ acct' = [acct EXCEPT ![o.entries[1].acct] = NewRow]

Next == \E o \in Op : Post(o) \/ Open(o)

Spec == Init /\ [][Next]_acct
=============================================================================
