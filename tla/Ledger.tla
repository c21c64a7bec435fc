------------------------------- MODULE Ledger -------------------------------
(***************************************************************************)
(* The ledger transactions of logic/billing/billing.go (EnsureAccount,     *)
(* CreditAccount, DebitAccount) and logic/settlement/ledger.go             *)
(* (postLedger), statement by statement, run by concurrent goroutines      *)
(* against PostgreSQL at READ COMMITTED: a query sees what is committed    *)
(* and its own writes, an UPDATE or a conflicting INSERT waits for the     *)
(* transaction that holds the row, an error rolls the transaction back.    *)
(***************************************************************************)
EXTENDS AtomicLedger, FiniteSetsExt

CONSTANTS Proc,        \* goroutines that run ledger operations
          MaxVersion   \* bound: no operation starts once a version exceeds it

Kinds == {"ensure", "credit", "debit", "settle", "recharge"}

(* CreditAccount, DebitAccount and EnsureAccount take one account each.    *)
ASSUME OpAssumption ==
    /\ MaxVersion \in Nat
    /\ \A o \in Op :
         /\ o.kind \in Kinds
         /\ o.entries \in Seq([acct : Account, delta : Int])
         /\ o.kind \in {"ensure", "credit", "debit"} => Len(o.entries) = 1

VARIABLES
    pc,     \* where each goroutine stands in its operation
    op,     \* the operation it runs
    idx,    \* the entry of the operation it has reached
    seen,   \* balance and version its last account query returned
    held,   \* the rows it has inserted or updated and not yet committed
    draft,  \* the uncommitted contents of the rows it holds
    result  \* what its last operation returned

vars == <<acct, pc, op, idx, seen, held, draft, result>>

NoOp    == [kind |-> "ensure", entries |-> <<>>]
NoDraft == [a \in Account |-> NoRow]

Entry(p) == op[p].entries[idx[p]]
Acc(p)   == Entry(p).acct
Kind(p)  == op[p].kind
Delta(p) == Entry(p).delta

(* What p's own statements see of account a.                               *)
View(p, a) == IF a \in held[p] THEN draft[p][a] ELSE acct[a]

(* Some other transaction holds the row (or the unique key) of account a.  *)
Blocked(p, a) == \E q \in Proc \ {p} : a \in held[q]

TooOld == \E a \in Account : acct[a].version > MaxVersion

LInit ==
    /\ Init
    /\ pc = [p \in Proc |-> "idle"]
    /\ op = [p \in Proc |-> NoOp]
    /\ idx = [p \in Proc |-> 1]
    /\ seen = [p \in Proc |-> NoRow]
    /\ held = [p \in Proc |-> {}]
    /\ draft = [p \in Proc |-> NoDraft]
    /\ result = [p \in Proc |-> "none"]

(* The transaction is over: its locks go, the call returns.                *)
Return(p, what) ==
    /\ pc' = [pc EXCEPT ![p] = "idle"]
    /\ op' = [op EXCEPT ![p] = NoOp]
    /\ idx' = [idx EXCEPT ![p] = 1]
    /\ seen' = [seen EXCEPT ![p] = NoRow]
    /\ held' = [held EXCEPT ![p] = {}]
    /\ draft' = [draft EXCEPT ![p] = NoDraft]
    /\ result' = [result EXCEPT ![p] = what]

(* Mutant of Rollback: the transaction is left open, its rows stay locked. *)
RollbackForgotten(p, why) ==
    /\ pc' = [pc EXCEPT ![p] = "idle"]
    /\ op' = [op EXCEPT ![p] = NoOp]
    /\ idx' = [idx EXCEPT ![p] = 1]
    /\ seen' = [seen EXCEPT ![p] = NoRow]
    /\ result' = [result EXCEPT ![p] = why]
    /\ UNCHANGED <<acct, held, draft>>

(* An error inside Transaction: the writes vanish.                         *)
Rollback(p, why) == Return(p, why) /\ UNCHANGED acct

-----------------------------------------------------------------------------

(* A caller starts an operation; postLedger's checks passed, the           *)
(* transactions row is inserted.                                           *)
Begin(p, o) ==
    /\ pc[p] = "idle"
    /\ ~ TooOld
    /\ Admissible(o)
    /\ pc' = [pc EXCEPT ![p] = "query"]
    /\ op' = [op EXCEPT ![p] = o]
    /\ idx' = [idx EXCEPT ![p] = 1]
    /\ result' = [result EXCEPT ![p] = "none"]
    /\ UNCHANGED <<acct, seen, held, draft>>

(* postLedger returns "at least one entry required" or "credits imbalance" *)
(* before it touches the database.                                         *)
Refuse(p, o) ==
    /\ pc[p] = "idle"
    /\ ~ Admissible(o)
    /\ result' = [result EXCEPT ![p] = "refused"]
    /\ UNCHANGED <<acct, pc, op, idx, seen, held, draft>>

(* The SELECT on accounts.  EnsureAccount returns what it finds.           *)
QueryAccount(p) ==
    /\ pc[p] = "query"
    /\ LET row == View(p, Acc(p)) IN
         /\ seen' = [seen EXCEPT ![p] = [row EXCEPT !.log = <<>>]]
         /\ pc' = [pc EXCEPT ![p] = IF ~ row.exists THEN "insert"
                                      ELSE IF Kind(p) = "ensure" THEN "commit"
                                      ELSE "update"]
    /\ UNCHANGED <<acct, op, idx, held, draft, result>>

(* The account is missing: INSERT it with the column defaults, inside the  *)
(* transaction.  UNIQUE(owner_type, owner_id, asset) makes the INSERT wait *)
(* for an uncommitted insert of the same key.                              *)
InsertAccount(p) ==
    /\ pc[p] = "insert"
    /\ ~ Blocked(p, Acc(p))
    /\ ~ acct[Acc(p)].exists
    /\ held' = [held EXCEPT ![p] = @ \cup {Acc(p)}]
    /\ draft' = [draft EXCEPT ![p][Acc(p)] = NewRow]
    /\ seen' = [seen EXCEPT ![p] = NewRow]
    /\ pc' = [pc EXCEPT ![p] = IF Kind(p) = "ensure" THEN "commit" ELSE "update"]
    /\ UNCHANGED <<acct, op, idx, result>>

(* Somebody committed the account since the query: unique violation.       *)
InsertConflict(p) ==
    /\ pc[p] = "insert"
    /\ acct[Acc(p)].exists
    /\ Rollback(p, "exists")

(* DebitAccount: "insufficient balance", judged on the row it has read.    *)
Insufficient(p) ==
    /\ pc[p] = "update"
    /\ ~ Covered(seen[p], Kind(p), Delta(p))
    /\ Rollback(p, "insufficient")

(***************************************************************************)
(* The effect of one entry on one account: the balance moves by delta, the *)
(* version by one, and the entry records the balance it leaves behind.     *)
(***************************************************************************)
PostEntry(row, kind, delta) ==
    [exists  |-> TRUE,
     balance |-> row.balance + delta,
     version |-> row.version + 1,
     log     |-> Append(row.log, [kind  |-> kind,
                                  delta |-> delta,
                                  after |-> row.balance + delta])]

(* The row gets the balance computed from the row that was read, the       *)
(* entry is appended, and postLedger goes on to the next entry.            *)
WriteEntry(p) ==
    /\ held' = [held EXCEPT ![p] = @ \cup {Acc(p)}]
    /\ draft' = [draft EXCEPT ![p][Acc(p)] =
                    PostEntry([seen[p] EXCEPT !.log = View(p, Acc(p)).log],
                              Kind(p), Delta(p))]
    /\ idx' = [idx EXCEPT ![p] = @ + 1]
    /\ pc' = [pc EXCEPT ![p] = IF idx[p] = Len(op[p].entries)
                               THEN "commit" ELSE "query"]
    /\ UNCHANGED <<op, seen, result>>

(* Mutants of UpdateAccount: the WHERE clause forgets the version; the     *)
(* statement takes no row lock; it runs outside the transaction.           *)
UpdateIgnoresVersion(p) ==
    /\ pc[p] = "update"
    /\ Covered(seen[p], Kind(p), Delta(p))
    /\ ~ Blocked(p, Acc(p))
    /\ WriteEntry(p)
    /\ UNCHANGED acct

UpdateOutsideTransaction(p) ==
    /\ pc[p] = "update"
    /\ Covered(seen[p], Kind(p), Delta(p))
    /\ ~ Blocked(p, Acc(p))
    /\ View(p, Acc(p)).version = seen[p].version
    /\ WriteEntry(p)
    /\ acct' = [acct EXCEPT ![Acc(p)] = draft'[p][Acc(p)]]

(* UPDATE accounts ... WHERE id = ? AND version = ?, then the INSERT of    *)
(* the entry.                                                              *)
UpdateAccount(p) ==
    /\ pc[p] = "update"
    /\ Covered(seen[p], Kind(p), Delta(p))
    /\ ~ Blocked(p, Acc(p))
    /\ View(p, Acc(p)).version = seen[p].version
    /\ WriteEntry(p)
    /\ UNCHANGED acct

(* The UPDATE affected no row: "account version conflict, retry".          *)
VersionConflict(p) ==
    /\ pc[p] = "update"
    /\ Covered(seen[p], Kind(p), Delta(p))
    /\ View(p, Acc(p)).version # seen[p].version
    /\ Rollback(p, "conflict")

(* COMMIT makes every write of the transaction visible at once.            *)
Commit(p) ==
    /\ pc[p] = "commit"
    /\ acct' = [a \in Account |-> View(p, a)]
    /\ Return(p, "ok")

(* The row a transaction waits for, if it waits.                           *)
WaitsFor(p) ==
    IF \/ pc[p] = "insert" /\ ~ acct[Acc(p)].exists
       \/ /\ pc[p] = "update"
          /\ Covered(seen[p], Kind(p), Delta(p))
          /\ View(p, Acc(p)).version = seen[p].version
    THEN {q \in Proc \ {p} : Acc(p) \in held[q]}
    ELSE {}

(* PostgreSQL finds a cycle of waiting transactions and cancels one.       *)
DeadlockVictim(p) ==
    /\ \E S \in SUBSET Proc :
         /\ p \in S
         /\ \A q \in S : \E r \in S : q \in WaitsFor(r)
    /\ Rollback(p, "deadlock")

(* The connection is lost, or the process dies, inside the transaction.    *)
DbError(p) ==
    /\ pc[p] # "idle"
    /\ Rollback(p, "error")

-----------------------------------------------------------------------------

Step(p) ==
    \/ QueryAccount(p)
    \/ InsertAccount(p)
    \/ InsertConflict(p)
    \/ Insufficient(p)
    \/ UpdateAccount(p)
    \/ VersionConflict(p)
    \/ Commit(p)
    \/ DeadlockVictim(p)

Call(p) == \E o \in Op : Begin(p, o) \/ Refuse(p, o)

LNext == \E p \in Proc : Call(p) \/ Step(p) \/ DbError(p)

LSpec == LInit /\ [][LNext]_vars

(* A goroutine inside an operation keeps running, and the database serves  *)
(* its statements; PostgreSQL queues the waiters of a row, so a waiter     *)
(* whose row is free again and again is served: strong fairness.  Nobody   *)
(* is obliged to call, and nothing need fail.                              *)
FairLSpec == LSpec /\ \A p \in Proc : SF_vars(Step(p))

-----------------------------------------------------------------------------

Row == [exists : BOOLEAN, balance : Int, version : Nat,
        log : Seq([kind : Kinds, delta : Int, after : Int])]

Outcome == {"none", "ok", "refused", "exists", "insufficient", "conflict",
            "deadlock", "error"}

(* Types of the committed rows and of the state of the goroutines.         *)
TypeOK ==
    /\ acct \in [Account -> Row]
    /\ pc \in [Proc -> {"idle", "query", "insert", "update", "commit"}]
    /\ op \in [Proc -> Op \cup {NoOp}]
    /\ idx \in [Proc -> Nat \ {0}]
    /\ seen \in [Proc -> Row]
    /\ held \in [Proc -> SUBSET Account]
    /\ draft \in [Proc -> [Account -> Row]]
    /\ result \in [Proc -> Outcome]

(* No lost update: whatever goroutines interleave CreditAccount,           *)
(* DebitAccount and postLedger, every committed balance_micro is accounted *)
(* for by the account's transaction_entries.                               *)
StatementsAddUp == \A a \in Account : RowOK(acct[a])

RowCovered(row) ==
    \A i \in 1 .. Len(row.log) :
        row.log[i].kind = "debit" =>
            BalanceBefore(row.log, i) + row.log[i].delta >= 0

(* DebitAccount never commits a debit that the account did not cover at    *)
(* that point of its history, although it judged the balance before it     *)
(* took the row lock.                                                      *)
DebitsAreCovered == \A a \in Account : RowCovered(acct[a])

(* Row t continues row s: it has s's entries, and perhaps more.            *)
Continues(s, t) ==
    /\ s.exists => t.exists
    /\ s.version <= t.version
    /\ Len(s.log) <= Len(t.log)
    /\ \A i \in 1 .. Len(s.log) : t.log[i] = s.log[i]

(* The history of an account is only ever appended to: no commit           *)
(* overwrites an entry that another transaction committed.                 *)
HistoryIsAppendOnly ==
    [][\A a \in Account : Continues(acct[a], acct'[a])]_acct

(* Settlements move credits between accounts and never create or destroy   *)
(* them: over all credits accounts, the settle entries sum to zero in      *)
(* every committed state, so no half-posted settlement is ever visible.    *)
SettleSum(log) ==
    FoldLeft(LAMBDA sum, e : IF e.kind = "settle" THEN sum + e.delta ELSE sum, 0, log)

CreditsAccount == {a \in Account : a.asset = Credits}
CreditsTotal(f) == MapThenSumSet(LAMBDA a : f[a], CreditsAccount)

SettledCredits == [a \in CreditsAccount |-> SettleSum(acct[a].log)]

CreditsAreConserved == CreditsTotal(SettledCredits) = 0

(* The committed accounts change only by whole operations, each posted on  *)
(* the balances of one moment: the transactions are serializable although  *)
(* they run at READ COMMITTED.                                             *)
ImplementsAtomicLedger == Spec

(* Every call returns: no set of transactions that wait for each other's   *)
(* rows (postLedger locks consumer, provider and platform in that order,   *)
(* whoever they are) stays stuck.                                          *)
EveryCallReturns == \A p \in Proc : pc[p] # "idle" ~> pc[p] = "idle"

-----------------------------------------------------------------------------
(***************************************************************************)
(* The strengthening that makes the invariants above inductive.            *)
(***************************************************************************)

(* No two transactions hold the same row.                                  *)
RowLocksExclude ==
    \A p, q \in Proc : p # q => held[p] \cap held[q] = {}

(* What a transaction will commit adds up and continues what is committed; *)
(* a row that existed when it was taken has a higher version in the draft. *)
DraftsContinue ==
    \A p \in Proc : \A a \in held[p] :
        /\ RowOK(draft[p][a])
        /\ RowCovered(draft[p][a])
        /\ draft[p][a].exists
        /\ Continues(acct[a], draft[p][a])
        /\ acct[a].exists => acct[a].version < draft[p][a].version

(* A goroutine inside an operation is at one of its entries.               *)
AtAnEntry ==
    \A p \in Proc :
        /\ pc[p] = "idle" => held[p] = {}
        /\ pc[p] \in {"query", "insert", "update"} =>
              op[p] \in Op /\ idx[p] \in 1 .. Len(op[p].entries)

(* Optimistic locking: a row whose version is still the one that was read  *)
(* still has the balance that was read.                                    *)
ReadIsUsable(p) ==
    /\ seen[p].exists
    /\ View(p, Acc(p)).exists
    /\ seen[p].version <= View(p, Acc(p)).version
    /\ seen[p].version = View(p, Acc(p)).version =>
          seen[p].balance = View(p, Acc(p)).balance

SameVersionSameBalance == \A p \in Proc : pc[p] = "update" => ReadIsUsable(p)

(* The inductive invariant of the transactions of billing.go and ledger.go. *)
LedgerInv ==
    /\ TypeOK
    /\ StatementsAddUp
    /\ DebitsAreCovered
    /\ RowLocksExclude
    /\ DraftsContinue
    /\ AtAnEntry
    /\ SameVersionSameBalance

(* A transaction has written the entries that it has left behind, each     *)
(* into the row it names, and holds no row beside these and the one it has *)
(* inserted.                                                               *)
Written(p) ==
    /\ Admissible(op[p]) /\ op[p] \in Op
    /\ pc[p] = "insert" => Acc(p) \notin held[p]
    /\ IF Kind(p) = "ensure"
       THEN /\ idx[p] = 1 /\ pc[p] # "update" /\ held[p] \subseteq {Acc(p)}
            /\ \A a \in held[p] : ~ acct[a].exists /\ draft[p][a] = NewRow
       ELSE /\ pc[p] = "commit" => idx[p] = Len(op[p].entries) + 1
            /\ \A a \in held[p] : \/ Named(op[p], a, idx[p] - 1) # {}
                                 \/ (pc[p] = "update" /\ a = Acc(p))
            /\ \A a \in Account :
                  IF a \in held[p]
                  THEN Follows(acct[a], draft[p][a], op[p], a, idx[p] - 1)
                  ELSE Named(op[p], a, idx[p] - 1) = {}

WritesFollow == \A p \in Proc : pc[p] # "idle" => Written(p)

(* The inductive invariant of whole operations. *)
OperationInv == LedgerInv /\ WritesFollow

(* The credits that p's settlement has moved in its drafts are the sum of  *)
(* the entries it has left behind: what the others still have to undo.     *)
MovedCredits(p) ==
    [a \in CreditsAccount |->
        IF a \in held[p] THEN SettleSum(draft[p][a].log) - SettleSum(acct[a].log) ELSE 0]

PostedCredits(p) ==
    IF Kind(p) = "settle" THEN CreditsSum(SubSeq(op[p].entries, 1, idx[p] - 1)) ELSE 0

DraftsMoveCredits ==
    \A p \in Proc : pc[p] # "idle" => CreditsTotal(MovedCredits(p)) = PostedCredits(p)

(* The inductive invariant of the settlements' credits. *)
CreditsInv == OperationInv /\ CreditsAreConserved /\ DraftsMoveCredits
=============================================================================
