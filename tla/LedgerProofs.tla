---------------------------- MODULE LedgerProofs ----------------------------
(***************************************************************************)
(* The ledger's invariants for every set of accounts, goroutines and       *)
(* operations.  LedgerInv is inductive; the safety properties follow.      *)
(* With WritesFollow it shows that the ledger implements AtomicLedger, and *)
(* with DraftsMoveCredits that settlements conserve the credits.  At the   *)
(* end, the recharges that credit the ledger: RechargeInv is inductive.    *)
(***************************************************************************)
EXTENDS Ledger, Recharge, FoldLemmas

(* A row that was never inserted and one just inserted are well formed.    *)
LEMMA FreshRows ==
    /\ NoRow \in Row /\ RowOK(NoRow) /\ RowCovered(NoRow) /\ ~ NoRow.exists
    /\ NewRow \in Row /\ RowOK(NewRow) /\ RowCovered(NewRow) /\ NewRow.exists
    /\ NewRow.version = 0 /\ NewRow.balance = 0 /\ NewRow.log = <<>>
    /\ NoRow.version = 0 /\ NoRow.balance = 0 /\ NoRow.log = <<>>
<1> USE DEF NoRow, NewRow
<1>1. <<>> \in Seq([kind : Kinds, delta : Int, after : Int]) /\ Len(<<>>) = 0
  OBVIOUS
<1>2. NoRow \in Row /\ NewRow \in Row
  BY <1>1 DEF Row
<1>3. RowOK(NoRow) /\ RowOK(NewRow)
  BY <1>1 DEF RowOK, BalanceBefore
<1>4. RowCovered(NoRow) /\ RowCovered(NewRow)
  BY <1>1 DEF RowCovered
<1>5. QED
  BY <1>2, <1>3, <1>4

(* Posting an entry keeps a statement well formed and continues it.        *)
LEMMA PostEntryKeeps ==
    ASSUME NEW r \in Row, NEW k \in Kinds, NEW d \in Int,
           RowOK(r), RowCovered(r), Covered(r, k, d)
    PROVE  /\ PostEntry(r, k, d) \in Row
           /\ RowOK(PostEntry(r, k, d))
           /\ RowCovered(PostEntry(r, k, d))
           /\ PostEntry(r, k, d).exists
           /\ PostEntry(r, k, d).version = r.version + 1
           /\ Continues(r, PostEntry(r, k, d))
<1> DEFINE e == [kind |-> k, delta |-> d, after |-> r.balance + d]
           n == PostEntry(r, k, d)
<1>1. /\ r.balance \in Int /\ r.version \in Nat
      /\ r.log \in Seq([kind : Kinds, delta : Int, after : Int])
  BY DEF Row
<1>2. e \in [kind : Kinds, delta : Int, after : Int]
  BY <1>1
<1>3. /\ n.exists = TRUE /\ n.balance = r.balance + d
      /\ n.version = r.version + 1 /\ n.log = Append(r.log, e)
  BY DEF PostEntry
<1>4. /\ n.log \in Seq([kind : Kinds, delta : Int, after : Int])
      /\ Len(n.log) = Len(r.log) + 1
      /\ n.log[Len(r.log) + 1] = e
      /\ \A i \in 1 .. Len(r.log) : n.log[i] = r.log[i]
      /\ Len(r.log) \in Nat
  BY <1>1, <1>2, <1>3
<1>5. n \in Row
  BY <1>1, <1>4 DEF PostEntry, Row
<1> HIDE DEF n, e
<1>6. \A i \in 1 .. Len(r.log) + 1 : BalanceBefore(n.log, i) = BalanceBefore(r.log, i)
  <2>1. ASSUME NEW i \in 1 .. Len(r.log) + 1, i # 1
        PROVE  n.log[i - 1] = r.log[i - 1]
    <3>1. i - 1 \in 1 .. Len(r.log)
      BY <2>1, <1>4
    <3>2. QED
      BY <3>1, <1>4
  <2>2. QED
    BY <2>1 DEF BalanceBefore
<1>7. BalanceBefore(n.log, Len(n.log) + 1) = r.balance + d
  BY <1>4 DEF BalanceBefore, e
<1>8. RowOK(n)
  <2>1. n.version = Len(n.log)
    BY <1>3, <1>4 DEF RowOK
  <2>2. ASSUME NEW i \in 1 .. Len(n.log)
        PROVE  n.log[i].after = BalanceBefore(n.log, i) + n.log[i].delta
    <3>1. CASE i \in 1 .. Len(r.log)
      BY <3>1, <1>4, <1>6 DEF RowOK
    <3>2. CASE i = Len(r.log) + 1
      <4>1. BalanceBefore(n.log, i) = r.balance
        BY <3>2, <1>4, <1>6 DEF RowOK
      <4>2. n.log[i].after = r.balance + d /\ n.log[i].delta = d
        BY <3>2, <1>4 DEF e
      <4>3. QED
        BY <4>1, <4>2
    <3>3. QED
      BY <3>1, <3>2, <1>4
  <2>3. QED
    BY <2>1, <2>2, <1>3, <1>7 DEF RowOK
<1>9. RowCovered(n)
  <2>1. ASSUME NEW i \in 1 .. Len(n.log), n.log[i].kind = "debit"
        PROVE  BalanceBefore(n.log, i) + n.log[i].delta >= 0
    <3>1. CASE i \in 1 .. Len(r.log)
      BY <3>1, <2>1, <1>4, <1>6 DEF RowCovered
    <3>2. CASE i = Len(r.log) + 1
      <4>1. BalanceBefore(n.log, i) = r.balance
        BY <3>2, <1>4, <1>6 DEF RowOK
      <4>2. n.log[i].kind = k /\ n.log[i].delta = d
        BY <3>2, <1>4 DEF e
      <4>3. QED
        BY <4>1, <4>2, <2>1 DEF Covered
    <3>3. QED
      BY <3>1, <3>2, <1>4
  <2>2. QED
    BY <2>1 DEF RowCovered
<1>10. Continues(r, n)
  BY <1>1, <1>3, <1>4 DEF Continues
<1>11. QED
  BY <1>3, <1>5, <1>8, <1>9, <1>10 DEF n

(* Continues is a preorder on well-typed rows.                             *)
LEMMA ContinuesRefl ==
    ASSUME NEW r \in Row PROVE Continues(r, r)
BY DEF Continues, Row

(* Two continuations in a row are one.                                     *)
LEMMA ContinuesTrans ==
    ASSUME NEW r \in Row, NEW s \in Row, NEW t \in Row,
           Continues(r, s), Continues(s, t)
    PROVE  Continues(r, t)
<1>1. /\ Len(r.log) \in Nat /\ Len(s.log) \in Nat /\ Len(t.log) \in Nat
      /\ r.version \in Nat /\ s.version \in Nat /\ t.version \in Nat
  BY DEF Row
<1>2. QED
  BY <1>1 DEF Continues

-----------------------------------------------------------------------------

(* An element of a sequence over S is in S.                                *)
LEMMA ElementOfSequence ==
    ASSUME NEW S, NEW s \in Seq(S), NEW i \in 1 .. Len(s)
    PROVE  s[i] \in S
OBVIOUS

(* The entry a goroutine has reached is one of its operation's.            *)
LEMMA EntryTyped ==
    ASSUME TypeOK, AtAnEntry, NEW p \in Proc,
           pc[p] \in {"query", "insert", "update"}
    PROVE  /\ op[p] \in Op /\ idx[p] \in 1 .. Len(op[p].entries)
           /\ Len(op[p].entries) \in Nat
           /\ Acc(p) \in Account /\ Kind(p) \in Kinds /\ Delta(p) \in Int
<1>1. op[p] \in Op /\ idx[p] \in 1 .. Len(op[p].entries)
  BY DEF AtAnEntry
<1>2. /\ op[p].kind \in Kinds
      /\ op[p].entries \in Seq([acct : Account, delta : Int])
  BY <1>1, OpAssumption
<1>3. Entry(p) \in [acct : Account, delta : Int]
  BY <1>1, <1>2, ElementOfSequence DEF Entry
<1>4. QED
  BY <1>1, <1>2, <1>3 DEF Acc, Kind, Delta

(* What a transaction sees of a row is well formed and continues what is   *)
(* committed.                                                              *)
LEMMA ViewTyped ==
    ASSUME LedgerInv, NEW p \in Proc, NEW a \in Account
    PROVE  /\ View(p, a) \in Row /\ RowOK(View(p, a)) /\ RowCovered(View(p, a))
           /\ acct[a] \in Row /\ Continues(acct[a], View(p, a))
<1>1. acct[a] \in Row /\ RowOK(acct[a]) /\ RowCovered(acct[a])
  BY DEF LedgerInv, TypeOK, StatementsAddUp, DebitsAreCovered
<1>2. CASE a \in held[p]
  <2>1. draft[p][a] \in Row
    BY DEF LedgerInv, TypeOK
  <2>2. QED
    BY <1>1, <1>2, <2>1 DEF LedgerInv, DraftsContinue, View
<1>3. CASE a \notin held[p]
  BY <1>1, <1>3, ContinuesRefl DEF View
<1>4. QED
  BY <1>2, <1>3

(* Every initial state satisfies the invariant.                            *)
LEMMA LedgerInit == LInit => LedgerInv
<1> SUFFICES ASSUME LInit PROVE LedgerInv
  OBVIOUS
<1> USE DEF LInit, Init
<1>1. TypeOK
  BY FreshRows DEF TypeOK, NoDraft, Outcome
<1>2. StatementsAddUp /\ DebitsAreCovered
  BY FreshRows DEF StatementsAddUp, DebitsAreCovered
<1>3. RowLocksExclude /\ DraftsContinue /\ AtAnEntry /\ SameVersionSameBalance
  BY DEF RowLocksExclude, DraftsContinue, AtAnEntry, SameVersionSameBalance
<1>4. QED
  BY <1>1, <1>2, <1>3 DEF LedgerInv

(* A transaction that ends with an error keeps the invariant: whatever it  *)
(* had written was never visible.                                          *)
LEMMA RollbackKeeps ==
    ASSUME LedgerInv, NEW p \in Proc, NEW why \in Outcome, Rollback(p, why)
    PROVE  LedgerInv'
<1> USE DEF Rollback, Return
<1>1. TypeOK'
  <2>1. NoDraft \in [Account -> Row] /\ NoRow \in Row
    BY FreshRows DEF NoDraft
  <2>2. QED
    BY <2>1 DEF LedgerInv, TypeOK
<1>2. /\ pc'[p] = "idle" /\ held'[p] = {}
      /\ \A q \in Proc \ {p} : /\ pc'[q] = pc[q] /\ held'[q] = held[q]
                               /\ draft'[q] = draft[q] /\ op'[q] = op[q]
                               /\ idx'[q] = idx[q] /\ seen'[q] = seen[q]
  BY DEF LedgerInv, TypeOK
<1>3. StatementsAddUp' /\ DebitsAreCovered'
  BY DEF LedgerInv, StatementsAddUp, DebitsAreCovered
<1>4. RowLocksExclude'
  BY <1>2 DEF LedgerInv, RowLocksExclude
<1>5. DraftsContinue'
  BY <1>2 DEF LedgerInv, DraftsContinue
<1>6. AtAnEntry'
  BY <1>2 DEF LedgerInv, AtAnEntry
<1>7. SameVersionSameBalance'
  <2> SUFFICES ASSUME NEW q \in Proc, pc'[q] = "update"
               PROVE  ReadIsUsable(q)'
    BY DEF SameVersionSameBalance
  <2>1. q # p /\ pc[q] = "update" /\ seen'[q] = seen[q]
    BY <1>2
  <2>2. View(q, Acc(q))' = View(q, Acc(q))
    BY <2>1, <1>2 DEF View, Acc, Entry
  <2>3. QED
    BY <2>1, <2>2 DEF LedgerInv, SameVersionSameBalance, ReadIsUsable
<1>8. QED
  BY <1>1, <1>3, <1>4, <1>5, <1>6, <1>7 DEF LedgerInv

(* Starting an operation, or refusing it, touches no row.                  *)
LEMMA BeginKeeps ==
    ASSUME LedgerInv, NEW p \in Proc, NEW o \in Op, Begin(p, o)
    PROVE  LedgerInv'
<1> USE DEF Begin
<1>1. TypeOK'
  BY DEF LedgerInv, TypeOK, Outcome
<1>2. /\ pc'[p] = "query" /\ op'[p] = o /\ idx'[p] = 1
      /\ \A q \in Proc \ {p} : /\ pc'[q] = pc[q] /\ op'[q] = op[q]
                               /\ idx'[q] = idx[q]
  BY DEF LedgerInv, TypeOK
<1>3. StatementsAddUp' /\ DebitsAreCovered' /\ RowLocksExclude' /\ DraftsContinue'
  BY DEF LedgerInv, StatementsAddUp, DebitsAreCovered, RowLocksExclude, DraftsContinue
<1>4. AtAnEntry'
  <2>1. o.entries \in Seq([acct : Account, delta : Int]) /\ o.entries # <<>>
    BY OpAssumption DEF Admissible
  <2>2. 1 \in 1 .. Len(o.entries)
    BY <2>1
  <2>3. QED
    BY <1>2, <2>2 DEF LedgerInv, AtAnEntry
<1>5. SameVersionSameBalance'
  <2> SUFFICES ASSUME NEW q \in Proc, pc'[q] = "update"
               PROVE  ReadIsUsable(q)'
    BY DEF SameVersionSameBalance
  <2>1. q # p /\ pc[q] = "update" /\ seen'[q] = seen[q]
    BY <1>2
  <2>2. View(q, Acc(q))' = View(q, Acc(q))
    BY <2>1, <1>2 DEF View, Acc, Entry
  <2>3. QED
    BY <2>1, <2>2 DEF LedgerInv, SameVersionSameBalance, ReadIsUsable
<1>6. QED
  BY <1>1, <1>3, <1>4, <1>5 DEF LedgerInv

(* A refusal leaves the ledger as it is.                                   *)
LEMMA RefuseKeeps ==
    ASSUME LedgerInv, NEW p \in Proc, NEW o \in Op, Refuse(p, o)
    PROVE  LedgerInv'
<1>1. TypeOK'
  BY DEF Refuse, LedgerInv, TypeOK, Outcome
<1>2. QED
  BY <1>1 DEF Refuse, LedgerInv, StatementsAddUp, DebitsAreCovered,
              RowLocksExclude, DraftsContinue, AtAnEntry,
              SameVersionSameBalance, ReadIsUsable, View, Acc, Entry

(* The SELECT copies a row that is still there.                            *)
LEMMA QueryKeeps ==
    ASSUME LedgerInv, NEW p \in Proc, QueryAccount(p)
    PROVE  LedgerInv'
<1> DEFINE row == View(p, Acc(p))
<1>1. /\ pc[p] = "query" /\ Acc(p) \in Account
      /\ op[p] \in Op /\ idx[p] \in 1 .. Len(op[p].entries)
  BY EntryTyped DEF QueryAccount, LedgerInv
<1>2. row \in Row
  BY <1>1, ViewTyped
<1>3. /\ pc' = [pc EXCEPT ![p] = IF ~ row.exists THEN "insert"
                                   ELSE IF Kind(p) = "ensure" THEN "commit"
                                   ELSE "update"]
      /\ seen' = [seen EXCEPT ![p] = [row EXCEPT !.log = <<>>]]
      /\ UNCHANGED <<acct, op, idx, held, draft, result>>
  BY DEF QueryAccount
<1> HIDE DEF row
<1>4. pc'[p] \in {"insert", "commit", "update"} /\ (pc'[p] = "update" => row.exists)
  <2>1. pc'[p] = IF ~ row.exists THEN "insert"
                   ELSE IF Kind(p) = "ensure" THEN "commit"
                   ELSE "update"
    BY <1>3 DEF LedgerInv, TypeOK
  <2>2. CASE ~ row.exists
    BY <2>1, <2>2
  <2>3. CASE row.exists /\ Kind(p) = "ensure"
    BY <2>1, <2>3
  <2>4. CASE row.exists /\ Kind(p) # "ensure"
    BY <2>1, <2>4
  <2>5. QED
    BY <2>2, <2>3, <2>4
<1>5. [row EXCEPT !.log = <<>>] \in Row
  <2>1. <<>> \in Seq([kind : Kinds, delta : Int, after : Int])
    OBVIOUS
  <2>2. QED
    BY <1>2, <2>1 DEF Row
<1>6. /\ seen'[p].exists = row.exists /\ seen'[p].version = row.version
      /\ seen'[p].balance = row.balance
  BY <1>2, <1>3 DEF LedgerInv, TypeOK, Row
<1>7. \A q \in Proc \ {p} : pc'[q] = pc[q] /\ seen'[q] = seen[q]
  BY <1>3 DEF LedgerInv, TypeOK
<1>8. TypeOK'
  <2>1. pc' \in [Proc -> {"idle", "query", "insert", "update", "commit"}]
    BY <1>3, <1>4 DEF LedgerInv, TypeOK
  <2>2. seen' \in [Proc -> Row]
    BY <1>3, <1>5 DEF LedgerInv, TypeOK
  <2>3. QED
    BY <2>1, <2>2, <1>3 DEF LedgerInv, TypeOK
<1>9. StatementsAddUp' /\ DebitsAreCovered' /\ RowLocksExclude' /\ DraftsContinue'
  BY <1>3 DEF LedgerInv, StatementsAddUp, DebitsAreCovered, RowLocksExclude,
              DraftsContinue
<1>10. AtAnEntry'
  BY <1>1, <1>3, <1>4, <1>7 DEF LedgerInv, AtAnEntry
<1>11. SameVersionSameBalance'
  <2> SUFFICES ASSUME NEW q \in Proc, pc'[q] = "update"
               PROVE  ReadIsUsable(q)'
    BY DEF SameVersionSameBalance
  <2>1. View(q, Acc(q))' = View(q, Acc(q))
    BY <1>3 DEF View, Acc, Entry
  <2>2. CASE q = p
    BY <2>1, <2>2, <1>2, <1>4, <1>6 DEF ReadIsUsable, row, Row
  <2>3. CASE q # p
    BY <2>1, <2>3, <1>7 DEF LedgerInv, SameVersionSameBalance, ReadIsUsable
  <2>4. QED
    BY <2>2, <2>3
<1>12. QED
  BY <1>8, <1>9, <1>10, <1>11 DEF LedgerInv

(* A transaction that takes row a, and writes into it a row that continues *)
(* what it saw there, keeps the invariant's statements about rows.         *)
LEMMA TakeRowKeeps ==
    ASSUME LedgerInv, NEW p \in Proc, NEW a \in Account, NEW row \in Row,
           ~ Blocked(p, a),
           RowOK(row), RowCovered(row), row.exists,
           Continues(acct[a], row),
           acct[a].exists => acct[a].version < row.version,
           held' = [held EXCEPT ![p] = @ \cup {a}],
           draft' = [draft EXCEPT ![p][a] = row],
           UNCHANGED acct
    PROVE  /\ held' \in [Proc -> SUBSET Account]
           /\ draft' \in [Proc -> [Account -> Row]]
           /\ held'[p] = held[p] \cup {a} /\ draft'[p][a] = row
           /\ \A q \in Proc \ {p} : held'[q] = held[q] /\ draft'[q] = draft[q]
           /\ StatementsAddUp' /\ DebitsAreCovered'
           /\ RowLocksExclude' /\ DraftsContinue'
<1>1. /\ held \in [Proc -> SUBSET Account]
      /\ draft \in [Proc -> [Account -> Row]]
  BY DEF LedgerInv, TypeOK
<1>2. held' \in [Proc -> SUBSET Account] /\ draft' \in [Proc -> [Account -> Row]]
  BY <1>1
<1>3. /\ held'[p] = held[p] \cup {a} /\ draft'[p][a] = row
      /\ \A b \in Account \ {a} : draft'[p][b] = draft[p][b]
      /\ \A q \in Proc \ {p} : held'[q] = held[q] /\ draft'[q] = draft[q]
  BY <1>1
<1>4. StatementsAddUp' /\ DebitsAreCovered'
  BY DEF LedgerInv, StatementsAddUp, DebitsAreCovered
<1>5. RowLocksExclude'
  <2> SUFFICES ASSUME NEW q \in Proc, NEW r \in Proc, q # r
               PROVE  held'[q] \cap held'[r] = {}
    BY DEF RowLocksExclude
  <2>1. held[q] \cap held[r] = {}
    BY DEF LedgerInv, RowLocksExclude
  <2>2. \A x \in Proc \ {p} : a \notin held[x]
    BY DEF Blocked
  <2>3. QED
    BY <2>1, <2>2, <1>3
<1>6. DraftsContinue'
  <2> SUFFICES ASSUME NEW q \in Proc, NEW b \in held'[q]
               PROVE  /\ RowOK(draft'[q][b]) /\ RowCovered(draft'[q][b])
                      /\ draft'[q][b].exists
                      /\ Continues(acct[b], draft'[q][b])
                      /\ acct[b].exists => acct[b].version < draft'[q][b].version
    BY DEF DraftsContinue
  <2>1. CASE q = p /\ b = a
    BY <2>1, <1>3
  <2>2. CASE q # p \/ b # a
    <3>1. b \in held[q] /\ draft'[q][b] = draft[q][b]
      BY <2>2, <1>1, <1>2, <1>3
    <3>2. QED
      BY <3>1 DEF LedgerInv, DraftsContinue
  <2>3. QED
    BY <2>1, <2>2
<1>7. QED
  BY <1>2, <1>3, <1>4, <1>5, <1>6

(* The INSERT of a missing account.                                        *)
LEMMA InsertKeeps ==
    ASSUME LedgerInv, NEW p \in Proc, InsertAccount(p)
    PROVE  LedgerInv'
<1>1. /\ pc[p] = "insert" /\ Acc(p) \in Account
      /\ op[p] \in Op /\ idx[p] \in 1 .. Len(op[p].entries)
  BY EntryTyped DEF InsertAccount, LedgerInv
<1>2. acct[Acc(p)] = NoRow
  BY <1>1 DEF InsertAccount, LedgerInv, StatementsAddUp, RowOK
<1>3. Continues(NoRow, NewRow)
  BY FreshRows DEF Continues
<1>4. /\ held' \in [Proc -> SUBSET Account]
      /\ draft' \in [Proc -> [Account -> Row]]
      /\ held'[p] = held[p] \cup {Acc(p)} /\ draft'[p][Acc(p)] = NewRow
      /\ \A q \in Proc \ {p} : held'[q] = held[q] /\ draft'[q] = draft[q]
      /\ StatementsAddUp' /\ DebitsAreCovered' /\ RowLocksExclude' /\ DraftsContinue'
  <2>1. /\ ~ Blocked(p, Acc(p))
        /\ held' = [held EXCEPT ![p] = @ \cup {Acc(p)}]
        /\ draft' = [draft EXCEPT ![p][Acc(p)] = NewRow]
        /\ UNCHANGED acct
    BY DEF InsertAccount
  <2>2. Continues(acct[Acc(p)], NewRow) /\ ~ acct[Acc(p)].exists
    BY <1>2, <1>3, FreshRows
  <2> HIDE DEF Acc
  <2>3. QED
    BY <1>1, <2>1, <2>2, FreshRows, TakeRowKeeps, ZenonT(40)
<1>5. /\ pc'[p] \in {"commit", "update"} /\ seen'[p] = NewRow
      /\ pc' \in [Proc -> {"idle", "query", "insert", "update", "commit"}]
      /\ \A q \in Proc \ {p} : pc'[q] = pc[q] /\ seen'[q] = seen[q]
      /\ UNCHANGED <<acct, op, idx, result>>
  BY DEF InsertAccount, LedgerInv, TypeOK
<1>6. TypeOK'
  <2>1. seen' \in [Proc -> Row]
    BY FreshRows DEF InsertAccount, LedgerInv, TypeOK
  <2>2. QED
    BY <2>1, <1>4, <1>5 DEF LedgerInv, TypeOK
<1>7. AtAnEntry'
  BY <1>1, <1>4, <1>5 DEF LedgerInv, AtAnEntry
<1>8. SameVersionSameBalance'
  <2> SUFFICES ASSUME NEW q \in Proc, pc'[q] = "update"
               PROVE  ReadIsUsable(q)'
    BY DEF SameVersionSameBalance
  <2>1. Acc(q)' = Acc(q)
    BY <1>5 DEF Acc, Entry
  <2>2. CASE q = p
    <3>1. View(p, Acc(p))' = NewRow
      BY <2>1, <2>2, <1>4 DEF View
    <3>2. QED
      BY <2>2, <3>1, <1>5, FreshRows DEF ReadIsUsable
  <2>3. CASE q # p
    <3>1. View(q, Acc(q))' = View(q, Acc(q))
      BY <2>1, <2>3, <1>4, <1>5 DEF View
    <3>2. QED
      BY <2>3, <3>1, <1>5 DEF LedgerInv, SameVersionSameBalance, ReadIsUsable
  <2>4. QED
    BY <2>2, <2>3
<1>9. QED
  BY <1>4, <1>6, <1>7, <1>8 DEF LedgerInv

(* The UPDATE on the version that was read posts the entry on the row that *)
(* is there, because the balance read is the balance there.                *)
LEMMA UpdatePosts ==
    ASSUME LedgerInv, NEW p \in Proc, UpdateAccount(p), NEW a, a = Acc(p),
           NEW old, old = View(p, a), NEW new, new = PostEntry(old, Kind(p), Delta(p))
    PROVE  /\ pc[p] = "update" /\ a \in Account /\ Kind(p) \in Kinds /\ Delta(p) \in Int
           /\ op[p] \in Op /\ idx[p] \in 1 .. Len(op[p].entries)
           /\ Len(op[p].entries) \in Nat
           /\ old \in Row /\ RowOK(old) /\ acct[a] \in Row /\ Continues(acct[a], old)
           /\ new \in Row /\ RowOK(new) /\ RowCovered(new) /\ new.exists
           /\ new.version = old.version + 1 /\ Continues(old, new)
           /\ draft' = [draft EXCEPT ![p][a] = new]
           /\ held' = [held EXCEPT ![p] = @ \cup {a}]
           /\ ~ Blocked(p, a)
           /\ pc' = [pc EXCEPT ![p] = IF idx[p] = Len(op[p].entries)
                                      THEN "commit" ELSE "query"]
           /\ idx' = [idx EXCEPT ![p] = @ + 1]
           /\ UNCHANGED <<acct, op, seen, result>>
<1> DEFINE read == [seen[p] EXCEPT !.log = old.log]
<1>1. /\ pc[p] = "update" /\ a \in Account /\ Kind(p) \in Kinds /\ Delta(p) \in Int
      /\ op[p] \in Op /\ idx[p] \in 1 .. Len(op[p].entries)
      /\ Len(op[p].entries) \in Nat
  BY EntryTyped DEF LedgerInv, UpdateAccount
<1>2. /\ old \in Row /\ RowOK(old) /\ RowCovered(old)
      /\ acct[a] \in Row /\ Continues(acct[a], old)
  BY <1>1, ViewTyped
<1>3. /\ seen[p] \in Row /\ seen[p].exists /\ old.exists
      /\ seen[p].version = old.version /\ seen[p].balance = old.balance
  BY <1>1 DEF LedgerInv, TypeOK, SameVersionSameBalance, ReadIsUsable, UpdateAccount
<1>4. new = PostEntry(read, Kind(p), Delta(p)) /\ Covered(old, Kind(p), Delta(p))
  <2>1. Covered(seen[p], Kind(p), Delta(p))
    BY DEF UpdateAccount
  <2>2. read.balance = seen[p].balance /\ read.version = seen[p].version /\ read.log = old.log
    BY <1>3 DEF Row
  <2>3. QED
    BY <2>1, <2>2, <1>3 DEF PostEntry, Covered
<1>5. /\ draft' = [draft EXCEPT ![p][a] = new]
      /\ held' = [held EXCEPT ![p] = @ \cup {a}]
      /\ ~ Blocked(p, a)
      /\ pc' = [pc EXCEPT ![p] = IF idx[p] = Len(op[p].entries)
                                 THEN "commit" ELSE "query"]
      /\ idx' = [idx EXCEPT ![p] = @ + 1]
      /\ UNCHANGED <<acct, op, seen, result>>
  <2> HIDE DEF read
  <2>1. draft' = [draft EXCEPT ![p][a] = PostEntry(read, Kind(p), Delta(p))]
    BY DEF UpdateAccount, WriteEntry, read
  <2> QED
    BY <1>4, <2>1 DEF UpdateAccount, WriteEntry
<1>6. /\ new \in Row /\ RowOK(new) /\ RowCovered(new) /\ new.exists
      /\ new.version = old.version + 1 /\ Continues(old, new)
  <2>1. Covered(old, Kind(p), Delta(p))
    BY <1>4
  <2> HIDE DEF read
  <2> QED
    BY <1>1, <1>2, <2>1, PostEntryKeeps
<1> QED
  BY <1>1, <1>2, <1>5, <1>6

(* The row an UPDATE writes continues the row that is there.               *)
LEMMA UpdateKeeps ==
    ASSUME LedgerInv, NEW p \in Proc, UpdateAccount(p)
    PROVE  LedgerInv'
<1> DEFINE a   == Acc(p)
           old == View(p, a)
           new == PostEntry(old, Kind(p), Delta(p))
<1>1. /\ pc[p] = "update" /\ a \in Account /\ op[p] \in Op
      /\ idx[p] \in 1 .. Len(op[p].entries) /\ Len(op[p].entries) \in Nat
  BY UpdatePosts
<1>2. /\ old \in Row /\ acct[a] \in Row /\ Continues(acct[a], old)
  BY UpdatePosts
<1>5. /\ draft' = [draft EXCEPT ![p][a] = new]
      /\ held' = [held EXCEPT ![p] = @ \cup {a}]
      /\ ~ Blocked(p, a)
      /\ pc' = [pc EXCEPT ![p] = IF idx[p] = Len(op[p].entries)
                                 THEN "commit" ELSE "query"]
      /\ idx' = [idx EXCEPT ![p] = @ + 1]
      /\ UNCHANGED <<acct, op, seen, result>>
  BY UpdatePosts
<1>6. /\ new \in Row /\ RowOK(new) /\ RowCovered(new) /\ new.exists
      /\ new.version = old.version + 1 /\ Continues(old, new)
  BY UpdatePosts
<1> HIDE DEF new, old, a
<1>7. Continues(acct[a], new) /\ acct[a].version < new.version
  <2>1. Continues(acct[a], new)
    BY <1>2, <1>6, ContinuesTrans
  <2>2. acct[a].version <= old.version /\ acct[a].version \in Nat /\ old.version \in Nat
    BY <1>2 DEF Continues, Row
  <2>3. QED
    BY <2>1, <2>2, <1>6
<1>8. /\ held' \in [Proc -> SUBSET Account]
      /\ draft' \in [Proc -> [Account -> Row]]
      /\ held'[p] = held[p] \cup {a} /\ draft'[p][a] = new
      /\ \A q \in Proc \ {p} : held'[q] = held[q] /\ draft'[q] = draft[q]
      /\ StatementsAddUp' /\ DebitsAreCovered' /\ RowLocksExclude' /\ DraftsContinue'
  BY <1>1, <1>5, <1>6, <1>7, TakeRowKeeps
<1>9. /\ pc'[p] \in {"commit", "query"}
      /\ pc'[p] = "query" => idx[p] # Len(op[p].entries)
      /\ idx'[p] = idx[p] + 1
      /\ \A q \in Proc \ {p} : pc'[q] = pc[q] /\ idx'[q] = idx[q]
      /\ pc' \in [Proc -> {"idle", "query", "insert", "update", "commit"}]
      /\ idx' \in [Proc -> Nat \ {0}]
  BY <1>1, <1>5 DEF LedgerInv, TypeOK
<1>10. TypeOK'
  BY <1>5, <1>8, <1>9 DEF LedgerInv, TypeOK
<1>11. AtAnEntry'
  <2>1. pc'[p] = "query" => idx'[p] \in 1 .. Len(op[p].entries)
    BY <1>1, <1>9
  <2>2. QED
    BY <2>1, <1>1, <1>5, <1>8, <1>9 DEF LedgerInv, AtAnEntry
<1>12. SameVersionSameBalance'
  <2> SUFFICES ASSUME NEW q \in Proc, pc'[q] = "update"
               PROVE  ReadIsUsable(q)'
    BY DEF SameVersionSameBalance
  <2>1. q # p /\ pc[q] = "update"
    BY <1>9
  <2>2. View(q, Acc(q))' = View(q, Acc(q))
    BY <2>1, <1>5, <1>8, <1>9 DEF View, Acc, Entry
  <2>3. QED
    BY <2>1, <2>2, <1>5 DEF LedgerInv, SameVersionSameBalance, ReadIsUsable
<1>13. QED
  BY <1>8, <1>10, <1>11, <1>12 DEF LedgerInv

(* COMMIT publishes the drafts of p.  A goroutine that has read one of     *)
(* these rows now finds a higher version there.                            *)
LEMMA CommitKeeps ==
    ASSUME LedgerInv, NEW p \in Proc, Commit(p)
    PROVE  LedgerInv'
<1>1. /\ \A a \in Account : acct'[a] = View(p, a)
      /\ acct' = [a \in Account |-> View(p, a)]
  BY DEF Commit
<1>2. /\ acct' \in [Account -> Row] /\ StatementsAddUp' /\ DebitsAreCovered'
  BY <1>1, ViewTyped DEF StatementsAddUp, DebitsAreCovered
<1>3. /\ pc'[p] = "idle" /\ held'[p] = {}
      /\ \A q \in Proc \ {p} : /\ pc'[q] = pc[q] /\ held'[q] = held[q]
                               /\ draft'[q] = draft[q] /\ op'[q] = op[q]
                               /\ idx'[q] = idx[q] /\ seen'[q] = seen[q]
  BY DEF Commit, Return, LedgerInv, TypeOK
<1>4. TypeOK'
  <2>1. NoDraft \in [Account -> Row] /\ NoRow \in Row
    BY FreshRows DEF NoDraft
  <2>2. QED
    BY <2>1, <1>2 DEF Commit, Return, LedgerInv, TypeOK, Outcome
<1>5. RowLocksExclude'
  BY <1>3 DEF LedgerInv, RowLocksExclude
<1>6. DraftsContinue'
  <2> SUFFICES ASSUME NEW q \in Proc, NEW a \in held'[q]
               PROVE  /\ RowOK(draft'[q][a]) /\ RowCovered(draft'[q][a])
                      /\ draft'[q][a].exists
                      /\ Continues(acct'[a], draft'[q][a])
                      /\ acct'[a].exists => acct'[a].version < draft'[q][a].version
    BY DEF DraftsContinue
  <2>1. q # p /\ a \in held[q] /\ draft'[q][a] = draft[q][a]
    BY <1>3
  <2>2. a \in Account /\ a \notin held[p]
    BY <2>1 DEF LedgerInv, TypeOK, RowLocksExclude
  <2>3. acct'[a] = acct[a]
    BY <2>2, <1>1 DEF View
  <2>4. QED
    BY <2>1, <2>3 DEF LedgerInv, DraftsContinue
<1>7. AtAnEntry'
  BY <1>3 DEF LedgerInv, AtAnEntry
<1>8. SameVersionSameBalance'
  <2> SUFFICES ASSUME NEW q \in Proc, pc'[q] = "update"
               PROVE  ReadIsUsable(q)'
    BY DEF SameVersionSameBalance
  <2>1. q # p /\ pc[q] = "update" /\ seen'[q] = seen[q] /\ Acc(q)' = Acc(q)
    BY <1>3 DEF Acc, Entry
  <2>2. PICK a \in Account : a = Acc(q)
    BY <2>1, EntryTyped DEF LedgerInv
  <2>3. /\ seen[q].exists /\ View(q, a).exists
        /\ seen[q].version <= View(q, a).version
        /\ seen[q].version = View(q, a).version => seen[q].balance = View(q, a).balance
    BY <2>1, <2>2 DEF LedgerInv, SameVersionSameBalance, ReadIsUsable
  <2>4. ASSUME /\ View(q, a)'.exists
               /\ seen[q].version <= View(q, a)'.version
               /\ seen[q].version = View(q, a)'.version =>
                     seen[q].balance = View(q, a)'.balance
        PROVE  ReadIsUsable(q)'
    BY <2>1, <2>2, <2>3, <2>4 DEF ReadIsUsable
  <2>5. CASE a \notin held[p]
    <3>1. View(q, a)' = View(q, a)
      BY <2>1, <2>5, <1>1, <1>3 DEF View
    <3>2. QED
      BY <2>3, <2>4, <3>1
  <2>6. CASE a \in held[p]
    <3>1. a \notin held[q] /\ View(q, a) = acct[a]
      BY <2>1, <2>6 DEF LedgerInv, RowLocksExclude, View
    <3>2. View(q, a)' = draft[p][a]
      BY <2>1, <2>6, <3>1, <1>1, <1>3 DEF View
    <3>3. draft[p][a].exists /\ acct[a].version < draft[p][a].version
      BY <2>3, <2>6, <3>1 DEF LedgerInv, DraftsContinue
    <3>4. /\ seen[q].version \in Nat /\ acct[a].version \in Nat
          /\ draft[p][a].version \in Nat
      BY DEF LedgerInv, TypeOK, Row
    <3>5. QED
      BY <2>3, <2>4, <3>1, <3>2, <3>3, <3>4
  <2>7. QED
    BY <2>5, <2>6
<1>9. QED
  BY <1>2, <1>4, <1>5, <1>6, <1>7, <1>8 DEF LedgerInv

-----------------------------------------------------------------------------

(* Every step of every goroutine keeps LedgerInv.                          *)
LEMMA LedgerStep == LedgerInv /\ [LNext]_vars => LedgerInv'
<1> SUFFICES ASSUME LedgerInv, [LNext]_vars PROVE LedgerInv'
  OBVIOUS
<1>1. ASSUME NEW p \in Proc, Call(p) PROVE LedgerInv'
  BY <1>1, BeginKeeps, RefuseKeeps DEF Call
<1>2. ASSUME NEW p \in Proc, Step(p) PROVE LedgerInv'
  <2>1. CASE QueryAccount(p)
    BY <2>1, QueryKeeps
  <2>2. CASE InsertAccount(p)
    BY <2>2, InsertKeeps
  <2>3. CASE UpdateAccount(p)
    BY <2>3, UpdateKeeps
  <2>4. CASE Commit(p)
    BY <2>4, CommitKeeps
  <2>5. CASE \/ InsertConflict(p) \/ Insufficient(p)
             \/ VersionConflict(p) \/ DeadlockVictim(p)
    <3>1. PICK why \in Outcome : Rollback(p, why)
      BY <2>5 DEF InsertConflict, Insufficient, VersionConflict,
                  DeadlockVictim, Outcome
    <3>2. QED
      BY <3>1, RollbackKeeps
  <2>6. QED
    BY <1>2, <2>1, <2>2, <2>3, <2>4, <2>5 DEF Step
<1>3. ASSUME NEW p \in Proc, DbError(p) PROVE LedgerInv'
  BY <1>3, RollbackKeeps DEF DbError, Outcome
<1>4. CASE UNCHANGED vars
  BY <1>4 DEF vars, LedgerInv, TypeOK, StatementsAddUp, DebitsAreCovered,
              RowLocksExclude, DraftsContinue, AtAnEntry,
              SameVersionSameBalance, ReadIsUsable, View, Acc, Entry
<1>5. QED
  BY <1>1, <1>2, <1>3, <1>4 DEF LNext

(* The inductive invariant holds in every reachable state of the ledger.   *)
THEOREM LedgerInvariant == LSpec => []LedgerInv
<1>1. LInit => LedgerInv
  BY LedgerInit
<1>2. LedgerInv /\ [LNext]_vars => LedgerInv'
  BY LedgerStep
<1>3. QED
  BY <1>1, <1>2, PTL DEF LSpec

(* The state of the goroutines and of the committed rows is well typed.    *)
THEOREM LedgerTypeCorrect == LSpec => []TypeOK
<1>1. LedgerInv => TypeOK
  BY DEF LedgerInv
<1>2. QED
  BY <1>1, LedgerInvariant, PTL

(* No interleaving of CreditAccount, DebitAccount and postLedger loses an  *)
(* update: every committed balance is the sum its entries tell.            *)
THEOREM NoLostUpdate == LSpec => []StatementsAddUp
<1>1. LedgerInv => StatementsAddUp
  BY DEF LedgerInv
<1>2. QED
  BY <1>1, LedgerInvariant, PTL

(* DebitAccount never commits an overdraft.                                *)
THEOREM NoOverdraft == LSpec => []DebitsAreCovered
<1>1. LedgerInv => DebitsAreCovered
  BY DEF LedgerInv
<1>2. QED
  BY <1>1, LedgerInvariant, PTL

(* No commit rewrites the entries another transaction committed.           *)
THEOREM AppendOnlyHistory == LSpec => HistoryIsAppendOnly
<1>1. LedgerInv /\ [LNext]_vars =>
        [\A a \in Account : Continues(acct[a], acct'[a])]_acct
  <2> SUFFICES ASSUME LedgerInv, LNext, acct' # acct, NEW a \in Account
               PROVE  Continues(acct[a], acct'[a])
    BY DEF vars
  <2>1. PICK p \in Proc : Commit(p)
    BY DEF LNext, Call, Begin, Refuse, Step, QueryAccount, InsertAccount,
           InsertConflict, Insufficient, UpdateAccount, VersionConflict,
           DeadlockVictim, DbError, Rollback
  <2>2. acct'[a] = View(p, a)
    BY <2>1 DEF Commit
  <2>3. QED
    BY <2>2, ViewTyped
<1>2. QED
  BY <1>1, LedgerInvariant, PTL DEF LSpec, HistoryIsAppendOnly

-----------------------------------------------------------------------------
(***************************************************************************)
(* The ledger implements AtomicLedger: at COMMIT every entry of the        *)
(* operation stands behind the statement of the account it names, and      *)
(* nothing else does.                                                      *)
(***************************************************************************)

(* One more entry names its own account and no other.                      *)
LEMMA NamedGrows ==
    ASSUME NEW o, NEW a, NEW n \in Nat
    PROVE  /\ Named(o, a, 0) = {} /\ IsFiniteSet(Named(o, a, n))
           /\ Cardinality(Named(o, a, n)) \in Nat
           /\ o.entries[n + 1].acct # a => Named(o, a, n + 1) = Named(o, a, n)
           /\ o.entries[n + 1].acct = a =>
                 /\ Named(o, a, n + 1) = Named(o, a, n) \cup {n + 1}
                 /\ Cardinality(Named(o, a, n + 1)) = Cardinality(Named(o, a, n)) + 1
<1>1. Named(o, a, 0) = {}
  BY DEF Named
<1>2. IsFiniteSet(Named(o, a, n)) /\ n + 1 \notin Named(o, a, n)
  <2>1. IsFiniteSet(1 .. n)
    BY FS_Interval
  <2>2. Named(o, a, n) \in SUBSET (1 .. n)
    BY DEF Named
  <2>3. n + 1 \notin 1 .. n
    OBVIOUS
  <2> QED
    BY <2>1, <2>2, <2>3, FS_Subset
<1>3. /\ o.entries[n + 1].acct # a => Named(o, a, n + 1) = Named(o, a, n)
      /\ o.entries[n + 1].acct = a => Named(o, a, n + 1) = Named(o, a, n) \cup {n + 1}
  <2>1. \A i : i \in 1 .. n + 1 <=> i \in 1 .. n \/ i = n + 1
    OBVIOUS
  <2> QED
    BY <2>1 DEF Named
<1>4. Cardinality(Named(o, a, n)) \in Nat
  BY <1>2, FS_CardinalityType
<1>5. Cardinality(Named(o, a, n) \cup {n + 1}) = Cardinality(Named(o, a, n)) + 1
  BY <1>2, FS_AddElement
<1> QED
  BY <1>1, <1>2, <1>3, <1>4, <1>5

(* The place of an entry among those that name its account.                *)
LEMMA PlaceOfEntry ==
    ASSUME NEW o, NEW a, NEW n \in Nat, NEW i \in Named(o, a, n)
    PROVE  Cardinality(Named(o, a, i)) \in 1 .. Cardinality(Named(o, a, n))
<1>1. i \in 1 .. n /\ i \in Nat /\ i \in Named(o, a, i)
  BY DEF Named
<1>2. /\ IsFiniteSet(Named(o, a, n)) /\ IsFiniteSet(Named(o, a, i))
      /\ Cardinality(Named(o, a, n)) \in Nat /\ Cardinality(Named(o, a, i)) \in Nat
  BY <1>1, NamedGrows
<1>3. Named(o, a, i) \in SUBSET Named(o, a, n)
  BY <1>1 DEF Named
<1>4. Cardinality(Named(o, a, i)) <= Cardinality(Named(o, a, n))
  BY <1>2, <1>3, FS_Subset
<1>5. Cardinality(Named(o, a, i)) # 0
  BY <1>1, <1>2, FS_EmptySet
<1> QED
  BY <1>2, <1>4, <1>5

(* A statement follows itself behind no entry; a row just inserted follows *)
(* the row that was not there.                                             *)
LEMMA FollowsNothing ==
    ASSUME NEW s \in Row, RowOK(s), NEW o, NEW a, NEW n, Named(o, a, n) = {}
    PROVE  Follows(s, s, o, a, n) /\ (s = NoRow => Follows(s, NewRow, o, a, n))
<1>1. Cardinality(Named(o, a, n)) = 0
  BY FS_EmptySet
<1>2. Len(s.log) \in Nat
  BY DEF Row
<1>3. Follows(s, s, o, a, n)
  BY <1>1, <1>2 DEF Follows
<1>4. s = NoRow => Follows(s, NewRow, o, a, n)
  BY <1>1, <1>2, FreshRows DEF Follows
<1> QED
  BY <1>3, <1>4

(* Posting the next entry on the statement of the account it names puts    *)
(* it behind the entries before it.                                        *)
LEMMA FollowsPost ==
    ASSUME NEW s \in Row, NEW r \in Row, NEW t \in Row, NEW o, NEW n \in Nat, NEW k \in Kinds,
           NEW d \in Int, NEW a,
           Follows(s, r, o, a, n), t = PostEntry(r, k, d), RowOK(t),
           o.kind = k, o.entries[n + 1].acct = a, o.entries[n + 1].delta = d
    PROVE  Follows(s, t, o, a, n + 1)
<1> DEFINE e == [kind |-> k, delta |-> d, after |-> r.balance + d]
           ls == Len(s.log)
           lr == Len(r.log)
           before == Cardinality(Named(o, a, n))
<1>1. ls \in Nat /\ lr \in Nat /\ before \in Nat
  <2>1. ls \in Nat /\ lr \in Nat
    BY DEF Row
  <2>2. before \in Nat
    BY NamedGrows, ZenonT(30)
  <2> QED
    BY <2>1, <2>2
<1>2. /\ lr = ls + before /\ \A i \in 1 .. ls : r.log[i] = s.log[i]
      /\ \A i \in Named(o, a, n) : LET x == r.log[ls + Cardinality(Named(o, a, i))]
                                   IN  x.kind = k /\ x.delta = o.entries[i].delta
  BY DEF Follows
<1>3. /\ Len(t.log) = lr + 1 /\ t.log[lr + 1] = e
      /\ \A i \in 1 .. lr : t.log[i] = r.log[i]
  <2>1. /\ r.log \in Seq([kind : Kinds, delta : Int, after : Int])
        /\ e \in [kind : Kinds, delta : Int, after : Int] /\ t.log = Append(r.log, e)
    BY DEF Row, PostEntry
  <2> QED
    BY <2>1
<1>4. /\ Named(o, a, n + 1) = Named(o, a, n) \cup {n + 1}
      /\ Cardinality(Named(o, a, n + 1)) = before + 1
  BY NamedGrows
<1>5. e.kind = k /\ e.delta = d
  OBVIOUS
<1> HIDE DEF e, ls, lr, before
<1>6. Len(t.log) = ls + Cardinality(Named(o, a, n + 1))
  BY <1>1, <1>2, <1>3, <1>4
<1>7. \A i \in 1 .. ls : t.log[i] = s.log[i]
  <2>1. \A i \in 1 .. ls : i \in 1 .. lr
    BY <1>1, <1>2
  <2> QED
    BY <1>2, <1>3, <2>1
<1>8. ASSUME NEW i \in Named(o, a, n + 1)
      PROVE  LET x == t.log[ls + Cardinality(Named(o, a, i))]
             IN  x.kind = k /\ x.delta = o.entries[i].delta
  <2>1. CASE i = n + 1
    <3>1. ls + Cardinality(Named(o, a, i)) = lr + 1
      BY <1>1, <1>2, <1>4, <2>1
    <3> QED
      BY <1>3, <1>5, <2>1, <3>1
  <2>2. CASE i \in Named(o, a, n)
    <3>1. Cardinality(Named(o, a, i)) \in 1 .. before
      BY <2>2, PlaceOfEntry DEF before
    <3>2. ls + Cardinality(Named(o, a, i)) \in 1 .. lr
      BY <1>1, <1>2, <3>1
    <3> QED
      BY <1>2, <1>3, <2>2, <3>2
  <2> QED
    BY <1>4, <2>1, <2>2
<1> QED
  BY <1>6, <1>7, <1>8 DEF Follows, ls

(* An entry of another account changes nothing for this one.               *)
LEMMA FollowsOther ==
    ASSUME NEW o, NEW n \in Nat, NEW a, o.entries[n + 1].acct # a
    PROVE  /\ Named(o, a, n + 1) = Named(o, a, n)
           /\ \A s, t : Follows(s, t, o, a, n) => Follows(s, t, o, a, n + 1)
<1>1. Named(o, a, n + 1) = Named(o, a, n)
  BY NamedGrows
<1> QED
  BY <1>1 DEF Follows


(* What a goroutine has written stays written while another one moves,     *)
(* because that one commits none of the rows it holds.                     *)
Untouched(q) ==
    /\ pc'[q] = pc[q] /\ op'[q] = op[q] /\ idx'[q] = idx[q]
    /\ held'[q] = held[q] /\ draft'[q] = draft[q]
    /\ \A a \in held[q] : acct'[a] = acct[a]

(* So only the goroutine that moves has to be looked at.                   *)
LEMMA OnlyOneWrites ==
    ASSUME LedgerInv, WritesFollow, NEW p \in Proc,
           \A q \in Proc \ {p} : Untouched(q), pc'[p] = "idle" \/ Written(p)'
    PROVE  WritesFollow'
<1> SUFFICES ASSUME NEW q \in Proc \ {p}, pc'[q] # "idle" PROVE Written(q)'
  BY DEF WritesFollow
<1>1. Untouched(q)
  OBVIOUS
<1>2. Written(q) /\ held[q] \subseteq Account
  BY <1>1 DEF WritesFollow, LedgerInv, TypeOK, Untouched
<1>3. Acc(q)' = Acc(q) /\ Kind(q)' = Kind(q)
  BY <1>1 DEF Untouched, Acc, Kind, Entry
<1>4. (Admissible(op[q]) /\ op[q] \in Op /\ (pc[q] = "insert" => Acc(q) \notin held[q]))'
  BY <1>1, <1>2, <1>3 DEF Untouched, Written
<1>5. CASE Kind(q) = "ensure"
  BY <1>1, <1>2, <1>3, <1>4, <1>5 DEF Untouched, Written
<1>6. CASE Kind(q) # "ensure"
  <2>1. /\ (pc[q] = "commit" => idx[q] = Len(op[q].entries) + 1)'
        /\ (\A a \in held[q] : \/ Named(op[q], a, idx[q] - 1) # {}
                               \/ (pc[q] = "update" /\ a = Acc(q)))'
    BY <1>1, <1>2, <1>3, <1>6 DEF Untouched, Written
  <2>2. ASSUME NEW a \in Account
        PROVE  IF a \in held'[q]
               THEN Follows(acct'[a], draft'[q][a], op'[q], a, idx'[q] - 1)
               ELSE Named(op'[q], a, idx'[q] - 1) = {}
    BY <1>1, <1>2, <1>6 DEF Untouched, Written
  <2> QED
    BY <1>3, <1>4, <1>6, <2>1, <2>2 DEF Written
<1> QED
  BY <1>5, <1>6

(* A transaction begins with nothing written.                              *)
LEMMA BeginWrites ==
    ASSUME LedgerInv, WritesFollow, NEW p \in Proc, NEW o \in Op, Begin(p, o)
    PROVE  WritesFollow'
<1>1. /\ pc[p] = "idle" /\ Admissible(o) /\ pc'[p] = "query" /\ op'[p] = o /\ idx'[p] = 1
      /\ \A q \in Proc \ {p} : pc'[q] = pc[q] /\ op'[q] = op[q] /\ idx'[q] = idx[q]
      /\ UNCHANGED <<acct, held, draft>>
  BY DEF Begin, LedgerInv, TypeOK
<1>2. \A q \in Proc \ {p} : Untouched(q)
  BY <1>1 DEF Untouched
<1>3. held'[p] = {}
  BY <1>1 DEF LedgerInv, AtAnEntry
<1>4. \A a : Named(o, a, idx'[p] - 1) = {}
  BY <1>1, NamedGrows
<1>5. Written(p)'
  BY <1>1, <1>3, <1>4 DEF Written, Kind
<1> QED
  BY <1>2, <1>5, OnlyOneWrites

(* The SELECT writes nothing; a row it does not find is not its own.       *)
LEMMA QueryWrites ==
    ASSUME LedgerInv, WritesFollow, NEW p \in Proc, QueryAccount(p)
    PROVE  WritesFollow'
<1>1. /\ pc[p] = "query" /\ UNCHANGED <<acct, op, idx, held, draft>>
      /\ \A q \in Proc \ {p} : pc'[q] = pc[q]
      /\ pc'[p] = IF ~ View(p, Acc(p)).exists THEN "insert"
                    ELSE IF Kind(p) = "ensure" THEN "commit"
                    ELSE "update"
  BY DEF QueryAccount, LedgerInv, TypeOK
<1>2. \A q \in Proc \ {p} : Untouched(q)
  BY <1>1 DEF Untouched
<1>3. Written(p) /\ Acc(p)' = Acc(p) /\ Kind(p)' = Kind(p)
  BY <1>1 DEF WritesFollow, Acc, Kind, Entry
<1>4. pc'[p] = "insert" => Acc(p) \notin held[p]
  BY <1>1 DEF LedgerInv, DraftsContinue, View
<1>5. CASE Kind(p) = "ensure"
  <2>1. pc'[p] # "update"
    BY <1>1, <1>5
  <2> QED
    BY <1>1, <1>2, <1>3, <1>4, <1>5, <2>1, OnlyOneWrites DEF Written
<1>6. CASE Kind(p) # "ensure"
  <2>1. pc'[p] # "commit"
    BY <1>1, <1>6
  <2>2. Written(p)'
    BY <1>1, <1>3, <1>4, <1>6, <2>1 DEF Written
  <2> QED
    BY <1>2, <2>2, OnlyOneWrites
<1> QED
  BY <1>5, <1>6

(* The INSERT writes an account with no entries.                           *)
LEMMA InsertWrites ==
    ASSUME LedgerInv, WritesFollow, NEW p \in Proc, InsertAccount(p)
    PROVE  WritesFollow'
<1>1. /\ pc[p] = "insert" /\ Acc(p) \in Account /\ idx[p] \in Nat /\ acct[Acc(p)] = NoRow
  BY EntryTyped DEF InsertAccount, LedgerInv, TypeOK, StatementsAddUp, RowOK
<1>2. /\ pc'[p] = IF Kind(p) = "ensure" THEN "commit" ELSE "update"
      /\ held'[p] = held[p] \cup {Acc(p)} /\ draft'[p][Acc(p)] = NewRow
      /\ \A a \in Account \ {Acc(p)} : draft'[p][a] = draft[p][a]
      /\ UNCHANGED <<acct, op, idx>>
  BY <1>1 DEF InsertAccount, LedgerInv, TypeOK
<1>3. \A q \in Proc \ {p} : Untouched(q)
  BY DEF InsertAccount, LedgerInv, TypeOK, Untouched
<1>4. Written(p) /\ Acc(p)' = Acc(p) /\ Kind(p)' = Kind(p) /\ Acc(p) \notin held[p]
  BY <1>1, <1>2 DEF WritesFollow, Written, Acc, Kind, Entry
<1>5. CASE Kind(p) = "ensure"
  <2>1. pc'[p] = "commit" /\ held[p] = {} /\ ~ acct[Acc(p)].exists
    BY <1>1, <1>2, <1>4, <1>5, FreshRows DEF Written
  <2>2. Written(p)'
    BY <1>2, <1>4, <1>5, <2>1 DEF Written
  <2> QED
    BY <1>3, <2>2, OnlyOneWrites
<1>6. CASE Kind(p) # "ensure"
  <2>1. pc'[p] = "update"
    BY <1>2, <1>6
  <2>2. \A a \in held[p] : Named(op[p], a, idx[p] - 1) # {}
    BY <1>1, <1>4, <1>6 DEF Written
  <2>3. ASSUME NEW a \in Account
        PROVE  IF a \in held'[p] THEN Follows(acct[a], draft'[p][a], op[p], a, idx[p] - 1)
                                 ELSE Named(op[p], a, idx[p] - 1) = {}
    <3>1. CASE a = Acc(p)
      <4>1. Named(op[p], a, idx[p] - 1) = {}
        BY <1>4, <1>6, <3>1 DEF Written
      <4>2. Follows(acct[a], NewRow, op[p], a, idx[p] - 1)
        BY <1>1, <3>1, <4>1, FollowsNothing, FreshRows
      <4> QED
        BY <1>2, <3>1, <4>2
    <3>2. CASE a # Acc(p)
      BY <1>2, <1>4, <1>6, <3>2 DEF Written
    <3> QED
      BY <3>1, <3>2
  <2>4. Written(p)'
    BY <1>2, <1>4, <1>6, <2>1, <2>2, <2>3 DEF Written
  <2> QED
    BY <1>3, <2>4, OnlyOneWrites
<1> QED
  BY <1>5, <1>6

(* The UPDATE writes the entry that the transaction has reached.           *)
LEMMA UpdateWrites ==
    ASSUME LedgerInv, WritesFollow, NEW p \in Proc, UpdateAccount(p)
    PROVE  WritesFollow'
<1> DEFINE a   == Acc(p)
           o   == op[p]
           n   == idx[p] - 1
           old == View(p, a)
           new == PostEntry(old, Kind(p), Delta(p))
<1>1. /\ pc[p] = "update" /\ a \in Account /\ Kind(p) \in Kinds /\ Delta(p) \in Int
      /\ idx[p] \in 1 .. Len(o.entries) /\ Len(o.entries) \in Nat
      /\ old \in Row /\ RowOK(old) /\ acct[a] \in Row /\ new \in Row /\ RowOK(new)
  BY UpdatePosts
<1>2. /\ draft' = [draft EXCEPT ![p][a] = new] /\ held' = [held EXCEPT ![p] = @ \cup {a}]
      /\ pc' = [pc EXCEPT ![p] = IF idx[p] = Len(o.entries) THEN "commit" ELSE "query"]
      /\ idx' = [idx EXCEPT ![p] = @ + 1] /\ UNCHANGED <<acct, op>>
  BY UpdatePosts
<1>3. /\ n \in Nat /\ n + 1 = idx[p] /\ o.entries[n + 1].acct = a
      /\ o.entries[n + 1].delta = Delta(p) /\ o.kind = Kind(p)
  BY <1>1 DEF Acc, Delta, Kind, Entry
<1>4. Written(p) /\ Kind(p) # "ensure" /\ Kind(p)' = Kind(p)
  BY <1>1, <1>2 DEF WritesFollow, Written, Kind
<1> HIDE DEF a, o, new, old
<1>5. /\ held'[p] = held[p] \cup {a} /\ draft'[p][a] = new
      /\ \A b \in Account \ {a} : draft'[p][b] = draft[p][b]
      /\ pc'[p] = IF idx[p] = Len(o.entries) THEN "commit" ELSE "query"
      /\ idx'[p] = n + 2 /\ op'[p] = o
      /\ \A q \in Proc \ {p} : Untouched(q)
  BY <1>1, <1>2, <1>3 DEF LedgerInv, TypeOK, Untouched, o
<1>6. \A b \in Account : IF b \in held[p] THEN Follows(acct[b], draft[p][b], o, b, n)
                                          ELSE Named(o, b, n) = {}
  BY <1>4 DEF Written, o
<1>7. \A b \in held[p] \ {a} : Named(o, b, n) # {}
  BY <1>4 DEF Written, o, a
<1> HIDE DEF n
<1>8. n + 1 \in Named(o, a, n + 1)
  <2>1. Named(o, a, n + 1) = Named(o, a, n) \cup {n + 1}
    BY <1>3, NamedGrows
  <2> QED
    BY <2>1
<1>9. Follows(acct[a], new, o, a, n + 1)
  <2>1. Follows(acct[a], old, o, a, n)
    <3>1. CASE a \in held[p]
      BY <1>1, <1>6, <3>1 DEF old, View
    <3>2. CASE a \notin held[p]
      BY <1>1, <1>6, <3>2, FollowsNothing DEF old, View
    <3> QED
      BY <3>1, <3>2
  <2>2. new = PostEntry(old, Kind(p), Delta(p))
    BY DEF new
  <2> QED
    BY <1>1, <1>3, <2>1, <2>2, FollowsPost
<1>10. ASSUME NEW b \in Account
       PROVE  IF b \in held'[p] THEN Follows(acct[b], draft'[p][b], o, b, n + 1)
                                ELSE Named(o, b, n + 1) = {}
  <2>1. CASE b = a
    BY <1>5, <1>9, <2>1
  <2>2. CASE b # a
    <3>1. Named(o, b, n + 1) = Named(o, b, n)
      BY <1>3, <2>2, FollowsOther
    <3>2. ASSUME b \in held[p] PROVE Follows(acct[b], draft[p][b], o, b, n + 1)
      BY <1>3, <1>6, <2>2, <3>2, FollowsOther
    <3> QED
      BY <1>5, <1>6, <2>2, <3>1, <3>2
  <2> QED
    BY <2>1, <2>2
<1>11. \A b \in held'[p] : Named(o, b, n + 1) # {}
  <2>1. ASSUME NEW b \in held[p], b # a PROVE Named(o, b, n + 1) # {}
    BY <1>3, <1>7, <2>1, FollowsOther
  <2> QED
    BY <1>5, <1>8, <2>1
<1>12. /\ idx'[p] - 1 = n + 1 /\ pc'[p] # "insert"
       /\ pc'[p] = "commit" => idx'[p] = Len(o.entries) + 1
  BY <1>1, <1>3, <1>5
<1>13. Written(p)'
  <2>1. Admissible(o) /\ o \in Op
    BY <1>4 DEF Written, o
  <2> QED
    BY <1>2, <1>4, <1>5, <1>10, <1>11, <1>12, <2>1 DEF Written
<1> QED
  BY <1>5, <1>13, OnlyOneWrites

(* ROLLBACK and COMMIT leave a transaction that has written nothing.       *)
LEMMA ReturnWrites ==
    ASSUME LedgerInv, WritesFollow, NEW p \in Proc, NEW what, Return(p, what),
           acct' = acct \/ acct' = [a \in Account |-> View(p, a)]
    PROVE  WritesFollow'
<1>1. pc'[p] = "idle"
  BY DEF Return, LedgerInv, TypeOK
<1>2. ASSUME NEW q \in Proc \ {p} PROVE Untouched(q)
  <2>1. \A a \in held[q] : a \in Account /\ a \notin held[p]
    BY DEF LedgerInv, TypeOK, RowLocksExclude
  <2>2. \A a \in held[q] : acct'[a] = acct[a]
    BY <2>1 DEF View
  <2> QED
    BY <2>2 DEF Return, LedgerInv, TypeOK, Untouched
<1> QED
  BY <1>1, <1>2, OnlyOneWrites

(* No step of any goroutine writes anything but its operation's entries.   *)
LEMMA WritesStep == LedgerInv /\ WritesFollow /\ [LNext]_vars => WritesFollow'
<1> SUFFICES ASSUME LedgerInv, WritesFollow, [LNext]_vars PROVE WritesFollow'
  OBVIOUS
<1>1. ASSUME NEW p \in Proc, Call(p) PROVE WritesFollow'
  <2>1. ASSUME NEW o \in Op, Refuse(p, o) PROVE WritesFollow'
    BY <2>1 DEF Refuse, WritesFollow, Written, Kind, Acc, Entry
  <2> QED
    BY <1>1, <2>1, BeginWrites DEF Call
<1>2. ASSUME NEW p \in Proc, Step(p) \/ DbError(p) PROVE WritesFollow'
  <2>1. CASE QueryAccount(p)
    BY <2>1, QueryWrites
  <2>2. CASE InsertAccount(p)
    BY <2>2, InsertWrites
  <2>3. CASE UpdateAccount(p)
    BY <2>3, UpdateWrites
  <2>4. CASE Commit(p)
    BY <2>4, ReturnWrites DEF Commit
  <2>5. CASE \/ InsertConflict(p) \/ Insufficient(p) \/ VersionConflict(p)
             \/ DeadlockVictim(p) \/ DbError(p)
    <3>1. PICK why : Rollback(p, why)
      BY <2>5 DEF InsertConflict, Insufficient, VersionConflict, DeadlockVictim, DbError
    <3> QED
      BY <3>1, ReturnWrites DEF Rollback
  <2> QED
    BY <1>2, <2>1, <2>2, <2>3, <2>4, <2>5 DEF Step
<1>3. CASE UNCHANGED vars
  BY <1>3 DEF vars, WritesFollow, Written, Kind, Acc, Entry
<1> QED
  BY <1>1, <1>2, <1>3 DEF LNext

(* A transaction holds the rows its operation names, with the operation's  *)
(* entries behind them, whenever it commits.                               *)
THEOREM WritesAreWhole == LSpec => []OperationInv
<1>1. LInit => OperationInv
  BY LedgerInit DEF LInit, OperationInv, WritesFollow
<1>2. OperationInv /\ [LNext]_vars => OperationInv'
  BY LedgerStep, WritesStep DEF OperationInv
<1>3. QED
  BY <1>1, <1>2, PTL DEF LSpec

(* A debit that is covered where it stands in the statement was covered by *)
(* the balance before it.                                                  *)
LEMMA DebitWasCovered ==
    ASSUME NEW s \in Row, RowOK(s), NEW t \in Row, RowCovered(t),
           \A i \in 1 .. Len(s.log) : t.log[i] = s.log[i], Len(t.log) = Len(s.log) + 1,
           t.log[Len(s.log) + 1].kind = "debit"
    PROVE  s.balance + t.log[Len(s.log) + 1].delta >= 0
<1> DEFINE n == Len(s.log)
<1>1. n \in Nat /\ n + 1 \in 1 .. Len(t.log)
  BY DEF Row
<1>2. BalanceBefore(t.log, n + 1) + t.log[n + 1].delta >= 0
  BY <1>1 DEF RowCovered
<1>3. BalanceBefore(t.log, n + 1) = BalanceBefore(s.log, n + 1)
  <2> HIDE DEF n
  <2>1. n # 0 => n \in 1 .. n
    BY <1>1
  <2>2. n # 0 => t.log[n] = s.log[n]
    BY <2>1 DEF n
  <2>3. n + 1 - 1 = n /\ (n + 1 = 1 <=> n = 0)
    BY <1>1
  <2>4. ASSUME NEW log PROVE BalanceBefore(log, n + 1) = IF n = 0 THEN 0 ELSE log[n].after
    <3>1. CASE n = 0
      BY <2>3, <3>1 DEF BalanceBefore
    <3>2. CASE n # 0
      BY <1>1, <2>3, <3>2 DEF BalanceBefore
    <3> QED
      BY <3>1, <3>2
  <2> QED
    BY <2>2, <2>4
<1>4. s.balance = BalanceBefore(s.log, n + 1)
  BY DEF RowOK
<1> QED
  BY <1>2, <1>3, <1>4

(* COMMIT of a single account that was inserted, or found.                 *)
LEMMA CommitOpens ==
    ASSUME LedgerInv, WritesFollow, NEW p \in Proc, Commit(p), Kind(p) = "ensure"
    PROVE  [Next]_acct
<1>1. /\ Written(p) /\ op[p] \in Op /\ idx[p] = 1
      /\ acct' = [a \in Account |-> View(p, a)]
  BY DEF Commit, WritesFollow, Written
<1>2. /\ held[p] \subseteq {Acc(p)} /\ held[p] \subseteq Account
      /\ \A a \in held[p] : ~ acct[a].exists /\ draft[p][a] = NewRow
      /\ op[p].entries[1].acct = Acc(p) /\ op[p].kind = "ensure"
  BY <1>1 DEF Written, LedgerInv, TypeOK, Acc, Entry, Kind
<1>3. acct \in [Account -> Row]
  BY DEF LedgerInv, TypeOK
<1>4. CASE held[p] = {}
  <2>1. acct' = acct
    BY <1>1, <1>3, <1>4 DEF View
  <2> QED
    BY <2>1
<1>5. CASE held[p] # {}
  <2>1. Acc(p) \in held[p] /\ held[p] = {Acc(p)}
    BY <1>2, <1>5
  <2>2. acct' = [acct EXCEPT ![Acc(p)] = NewRow]
    BY <1>1, <1>2, <1>3, <2>1 DEF View
  <2>3. Open(op[p])
    BY <1>2, <2>1, <2>2 DEF Open
  <2> QED
    BY <1>1, <2>3 DEF Next
<1> QED
  BY <1>4, <1>5

(* COMMIT of an operation with entries posts them all.                     *)
LEMMA CommitPosts ==
    ASSUME LedgerInv, WritesFollow, NEW p \in Proc, Commit(p), Kind(p) # "ensure"
    PROVE  Post(op[p]) /\ op[p] \in Op
<1> DEFINE o    == op[p]
           last == Len(op[p].entries)
<1>1. Written(p) /\ o \in Op /\ Admissible(o) /\ acct' = [a \in Account |-> View(p, a)]
  BY DEF Commit, WritesFollow, Written
<1>2. /\ o.entries \in Seq([acct : Account, delta : Int]) /\ o.entries # <<>>
      /\ (o.kind = "debit" => last = 1)
  BY <1>1, OpAssumption DEF Admissible
<1>3. last \in Nat /\ 1 \in 1 .. last
  BY <1>2
<1>4. o.entries[1].acct \in Account
  <2>1. o.entries[1] \in [acct : Account, delta : Int]
    BY <1>2, <1>3, ElementOfSequence
  <2> HIDE DEF o
  <2> QED
    BY <2>1
<1>5. /\ idx[p] - 1 = last /\ pc[p] = "commit"
      /\ \A a \in held[p] : Named(o, a, last) # {}
      /\ \A a \in Account : IF a \in held[p] THEN Follows(acct[a], draft[p][a], o, a, last)
                                             ELSE Named(o, a, last) = {}
  <2>1. pc[p] = "commit" /\ idx[p] = last + 1
    BY <1>1 DEF Commit, Written
  <2>2. idx[p] - 1 = last
    BY <1>3, <2>1
  <2> QED
    BY <1>1, <2>1, <2>2 DEF Written
<1> HIDE DEF last
<1>6. DOMAIN acct' = Account
  BY <1>1
<1>7. ASSUME NEW a \in Account
      PROVE  IF Named(o, a, last) = {} THEN acct'[a] = acct[a]
             ELSE acct'[a].exists /\ Follows(acct[a], acct'[a], o, a, last)
  <2>1. CASE a \in held[p]
    BY <1>1, <1>5, <2>1 DEF View, LedgerInv, DraftsContinue
  <2>2. CASE a \notin held[p]
    BY <1>1, <1>5, <2>2 DEF View
  <2> QED
    BY <2>1, <2>2
<1>8. ASSUME o.kind = "debit"
      PROVE  acct[o.entries[1].acct].balance + o.entries[1].delta >= 0
  <2> DEFINE a == o.entries[1].acct
             s == acct[a]
             t == draft[p][a]
  <2>1. last = 1 /\ a \in Account
    BY <1>2, <1>4, <1>8
  <2>2. o.entries[0 + 1].acct = a
    OBVIOUS
  <2>3. 1 \in Named(o, a, 1) /\ Cardinality(Named(o, a, 1)) = 1
    <3>1. /\ Named(o, a, 0 + 1) = Named(o, a, 0) \cup {0 + 1}
          /\ Cardinality(Named(o, a, 0 + 1)) = Cardinality(Named(o, a, 0)) + 1
      BY <2>2, NamedGrows, SMTT(20)
    <3>2. Cardinality(Named(o, a, 0)) = 0
      BY NamedGrows, FS_EmptySet
    <3>3. 0 + 1 = 1
      OBVIOUS
    <3> QED
      BY <3>1, <3>2, <3>3
  <2> HIDE DEF a
  <2>4. a \in held[p] /\ Follows(s, t, o, a, 1)
    BY <1>5, <2>1, <2>3
  <2>5. s \in Row /\ RowOK(s) /\ t \in Row /\ RowCovered(t)
    BY <2>1, <2>4 DEF LedgerInv, TypeOK, StatementsAddUp, DraftsContinue
  <2> HIDE DEF s, t, o
  <2>6. /\ Len(t.log) = Len(s.log) + 1 /\ \A i \in 1 .. Len(s.log) : t.log[i] = s.log[i]
        /\ t.log[Len(s.log) + 1].kind = "debit"
        /\ t.log[Len(s.log) + 1].delta = o.entries[1].delta
    BY <1>8, <2>3, <2>4 DEF Follows
  <2>7. s.balance + t.log[Len(s.log) + 1].delta >= 0
    BY <2>5, <2>6, DebitWasCovered
  <2> QED
    BY <2>6, <2>7 DEF s, a
<1>9. Covered(acct[o.entries[1].acct], o.kind, o.entries[1].delta)
  BY <1>8 DEF Covered
<1> QED
  BY <1>1, <1>6, <1>7, <1>9 DEF Post, Kind, last

(* The transactions at READ COMMITTED are serializable: the committed      *)
(* accounts change by whole operations, each on the balances of one        *)
(* moment.                                                                 *)
THEOREM LedgerIsAtomic == LSpec => ImplementsAtomicLedger
<1>1. LInit => Init
  BY DEF LInit
<1>2. LedgerInv /\ WritesFollow /\ [LNext]_vars => [Next]_acct
  <2> SUFFICES ASSUME LedgerInv, WritesFollow, LNext, acct' # acct PROVE Next
    BY DEF vars
  <2>1. PICK p \in Proc : Commit(p)
    BY DEF LNext, Call, Begin, Refuse, Step, QueryAccount, InsertAccount,
           InsertConflict, Insufficient, UpdateAccount, VersionConflict,
           DeadlockVictim, DbError, Rollback
  <2>2. CASE Kind(p) = "ensure"
    BY <2>1, <2>2, CommitOpens
  <2>3. CASE Kind(p) # "ensure"
    BY <2>1, <2>3, CommitPosts DEF Next
  <2> QED
    BY <2>2, <2>3
<1>3. OperationInv => LedgerInv /\ WritesFollow
  BY DEF OperationInv
<1> QED
  BY <1>1, <1>2, <1>3, WritesAreWhole, PTL DEF LSpec, ImplementsAtomicLedger, Spec

-----------------------------------------------------------------------------

(* The settle entries of a statement, the others counted as nothing. *)
SettleWeight(log) ==
    [i \in 1 .. Len(log) |-> IF log[i].kind = "settle" THEN log[i].delta ELSE 0]

Statement == Seq([kind : Kinds, delta : Int, after : Int])

(* The settle entries add up to a sum over their positions.                *)
LEMMA SettleSumIsSum ==
    ASSUME NEW log \in Statement
    PROVE  /\ SettleSum(log) = SumOf(SettleWeight(log), 1 .. Len(log))
           /\ SettleWeight(log) \in [1 .. Len(log) -> Int]
           /\ SettleSum(log) \in Int
<1> DEFINE S == 1 .. Len(log)
           w == SettleWeight(log)
           P(f) == f = [s \in SUBSET S |-> IF s = {} THEN 0
                           ELSE IF log[Max(s)].kind = "settle"
                                THEN f[s \ {Max(s)}] + log[Max(s)].delta
                                ELSE f[s \ {Max(s)}]]
<1>1. Len(log) \in Nat /\ DOMAIN log = S
  BY DEF Statement
<1>2. \A i \in S : log[i].delta \in Int
  <2> TAKE i \in S
  <2>1. log[i] \in [kind : Kinds, delta : Int, after : Int]
    BY ElementOfSequence DEF Statement
  <2> QED
    BY <2>1
<1>3. /\ w \in [S -> Int]
      /\ \A i \in S : w[i] = IF log[i].kind = "settle" THEN log[i].delta ELSE 0
  BY <1>2 DEF SettleWeight
<1>4. IsFiniteSet(S) /\ \A s \in SUBSET S : s # {} => Max(s) \in s
  BY <1>1, LastPosition
<1>5. SettleSum(log) = (CHOOSE f : P(f))[S]
  BY <1>1 DEF SettleSum, FoldLeft, MapThenFoldSet
<1> HIDE DEF S, w
<1>6. PICK f \in [SUBSET S -> Int] : \A s \in SUBSET S :
          f[s] = IF s = {} THEN 0 ELSE f[s \ {Max(s)}] + w[Max(s)]
  BY <1>3, <1>4, SumFromLeft
<1>7. P(f)
  <2>1. ASSUME NEW s \in SUBSET S, s # {}
        PROVE  f[s] = IF log[Max(s)].kind = "settle" THEN f[s \ {Max(s)}] + log[Max(s)].delta
                                                     ELSE f[s \ {Max(s)}]
    <3>1. Max(s) \in S /\ f[s \ {Max(s)}] \in Int
      BY <1>4, <1>6, <2>1
    <3>2. f[s] = f[s \ {Max(s)}] + w[Max(s)]
      BY <1>6, <2>1
    <3> QED
      BY <1>3, <3>1, <3>2
  <2>2. f[{}] = 0
    BY <1>6
  <2> QED
    BY <1>6, <2>1, <2>2
<1>8. P(CHOOSE g : P(g))
  BY <1>7
<1> DEFINE g == CHOOSE h : P(h)
<1>9. P(g)
  BY <1>8
<1> HIDE DEF g
<1>10. g[{}] = 0
  BY <1>9
<1>11. \A s \in SUBSET S : s # {} =>
          \E x \in s : g[s \ {x}] \in Int => g[s] = w[x] + g[s \ {x}]
  <2> TAKE s \in SUBSET S
  <2> HAVE s # {}
  <2>1. Max(s) \in s /\ Max(s) \in S
    BY <1>4
  <2>2. g[s] = IF log[Max(s)].kind = "settle" THEN g[s \ {Max(s)}] + log[Max(s)].delta
                                              ELSE g[s \ {Max(s)}]
    BY <1>9
  <2>3. g[s \ {Max(s)}] \in Int => g[s] = w[Max(s)] + g[s \ {Max(s)}]
    BY <1>2, <1>3, <2>1, <2>2 DEF S
  <2> QED
    BY <2>1, <2>3
<1> HIDE DEF P
<1>12. g[S] = SumOf(w, S)
  BY <1>3, <1>4, <1>10, <1>11, FoldIsSum
<1>13. SumOf(w, S) \in Int
  BY <1>3, <1>4, SumIsInt
<1> QED
  BY <1>3, <1>5, <1>12, <1>13 DEF g, S, w

(* The entries of an operation that move credits. *)
CreditWeight(es) ==
    [i \in 1 .. Len(es) |-> IF es[i].acct.asset = Credits THEN es[i].delta ELSE 0]

Entries == Seq([acct : Account, delta : Int])

(* So do the entries that postLedger checks before it writes.              *)
LEMMA CreditsSumIsSum ==
    ASSUME NEW es \in Entries
    PROVE  /\ CreditsSum(es) = SumOf(CreditWeight(es), 1 .. Len(es))
           /\ CreditWeight(es) \in [1 .. Len(es) -> Int]
           /\ CreditsSum(es) \in Int
<1> DEFINE S == 1 .. Len(es)
           w == CreditWeight(es)
           P(f) == f = [s \in SUBSET S |-> IF s = {} THEN 0
                           ELSE IF es[Max(s)].acct.asset = Credits
                                THEN f[s \ {Max(s)}] + es[Max(s)].delta
                                ELSE f[s \ {Max(s)}]]
<1>1. Len(es) \in Nat /\ DOMAIN es = S
  BY DEF Entries
<1>2. \A i \in S : es[i].delta \in Int
  <2> TAKE i \in S
  <2>1. es[i] \in [acct : Account, delta : Int]
    BY ElementOfSequence DEF Entries
  <2> QED
    BY <2>1
<1>3. /\ w \in [S -> Int]
      /\ \A i \in S : w[i] = IF es[i].acct.asset = Credits THEN es[i].delta ELSE 0
  BY <1>2 DEF CreditWeight
<1>4. IsFiniteSet(S) /\ \A s \in SUBSET S : s # {} => Max(s) \in s
  BY <1>1, LastPosition
<1>5. CreditsSum(es) = (CHOOSE f : P(f))[S]
  BY <1>1 DEF CreditsSum, FoldLeft, MapThenFoldSet
<1> HIDE DEF S, w
<1>6. PICK f \in [SUBSET S -> Int] : \A s \in SUBSET S :
          f[s] = IF s = {} THEN 0 ELSE f[s \ {Max(s)}] + w[Max(s)]
  BY <1>3, <1>4, SumFromLeft
<1>7. P(f)
  <2>1. ASSUME NEW s \in SUBSET S, s # {}
        PROVE  f[s] = IF es[Max(s)].acct.asset = Credits
                      THEN f[s \ {Max(s)}] + es[Max(s)].delta ELSE f[s \ {Max(s)}]
    <3>1. Max(s) \in S /\ f[s \ {Max(s)}] \in Int
      BY <1>4, <1>6, <2>1
    <3>2. f[s] = f[s \ {Max(s)}] + w[Max(s)]
      BY <1>6, <2>1
    <3> QED
      BY <1>3, <3>1, <3>2
  <2>2. f[{}] = 0
    BY <1>6
  <2> QED
    BY <1>6, <2>1, <2>2
<1>8. P(CHOOSE g : P(g))
  BY <1>7
<1> DEFINE g == CHOOSE h : P(h)
<1>9. P(g)
  BY <1>8
<1> HIDE DEF g
<1>10. g[{}] = 0
  BY <1>9
<1>11. \A s \in SUBSET S : s # {} =>
          \E x \in s : g[s \ {x}] \in Int => g[s] = w[x] + g[s \ {x}]
  <2> TAKE s \in SUBSET S
  <2> HAVE s # {}
  <2>1. Max(s) \in s /\ Max(s) \in S
    BY <1>4
  <2>2. g[s] = IF es[Max(s)].acct.asset = Credits THEN g[s \ {Max(s)}] + es[Max(s)].delta
                                                  ELSE g[s \ {Max(s)}]
    BY <1>9
  <2>3. g[s \ {Max(s)}] \in Int => g[s] = w[Max(s)] + g[s \ {Max(s)}]
    BY <1>2, <1>3, <2>1, <2>2 DEF S
  <2> QED
    BY <2>1, <2>3
<1> HIDE DEF P
<1>12. g[S] = SumOf(w, S)
  BY <1>3, <1>4, <1>10, <1>11, FoldIsSum
<1>13. SumOf(w, S) \in Int
  BY <1>3, <1>4, SumIsInt
<1> QED
  BY <1>3, <1>5, <1>12, <1>13 DEF g, S, w

(* Appending an entry adds its delta, if it settles.                       *)
LEMMA SettleSumAppends ==
    ASSUME NEW log \in Statement, NEW e \in [kind : Kinds, delta : Int, after : Int]
    PROVE  SettleSum(Append(log, e)) =
               SettleSum(log) + (IF e.kind = "settle" THEN e.delta ELSE 0)
<1> DEFINE long == Append(log, e)
           n == Len(log)
<1>1. n \in Nat /\ long \in Statement /\ Len(long) = n + 1 /\ long[n + 1] = e
      /\ \A i \in 1 .. n : long[i] = log[i]
  BY DEF Statement
<1> HIDE DEF long, n
<1>2. SettleSum(long) = SumOf(SettleWeight(long), 1 .. n + 1)
      /\ SettleWeight(long) \in [1 .. n + 1 -> Int]
  BY <1>1, SettleSumIsSum
<1>3. SettleSum(log) = SumOf(SettleWeight(log), 1 .. n) /\ SettleWeight(log) \in [1 .. n -> Int]
  BY SettleSumIsSum DEF n
<1>4. \A i \in 1 .. n : SettleWeight(log)[i] = SettleWeight(long)[i]
  BY <1>1 DEF SettleWeight, n
<1>5. SettleWeight(long)[n + 1] = IF e.kind = "settle" THEN e.delta ELSE 0
  BY <1>1 DEF SettleWeight
<1>6. SumOf(SettleWeight(long), 1 .. n + 1) = SumOf(SettleWeight(log), 1 .. n) + SettleWeight(long)[n + 1]
  BY <1>1, <1>2, <1>3, <1>4, SumAppends
<1> QED
  BY <1>2, <1>3, <1>5, <1>6 DEF long

(* No entries, no sum.                                                     *)
LEMMA NothingSettled == SettleSum(<<>>) = 0 /\ CreditsSum(<<>>) = 0
<1>1. <<>> \in Statement /\ <<>> \in Entries /\ 1 .. Len(<<>>) = {}
  BY DEF Statement, Entries
<1> QED
  BY <1>1, SettleSumIsSum, CreditsSumIsSum, SumOfNothing

(* The first n elements of a sequence.                                     *)
LEMMA Prefix ==
    ASSUME NEW V, NEW s \in Seq(V), NEW n \in 0 .. Len(s)
    PROVE  /\ SubSeq(s, 1, n) \in Seq(V) /\ Len(SubSeq(s, 1, n)) = n
           /\ \A i \in 1 .. n : SubSeq(s, 1, n)[i] = s[i]
OBVIOUS

(* The entries up to the next one.                                         *)
LEMMA CreditsSumExtends ==
    ASSUME NEW es \in Entries, NEW n \in Nat, n < Len(es)
    PROVE  CreditsSum(SubSeq(es, 1, n + 1)) = CreditsSum(SubSeq(es, 1, n)) +
               (IF es[n + 1].acct.asset = Credits THEN es[n + 1].delta ELSE 0)
<1> DEFINE s == SubSeq(es, 1, n)
           t == SubSeq(es, 1, n + 1)
<1>1. /\ s \in Entries /\ Len(s) = n /\ \A i \in 1 .. n : s[i] = es[i]
      /\ t \in Entries /\ Len(t) = n + 1 /\ \A i \in 1 .. n + 1 : t[i] = es[i]
  <2>1. es \in Seq([acct : Account, delta : Int]) /\ n \in 0 .. Len(es) /\ n + 1 \in 0 .. Len(es)
    BY DEF Entries
  <2> QED
    BY <2>1, Prefix DEF Entries
<1> HIDE DEF s, t
<1>2. CreditsSum(t) = SumOf(CreditWeight(t), 1 .. n + 1) /\ CreditWeight(t) \in [1 .. n + 1 -> Int]
  BY <1>1, CreditsSumIsSum
<1>3. CreditsSum(s) = SumOf(CreditWeight(s), 1 .. n) /\ CreditWeight(s) \in [1 .. n -> Int]
  BY <1>1, CreditsSumIsSum
<1>4. \A i \in 1 .. n : CreditWeight(s)[i] = CreditWeight(t)[i]
  BY <1>1 DEF CreditWeight
<1>5. CreditWeight(t)[n + 1] = IF es[n + 1].acct.asset = Credits THEN es[n + 1].delta ELSE 0
  BY <1>1 DEF CreditWeight
<1>6. SumOf(CreditWeight(t), 1 .. n + 1) = SumOf(CreditWeight(s), 1 .. n) + CreditWeight(t)[n + 1]
  BY <1>2, <1>3, <1>4, SumAppends
<1> QED
  BY <1>2, <1>3, <1>5, <1>6 DEF s, t

-----------------------------------------------------------------------------

(* The totals over the credits accounts are sums.                          *)
LEMMA TotalIsSum ==
    ASSUME NEW f
    PROVE  CreditsTotal(f) = SumOf(f, CreditsAccount) /\ IsFiniteSet(CreditsAccount)
<1>1. IsFiniteSet(CreditsAccount)
  BY AccountAssumption, FS_Subset DEF CreditsAccount
<1> QED
  BY <1>1 DEF CreditsTotal, SumOf

(* What is committed and what is drafted has settled sums.                 *)
LEMMA CreditsTyped ==
    ASSUME TypeOK
    PROVE  /\ SettledCredits \in [CreditsAccount -> Int]
           /\ \A p \in Proc : MovedCredits(p) \in [CreditsAccount -> Int]
           /\ \A a \in Account : acct[a].log \in Statement
           /\ \A p \in Proc : \A a \in Account : draft[p][a].log \in Statement
<1>1. \A a \in Account : acct[a].log \in Statement
  BY DEF TypeOK, Row, Statement
<1>2. \A p \in Proc : \A a \in Account : draft[p][a].log \in Statement
  BY DEF TypeOK, Row, Statement
<1>3. \A a \in CreditsAccount : a \in Account
  BY DEF CreditsAccount
<1>4. \A a \in CreditsAccount : SettleSum(acct[a].log) \in Int
  BY <1>1, <1>3, SettleSumIsSum
<1>5. \A p \in Proc : \A a \in CreditsAccount : SettleSum(draft[p][a].log) \in Int
  BY <1>2, <1>3, SettleSumIsSum
<1> QED
  BY <1>1, <1>2, <1>4, <1>5 DEF SettledCredits, MovedCredits

(* A goroutine that moves no row moves no credits.                         *)
LEMMA NothingMoved ==
    ASSUME NEW f, f = [a \in CreditsAccount |-> 0]
    PROVE  CreditsTotal(f) = 0
<1>1. f \in [CreditsAccount -> Int] /\ \A a \in CreditsAccount : f[a] = f[a] + f[a]
  OBVIOUS
<1>2. SumOf(f, CreditsAccount) = SumOf(f, CreditsAccount) + SumOf(f, CreditsAccount)
  BY <1>1, TotalIsSum, SumsAdd
<1>3. SumOf(f, CreditsAccount) \in Int
  BY <1>1, TotalIsSum, SumIsInt
<1>4. CreditsTotal(f) = SumOf(f, CreditsAccount)
  BY TotalIsSum
<1>5. \A x \in Int : x = x + x => x = 0
  OBVIOUS
<1> QED
  BY <1>2, <1>3, <1>4, <1>5, Zenon

(* What the others have written counts as before.                          *)
LEMMA OthersMoveNothing ==
    ASSUME NEW q \in Proc, Untouched(q)
    PROVE  /\ MovedCredits(q)' = MovedCredits(q) /\ PostedCredits(q)' = PostedCredits(q)
           /\ (pc[q] # "idle")' = (pc[q] # "idle")
<1>1. MovedCredits(q)' = MovedCredits(q)
  BY DEF Untouched, MovedCredits
<1>2. PostedCredits(q)' = PostedCredits(q)
  BY DEF Untouched, PostedCredits, Kind
<1> QED
  BY <1>1, <1>2 DEF Untouched

(* The credits that p's drafts have moved are those of the entries p has   *)
(* written. *)
Matches(p) == CreditsTotal(MovedCredits(p)) = PostedCredits(p)

(* So only the goroutine that moves has to be looked at.                   *)
LEMMA OnlyOneMoves ==
    ASSUME DraftsMoveCredits, NEW p \in Proc, \A q \in Proc \ {p} : Untouched(q),
           pc'[p] = "idle" \/ Matches(p)'
    PROVE  DraftsMoveCredits'
<1> SUFFICES ASSUME NEW q \in Proc, pc'[q] # "idle"
             PROVE  (CreditsTotal(MovedCredits(q)) = PostedCredits(q))'
  BY DEF DraftsMoveCredits
<1>1. CASE q = p
  BY <1>1 DEF Matches
<1>2. CASE q # p
  <2>1. Untouched(q)
    BY <1>2
  <2>2. CreditsTotal(MovedCredits(q)) = PostedCredits(q)
    BY <2>1, OthersMoveNothing DEF DraftsMoveCredits, Untouched
  <2>3. CreditsTotal(MovedCredits(q))' = CreditsTotal(MovedCredits(q)')
    OBVIOUS
  <2> QED
    BY <2>1, <2>2, <2>3, OthersMoveNothing
<1> QED
  BY <1>1, <1>2

(* A transaction begins with nothing moved.                                *)
LEMMA BeginMoves ==
    ASSUME LedgerInv, DraftsMoveCredits, NEW p \in Proc, NEW o \in Op, Begin(p, o)
    PROVE  DraftsMoveCredits'
<1>1. /\ pc[p] = "idle" /\ op'[p] = o /\ idx'[p] = 1 /\ o.entries \in Entries
      /\ \A q \in Proc \ {p} : pc'[q] = pc[q] /\ op'[q] = op[q] /\ idx'[q] = idx[q]
      /\ UNCHANGED <<acct, held, draft>>
  BY OpAssumption DEF Begin, LedgerInv, TypeOK, Entries
<1>2. \A q \in Proc \ {p} : Untouched(q)
  BY <1>1 DEF Untouched
<1>3. held'[p] = {}
  BY <1>1 DEF LedgerInv, AtAnEntry
<1>4. CreditsTotal(MovedCredits(p)') = 0
  BY <1>3, NothingMoved DEF MovedCredits
<1>5. SubSeq(o.entries, 1, 1 - 1) = <<>>
  BY <1>1 DEF Entries
<1>6. PostedCredits(p)' = 0
  BY <1>1, <1>5, NothingSettled DEF PostedCredits
<1>7. Matches(p)'
  BY <1>4, <1>6 DEF Matches
<1> QED
  BY <1>2, <1>7, OnlyOneMoves

(* The SELECT moves nothing.                                               *)
LEMMA QueryMoves ==
    ASSUME DraftsMoveCredits, NEW p \in Proc, QueryAccount(p)
    PROVE  DraftsMoveCredits'
<1>1. UNCHANGED <<acct, op, idx, held, draft>> /\ pc[p] # "idle"
      /\ \A q \in Proc \ {p} : pc'[q] = pc[q]
  BY DEF QueryAccount
<1>2. \A q \in Proc \ {p} : Untouched(q)
  BY <1>1 DEF Untouched
<1>3. MovedCredits(p)' = MovedCredits(p) /\ PostedCredits(p)' = PostedCredits(p)
  BY <1>1 DEF MovedCredits, PostedCredits, Kind
<1>4. Matches(p)
  BY <1>1 DEF DraftsMoveCredits, Matches
<1>5. Matches(p)'
  BY <1>3, <1>4 DEF Matches
<1> QED
  BY <1>2, <1>5, OnlyOneMoves

(* A row just inserted has no entries, like the one that was missing.      *)
LEMMA InsertMoves ==
    ASSUME LedgerInv, WritesFollow, DraftsMoveCredits, NEW p \in Proc, InsertAccount(p)
    PROVE  DraftsMoveCredits'
<1> DEFINE a == Acc(p)
<1>1. a \in Account /\ pc[p] = "insert" /\ ~ acct[a].exists /\ acct[a] = NoRow
  BY EntryTyped DEF InsertAccount, LedgerInv, StatementsAddUp, RowOK
<1>2. /\ held'[p] = held[p] \cup {a} /\ draft'[p] = [draft[p] EXCEPT ![a] = NewRow]
      /\ \A q \in Proc \ {p} : pc'[q] = pc[q] /\ held'[q] = held[q] /\ draft'[q] = draft[q]
      /\ UNCHANGED <<acct, op, idx>>
  BY DEF InsertAccount, LedgerInv, TypeOK
<1>3. draft[p] \in [Account -> Row] /\ held[p] \subseteq Account
  BY DEF LedgerInv, TypeOK
<1>4. a \notin held[p]
  BY <1>1 DEF WritesFollow, Written
<1> HIDE DEF a
<1>5. \A q \in Proc \ {p} : Untouched(q)
  BY <1>2 DEF Untouched
<1>6. SettleSum(draft'[p][a].log) - SettleSum(acct[a].log) = 0
  BY <1>1, <1>2, <1>3, NothingSettled DEF NewRow, NoRow
<1>7. ASSUME NEW b \in CreditsAccount
      PROVE  MovedCredits(p)'[b] = MovedCredits(p)[b]
  <2>1. CASE b = a
    BY <1>2, <1>4, <1>6, <2>1 DEF MovedCredits
  <2>2. CASE b # a
    <3>1. draft'[p][b] = draft[p][b] /\ (b \in held'[p] <=> b \in held[p])
      BY <1>2, <1>3, <2>2 DEF CreditsAccount
    <3> QED
      BY <1>2, <3>1 DEF MovedCredits
  <2> QED
    BY <2>1, <2>2
<1>8. MovedCredits(p)' = MovedCredits(p)
  BY <1>7 DEF MovedCredits
<1>9. PostedCredits(p)' = PostedCredits(p)
  BY <1>2 DEF PostedCredits, Kind
<1>10. Matches(p)'
  BY <1>1, <1>8, <1>9 DEF DraftsMoveCredits, Matches
<1> QED
  BY <1>5, <1>10, OnlyOneMoves

(* Posting an entry of a settlement moves the credits of that entry.       *)
LEMMA UpdateMoves ==
    ASSUME LedgerInv, WritesFollow, DraftsMoveCredits, NEW p \in Proc, UpdateAccount(p)
    PROVE  DraftsMoveCredits'
<1> DEFINE a   == Acc(p)
           o   == op[p]
           n   == idx[p] - 1
           d   == Delta(p)
           k   == Kind(p)
           old == View(p, a)
           new == PostEntry(old, Kind(p), Delta(p))
<1>1. /\ pc[p] = "update" /\ a \in Account /\ k \in Kinds /\ d \in Int /\ o \in Op
      /\ idx[p] \in 1 .. Len(o.entries) /\ Len(o.entries) \in Nat
      /\ old \in Row /\ acct[a] \in Row /\ new \in Row
  BY UpdatePosts
<1>2. /\ draft' = [draft EXCEPT ![p][a] = new] /\ held' = [held EXCEPT ![p] = @ \cup {a}]
      /\ pc' = [pc EXCEPT ![p] = IF idx[p] = Len(o.entries) THEN "commit" ELSE "query"]
      /\ idx' = [idx EXCEPT ![p] = @ + 1] /\ UNCHANGED <<acct, op>>
  BY UpdatePosts
<1>3. /\ n \in Nat /\ n < Len(o.entries) /\ n + 1 = idx[p] /\ o.entries[n + 1].acct = a
      /\ o.entries[n + 1].delta = d /\ o.kind = k /\ o.entries \in Entries
  <2>1. n \in Nat /\ n < Len(o.entries) /\ n + 1 = idx[p]
    BY <1>1
  <2>2. o.entries \in Entries
    BY <1>1, OpAssumption DEF Entries
  <2>3. o.entries[idx[p]].acct = a /\ o.entries[idx[p]].delta = d /\ o.kind = k
    BY DEF Acc, Delta, Kind, Entry
  <2> HIDE DEF a, o, n, d, k
  <2> QED
    BY <2>1, <2>2, <2>3
<1>4. /\ held'[p] = held[p] \cup {a} /\ draft'[p] = [draft[p] EXCEPT ![a] = new]
      /\ idx'[p] - 1 = n + 1 /\ op'[p] = o /\ acct' = acct
      /\ \A q \in Proc \ {p} : Untouched(q)
  BY <1>1, <1>2, <1>3 DEF LedgerInv, TypeOK, Untouched
<1>5. draft[p] \in [Account -> Row]
  BY DEF LedgerInv, TypeOK
<1>6. SettleSum(new.log) = SettleSum(old.log) + (IF k = "settle" THEN d ELSE 0)
  <2> DEFINE e == [kind |-> k, delta |-> d, after |-> old.balance + d]
  <2>1. old.log \in Statement /\ e \in [kind : Kinds, delta : Int, after : Int]
    BY <1>1 DEF Row, Statement
  <2>2. new.log = Append(old.log, e)
    BY DEF PostEntry
  <2>3. e.kind = k /\ e.delta = d
    OBVIOUS
  <2> HIDE DEF e, new, old, k, d
  <2> QED
    BY <2>1, <2>2, <2>3, SettleSumAppends
<1>7. /\ old.log \in Statement /\ acct[a].log \in Statement
      /\ SettleSum(old.log) \in Int /\ SettleSum(acct[a].log) \in Int
  BY <1>1, SettleSumIsSum DEF Row, Statement
<1>8. old = IF a \in held[p] THEN draft[p][a] ELSE acct[a]
  BY DEF View
<1>9. Matches(p)
  BY <1>1 DEF DraftsMoveCredits, Matches
<1> HIDE DEF a, o, n, d, k, old, new
<1> DEFINE w == MovedCredits(p)
           v == MovedCredits(p)'
<1>10. \A b \in CreditsAccount : b # a => v[b] = w[b]
  <2> TAKE b \in CreditsAccount
  <2> HAVE b # a
  <2>1. draft'[p][b] = draft[p][b] /\ (b \in held'[p] <=> b \in held[p])
    BY <1>4, <1>5 DEF CreditsAccount
  <2> QED
    BY <1>4, <2>1 DEF MovedCredits
<1>11. ASSUME a \in CreditsAccount
       PROVE  v[a] - w[a] = IF k = "settle" THEN d ELSE 0
  <2>1. v[a] = SettleSum(new.log) - SettleSum(acct[a].log)
    <3>1. draft'[p][a] = new /\ a \in held'[p] /\ acct'[a] = acct[a]
      BY <1>1, <1>4, <1>5
    <3> QED
      BY <1>11, <3>1 DEF MovedCredits
  <2>2. w[a] = SettleSum(old.log) - SettleSum(acct[a].log)
    BY <1>7, <1>8, <1>11 DEF MovedCredits
  <2>3. (IF k = "settle" THEN d ELSE 0) \in Int
    BY <1>1
  <2> HIDE DEF w, v
  <2> QED
    BY <1>6, <1>7, <2>1, <2>2, <2>3
<1>12. w \in [CreditsAccount -> Int] /\ v \in [CreditsAccount -> Int]
  <2>1. w \in [CreditsAccount -> Int]
    BY CreditsTyped DEF LedgerInv
  <2>2. \A b \in CreditsAccount : v[b] \in Int
    <3> TAKE b \in CreditsAccount
    <3>1. CASE b = a
      <4>1. v[a] = SettleSum(new.log) - SettleSum(acct[a].log)
        <5>1. draft'[p][a] = new /\ a \in held'[p] /\ acct'[a] = acct[a]
          BY <1>1, <1>4, <1>5
        <5> QED
          BY <3>1, <5>1 DEF MovedCredits
      <4>2. SettleSum(new.log) \in Int
        BY <1>1, <1>6, <1>7
      <4> QED
        BY <1>7, <3>1, <4>1, <4>2
    <3>2. CASE b # a
      BY <1>10, <2>1, <3>2
    <3> QED
      BY <3>1, <3>2
  <2>3. v = [b \in CreditsAccount |-> v[b]]
    BY DEF MovedCredits
  <2> HIDE DEF w, v
  <2> QED
    BY <2>1, <2>2, <2>3
<1> HIDE DEF w, v
<1>13. CreditsTotal(v) = CreditsTotal(w) +
           (IF a \in CreditsAccount /\ k = "settle" THEN d ELSE 0)
  <2>1. CreditsTotal(v) = SumOf(v, CreditsAccount) /\ CreditsTotal(w) = SumOf(w, CreditsAccount)
        /\ IsFiniteSet(CreditsAccount)
    BY TotalIsSum
  <2>2. SumOf(w, CreditsAccount) \in Int
    BY <1>12, <2>1, SumIsInt
  <2>3. CASE a \in CreditsAccount
    <3>1. SumOf(v, CreditsAccount) = SumOf(w, CreditsAccount) + (v[a] - w[a])
      BY <1>10, <1>12, <2>1, <2>3, SumChanges
    <3> QED
      BY <1>11, <2>1, <2>3, <3>1
  <2>4. CASE a \notin CreditsAccount
    <3>1. v = w
      BY <1>10, <1>12, <2>4
    <3> QED
      BY <2>1, <2>2, <2>4, <3>1
  <2> QED
    BY <2>3, <2>4
<1>14. PostedCredits(p)' = PostedCredits(p) +
           (IF a \in CreditsAccount /\ k = "settle" THEN d ELSE 0)
  <2>1. PostedCredits(p) = IF k = "settle" THEN CreditsSum(SubSeq(o.entries, 1, n)) ELSE 0
    BY DEF PostedCredits, Kind, k, o, n
  <2>2. PostedCredits(p)' = IF k = "settle" THEN CreditsSum(SubSeq(o.entries, 1, n + 1)) ELSE 0
    BY <1>3, <1>4 DEF PostedCredits, Kind
  <2>3. a \in CreditsAccount <=> o.entries[n + 1].acct.asset = Credits
    BY <1>1, <1>3 DEF CreditsAccount
  <2>4. CreditsSum(SubSeq(o.entries, 1, n + 1)) = CreditsSum(SubSeq(o.entries, 1, n)) +
            (IF a \in CreditsAccount THEN d ELSE 0)
    BY <1>3, <2>3, CreditsSumExtends
  <2> QED
    BY <2>1, <2>2, <2>4
<1>15. CreditsTotal(w) = PostedCredits(p)
  BY <1>9 DEF Matches, w
<1>16. (CreditsTotal(MovedCredits(p)))' = CreditsTotal(v)
  BY DEF v
<1>17. Matches(p)'
  BY <1>13, <1>14, <1>15, <1>16 DEF Matches
<1> QED
  BY <1>4, <1>17, OnlyOneMoves

(* ROLLBACK and COMMIT leave the others what they have moved.              *)
LEMMA ReturnMoves ==
    ASSUME LedgerInv, DraftsMoveCredits, NEW p \in Proc, NEW what, Return(p, what),
           acct' = acct \/ acct' = [a \in Account |-> View(p, a)]
    PROVE  DraftsMoveCredits'
<1>1. pc'[p] = "idle"
  BY DEF Return, LedgerInv, TypeOK
<1>2. ASSUME NEW q \in Proc \ {p} PROVE Untouched(q)
  <2>1. \A a \in held[q] : a \in Account /\ a \notin held[p]
    BY DEF LedgerInv, TypeOK, RowLocksExclude
  <2>2. \A a \in held[q] : acct'[a] = acct[a]
    BY <2>1 DEF View
  <2> QED
    BY <2>2 DEF Return, LedgerInv, TypeOK, Untouched
<1> QED
  BY <1>1, <1>2, OnlyOneMoves

(* A transaction that commits has moved credits that sum to zero, because  *)
(* postLedger has checked that its entries do.                             *)
LEMMA CommitMoves ==
    ASSUME LedgerInv, WritesFollow, DraftsMoveCredits, CreditsAreConserved,
           NEW p \in Proc, Commit(p)
    PROVE  CreditsAreConserved'
<1>1. /\ pc[p] = "commit" /\ acct' = [a \in Account |-> View(p, a)] /\ Written(p)
      /\ op[p] \in Op /\ Admissible(op[p])
  BY DEF Commit, WritesFollow, Written
<1>2. op[p].entries \in Entries
  BY <1>1, OpAssumption DEF Entries
<1>3. PostedCredits(p) = 0
  <2>1. CASE Kind(p) = "settle"
    <3>1. idx[p] = Len(op[p].entries) + 1 /\ CreditsSum(op[p].entries) = 0
      BY <1>1, <2>1 DEF Written, Kind, Admissible
    <3>2. SubSeq(op[p].entries, 1, idx[p] - 1) = op[p].entries
      BY <1>2, <3>1 DEF Entries
    <3> QED
      BY <2>1, <3>1, <3>2 DEF PostedCredits
  <2>2. CASE Kind(p) # "settle"
    BY <2>2 DEF PostedCredits
  <2> QED
    BY <2>1, <2>2
<1> DEFINE w == SettledCredits
           v == MovedCredits(p)
           u == SettledCredits'
<1>4. CreditsTotal(w) = 0 /\ CreditsTotal(v) = 0
  BY <1>1, <1>3 DEF CreditsAreConserved, DraftsMoveCredits
<1>5. /\ w \in [CreditsAccount -> Int] /\ v \in [CreditsAccount -> Int]
      /\ \A a \in Account : acct[a].log \in Statement
      /\ \A a \in Account : draft[p][a].log \in Statement
  BY CreditsTyped DEF LedgerInv
<1>6. ASSUME NEW a \in CreditsAccount PROVE u[a] = w[a] + v[a] /\ u[a] \in Int
  <2>1. SettleSum(acct[a].log) \in Int /\ SettleSum(draft[p][a].log) \in Int /\ a \in Account
    BY <1>5, SettleSumIsSum DEF CreditsAccount
  <2>2. acct'[a] = IF a \in held[p] THEN draft[p][a] ELSE acct[a]
    BY <1>1, <2>1 DEF View
  <2>3. u[a] = SettleSum(acct'[a].log) /\ w[a] = SettleSum(acct[a].log)
        /\ v[a] = IF a \in held[p] THEN SettleSum(draft[p][a].log) - SettleSum(acct[a].log) ELSE 0
    BY DEF SettledCredits, MovedCredits
  <2> HIDE DEF u, w, v
  <2> QED
    BY <2>1, <2>2, <2>3
<1>7. u \in [CreditsAccount -> Int]
  <2>1. u = [a \in CreditsAccount |-> u[a]]
    BY DEF SettledCredits
  <2> HIDE DEF u, w, v
  <2> QED
    BY <1>6, <2>1
<1>8. (CreditsTotal(SettledCredits))' = CreditsTotal(u)
  OBVIOUS
<1> HIDE DEF u, w, v
<1>9. SumOf(u, CreditsAccount) = SumOf(w, CreditsAccount) + SumOf(v, CreditsAccount)
  BY <1>5, <1>6, <1>7, TotalIsSum, SumsAdd
<1>10. CreditsTotal(u) = CreditsTotal(w) + CreditsTotal(v)
  BY <1>9, TotalIsSum
<1>11. CreditsTotal(u) = 0
  BY <1>4, <1>10
<1> QED
  BY <1>8, <1>11 DEF CreditsAreConserved

(* No step of any goroutine creates or destroys credits.                   *)
LEMMA CreditsStep ==
    LedgerInv /\ WritesFollow /\ CreditsAreConserved /\ DraftsMoveCredits /\ [LNext]_vars
        => CreditsAreConserved' /\ DraftsMoveCredits'
<1> SUFFICES ASSUME LedgerInv, WritesFollow, CreditsAreConserved, DraftsMoveCredits, [LNext]_vars
             PROVE  CreditsAreConserved' /\ DraftsMoveCredits'
  OBVIOUS
<1>1. ASSUME acct' = acct PROVE CreditsAreConserved'
  <2>1. SettledCredits' = SettledCredits
    BY <1>1 DEF SettledCredits
  <2>2. CreditsTotal(SettledCredits)' = CreditsTotal(SettledCredits')
    OBVIOUS
  <2> QED
    BY <2>1, <2>2 DEF CreditsAreConserved
<1>2. ASSUME NEW p \in Proc, Call(p) PROVE CreditsAreConserved' /\ DraftsMoveCredits'
  <2>1. ASSUME NEW o \in Op, Refuse(p, o) PROVE acct' = acct /\ DraftsMoveCredits'
    <3>1. \A q \in Proc : Untouched(q)
      BY <2>1 DEF Refuse, Untouched
    <3>2. acct' = acct
      BY <2>1 DEF Refuse
    <3>3. pc'[p] = "idle"
      BY <2>1 DEF Refuse
    <3> QED
      BY <3>1, <3>2, <3>3, OnlyOneMoves
  <2>2. ASSUME NEW o \in Op, Begin(p, o) PROVE acct' = acct /\ DraftsMoveCredits'
    BY <2>2, BeginMoves DEF Begin
  <2> QED
    BY <1>1, <1>2, <2>1, <2>2 DEF Call
<1>3. ASSUME NEW p \in Proc, Step(p) \/ DbError(p) PROVE CreditsAreConserved' /\ DraftsMoveCredits'
  <2>1. CASE QueryAccount(p)
    BY <1>1, <2>1, QueryMoves DEF QueryAccount
  <2>2. CASE InsertAccount(p)
    BY <1>1, <2>2, InsertMoves DEF InsertAccount
  <2>3. CASE UpdateAccount(p)
    BY <1>1, <2>3, UpdateMoves DEF UpdateAccount
  <2>4. CASE Commit(p)
    BY <2>4, CommitMoves, ReturnMoves DEF Commit
  <2>5. CASE \/ InsertConflict(p) \/ Insufficient(p) \/ VersionConflict(p)
             \/ DeadlockVictim(p) \/ DbError(p)
    <3>1. PICK why : Rollback(p, why)
      BY <2>5 DEF InsertConflict, Insufficient, VersionConflict, DeadlockVictim, DbError
    <3> QED
      BY <1>1, <3>1, ReturnMoves DEF Rollback
  <2> QED
    BY <1>3, <2>1, <2>2, <2>3, <2>4, <2>5 DEF Step
<1>4. CASE UNCHANGED vars
  <2>1. acct' = acct /\ \A q \in Proc : Untouched(q)
    BY <1>4 DEF vars, Untouched
  <2>2. DraftsMoveCredits'
    BY <1>4 DEF vars, DraftsMoveCredits, MovedCredits, PostedCredits, Kind
  <2> QED
    BY <1>1, <2>1, <2>2
<1> QED
  BY <1>2, <1>3, <1>4 DEF LNext

(* Nothing is settled before the first operation.                          *)
LEMMA CreditsInit == LInit => CreditsAreConserved /\ DraftsMoveCredits
<1> SUFFICES ASSUME LInit PROVE CreditsAreConserved /\ DraftsMoveCredits
  OBVIOUS
<1>1. /\ \A a \in Account : acct[a] = NoRow
      /\ \A p \in Proc : pc[p] = "idle"
  BY DEF LInit, Init
<1>2. SettledCredits = [a \in CreditsAccount |-> 0]
  BY <1>1, NothingSettled DEF SettledCredits, CreditsAccount, NoRow
<1> QED
  BY <1>1, <1>2, NothingMoved DEF CreditsAreConserved, DraftsMoveCredits

(* Settlements move credits between accounts and never create or destroy   *)
(* them, whatever goroutines interleave, fail or wait for each other.      *)
THEOREM CreditsConserved == LSpec => []CreditsAreConserved
<1>1. LInit => CreditsInv
  BY LedgerInit, CreditsInit DEF LInit, CreditsInv, OperationInv, WritesFollow
<1>2. CreditsInv /\ [LNext]_vars => CreditsInv'
  BY LedgerStep, WritesStep, CreditsStep DEF CreditsInv, OperationInv
<1>3. CreditsInv => CreditsAreConserved
  BY DEF CreditsInv
<1> QED
  BY <1>1, <1>2, <1>3, PTL DEF LSpec

-----------------------------------------------------------------------------
(* Recharges and payment orders, for any credits, orders, refs and callers. *)

(* What the callers hold, and what the tables and the history say.         *)
CallerPart == CallsMatch /\ PosterHoldsRef /\ CreditedWasPosted
TablePart  == CreditedOnce /\ OrdersGiven /\ RecordsAreCalls

(* No call is the absence of one, and an order's call is a call.           *)
LEMMA CallsAreCalls ==
    /\ \A k \in RechargeCall : k # NoCall /\ k.ref \in Ref
    /\ \A o \in Order : OrderCall(o) \in RechargeCall /\ OrderCall(o).ref = o
  BY RechargeAssumption DEF RechargeCall, NoCall, OrderCall, Nobody

(* A ref that no other call has given has the record of this one.          *)
LEMMA SoleCallsAreRecorded ==
    ASSUME RechargeTypes, TablePart
    PROVE  OrderMatchesLedger /\ SuccessIsCredited
<1>1. OrderMatchesLedger
  <2> SUFFICES ASSUME NEW o \in Order
               PROVE  /\ order[o] = "credited" =>
                           Exists(o) /\ (Sole(OrderCall(o)) => rec[o] = OrderCall(o))
                      /\ rec[o] = OrderCall(o) => order[o] \in {"paid", "credited"}
    BY DEF OrderMatchesLedger
  <2>1. o \in Ref /\ OrderCall(o) # NoCall /\ OrderCall(o).ref = o
    BY RechargeAssumption, CallsAreCalls
  <2>2. Exists(o) => rec[o] \in given /\ rec[o].ref = o
    BY <2>1 DEF TablePart, RecordsAreCalls
  <2>3. order[o] = "credited" => Exists(o)
    BY DEF TablePart, RecordsAreCalls
  <2>4. ASSUME Exists(o), Sole(OrderCall(o))
        PROVE  rec[o] = OrderCall(o)
    BY <2>1, <2>2, <2>4 DEF Sole
  <2>5. ASSUME rec[o] = OrderCall(o)
        PROVE  order[o] \in {"paid", "credited"}
    BY <2>1, <2>2, <2>5 DEF Exists, TablePart, OrdersGiven
  <2> QED
    BY <2>3, <2>4, <2>5
<1>2. SuccessIsCredited
  <2> SUFFICES ASSUME NEW t \in told
               PROVE  /\ rec[t.ref] \in given /\ rec[t.ref].ref = t.ref
                      /\ Sole(t) => rec[t.ref] = t
    BY DEF SuccessIsCredited
  <2>1. t.ref \in Ref /\ Exists(t.ref)
    BY CallsAreCalls DEF TablePart, RecordsAreCalls, RechargeTypes
  <2>2. rec[t.ref] \in given /\ rec[t.ref].ref = t.ref
    BY <2>1 DEF TablePart, RecordsAreCalls
  <2> QED
    BY <2>2 DEF Sole
<1> QED
  BY <1>1, <1>2

(* RechargeInv holds in an empty database.                                 *)
LEMMA RechargeStarts == RechargeInit => RechargeInv
<1> SUFFICES ASSUME RechargeInit PROVE RechargeInv
  OBVIOUS
<1>1. RechargeTypes
  BY DEF RechargeInit, RechargeTypes
<1>2. TablePart
  BY <1>1, RechargeAssumption
     DEF RechargeInit, TablePart, CreditedOnce, OrdersGiven, RecordsAreCalls, Exists
<1>3. CallerPart
  BY DEF RechargeInit, CallerPart, CallsMatch, PosterHoldsRef, CreditedWasPosted
<1> QED
  BY <1>1, <1>2, <1>3, SoleCallsAreRecorded DEF RechargeInv, TablePart, CallerPart

(* Every statement of confirmOrder and CreateRecharge keeps the parts that *)
(* the others follow from.                                                 *)
LEMMA RechargePartsKept ==
    ASSUME RechargeInv, [RechargeNext]_rechargeVars
    PROVE  RechargeTypes' /\ TablePart' /\ CallerPart'
<1> DEFINE Kept == RechargeTypes' /\ TablePart' /\ CallerPart'
<1> USE NobodyAssumption
<1>1. RechargeTypes /\ TablePart /\ CallerPart
  BY DEF RechargeInv, TablePart, CallerPart
<1>2. ASSUME NEW o \in Order, CreateOrder(o)
      PROVE  Kept
  <2>1. RechargeTypes'
    BY <1>1, <1>2 DEF CreateOrder, RechargeTypes
  <2>2. TablePart'
    BY <1>1, <1>2 DEF CreateOrder, TablePart, CreditedOnce, OrdersGiven, RecordsAreCalls,
                      Exists, OrderCall, RechargeTypes
  <2>3. CallerPart'
    BY <1>1, <1>2 DEF CreateOrder, CallerPart, CallsMatch, PosterHoldsRef,
                      CreditedWasPosted, Exists, OrderCall
  <2> QED
    BY <2>1, <2>2, <2>3
<1>3. ASSUME NEW c \in Caller, NEW o \in Order, Notify(c, o)
      PROVE  Kept
  <2>1. OrderCall(o) \in RechargeCall /\ OrderCall(o).ref = o /\ OrderCall(o).by = "order"
    BY CallsAreCalls DEF OrderCall
  <2>2. RechargeTypes'
    BY <1>1, <1>3, <2>1 DEF Notify, Goto, RechargeTypes
  <2>3. TablePart'
    BY <1>1, <1>3 DEF Notify, TablePart, CreditedOnce, OrdersGiven, RecordsAreCalls,
                      Exists, OrderCall
  <2>4. CallsMatch'
    BY <1>1, <1>3, <2>1 DEF Notify, Goto, CallerPart, CallsMatch, RechargeTypes, OrderCall
  <2>5. PosterHoldsRef' /\ CreditedWasPosted'
    BY <1>1, <1>3 DEF Notify, Goto, CallerPart, PosterHoldsRef, CreditedWasPosted, Exists,
                      RechargeTypes
  <2> QED
    BY <2>2, <2>3, <2>4, <2>5 DEF CallerPart
<1>4. ASSUME NEW c \in Caller, NEW o \in Order, NotifyAgain(c, o)
      PROVE  Kept
  BY <1>1, <1>4 DEF NotifyAgain, RechargeTypes, TablePart, CallerPart, CreditedOnce,
                    OrdersGiven, RecordsAreCalls, CallsMatch, PosterHoldsRef,
                    CreditedWasPosted, Exists, OrderCall
<1>5. ASSUME NEW c \in Caller, NEW credit \in Credit, NEW ref \in Ref,
             RechargeCredits(c, credit, ref)
      PROVE  Kept
  <2> DEFINE asked == [ref |-> ref, credit |-> credit, by |-> "endpoint"]
  <2>1. asked \in RechargeCall /\ asked.by = "endpoint"
    BY DEF RechargeCall
  <2>2. \A o \in Order : asked # OrderCall(o)
    BY DEF OrderCall
  <2>3. /\ at' = [at EXCEPT ![c] = "lookup"]
        /\ call' = [call EXCEPT ![c] = asked]
        /\ given' = given \cup {asked}
        /\ UNCHANGED <<order, rec, pend, posted, acked, told>>
    BY <1>5 DEF RechargeCredits, Goto
  <2> HIDE DEF asked
  <2>4. RechargeTypes'
    BY <1>1, <2>1, <2>3 DEF RechargeTypes
  <2>5. TablePart'
    BY <1>1, <2>2, <2>3 DEF TablePart, CreditedOnce, OrdersGiven, RecordsAreCalls,
                            Exists, OrderCall
  <2>6. CallsMatch'
    BY <1>1, <2>1, <2>3 DEF CallerPart, CallsMatch, RechargeTypes, OrderCall
  <2>7. PosterHoldsRef' /\ CreditedWasPosted'
    BY <1>1, <2>3 DEF CallerPart, PosterHoldsRef, CreditedWasPosted, Exists, RechargeTypes
  <2> QED
    BY <2>4, <2>5, <2>6, <2>7 DEF CallerPart
<1>6. ASSUME NEW c \in Caller, MarkPaid(c)
      PROVE  Kept
  <2>1. /\ call[c] \in RechargeCall /\ call[c].ref \in Order
        /\ call[c] = OrderCall(call[c].ref)
    BY <1>1, <1>6 DEF MarkPaid, CallerPart, CallsMatch
  <2>2. RechargeTypes'
    BY <1>1, <1>6, <2>1 DEF MarkPaid, Goto, RechargeTypes
  <2>3. ASSUME NEW o \in Order, OrderCall(o)' \in given'
        PROVE  order'[o] \in {"paid", "credited"}
    <3>1. OrderCall(o)' = OrderCall(o)
      BY DEF OrderCall
    <3>2. CASE o = call[c].ref
      BY <1>1, <1>6, <2>1, <3>2 DEF MarkPaid, RechargeTypes
    <3>3. CASE o # call[c].ref
      <4>1. OrderCall(o) \in given
        BY <1>6, <2>1, <2>3, <3>1, <3>3, CallsAreCalls DEF MarkPaid
      <4> QED
        BY <1>1, <1>6, <2>1, <3>3, <4>1 DEF MarkPaid, RechargeTypes, TablePart, OrdersGiven
    <3> QED
      BY <3>2, <3>3
  <2>4. TablePart'
    <3>1. ASSUME NEW o \in Order, order'[o] = "credited"
          PROVE  order[o] = "credited"
      BY <1>1, <1>6, <2>1, <3>1 DEF MarkPaid, RechargeTypes
    <3>2. CreditedOnce' /\ OrdersGiven'
      BY <1>1, <1>6, <2>3 DEF MarkPaid, TablePart, CreditedOnce, OrdersGiven, Exists
    <3>3. RecordsAreCalls'
      BY <1>1, <1>6, <3>1 DEF MarkPaid, TablePart, RecordsAreCalls, Exists, OrderCall
    <3> QED
      BY <3>2, <3>3 DEF TablePart
  <2>5. CallerPart'
    BY <1>1, <1>6, <2>1 DEF MarkPaid, Goto, CallerPart, CallsMatch, PosterHoldsRef,
                            CreditedWasPosted, Exists, OrderCall, RechargeTypes
  <2> QED
    BY <2>2, <2>4, <2>5
<1>7. ASSUME NEW c \in Caller, MarkCredited(c)
      PROVE  Kept
  <2>1. /\ call[c].ref \in Order /\ call[c] = OrderCall(call[c].ref)
        /\ call[c] \in given /\ Exists(call[c].ref)
    BY <1>1, <1>7 DEF MarkCredited, CallerPart, CallsMatch, CreditedWasPosted
  <2>2. RechargeTypes'
    BY <1>1, <1>7, <2>1 DEF MarkCredited, HandlerReturns, Goto, RechargeTypes
  <2>3. ASSUME NEW o \in Order
        PROVE  \/ o = call[c].ref /\ order'[o] = "credited"
               \/ order'[o] = order[o]
    BY <1>1, <1>7, <2>1 DEF MarkCredited, RechargeTypes
  <2>4. TablePart'
    BY <1>1, <1>7, <2>1, <2>3 DEF MarkCredited, TablePart, CreditedOnce, OrdersGiven,
                                  RecordsAreCalls, Exists, OrderCall
  <2>5. CallerPart'
    BY <1>1, <1>7 DEF MarkCredited, HandlerReturns, Goto, CallerPart, CallsMatch,
                      PosterHoldsRef, CreditedWasPosted, Exists, OrderCall, RechargeTypes
  <2> QED
    BY <2>2, <2>4, <2>5
<1>8. ASSUME NEW c \in Caller, MarkFails(c)
      PROVE  Kept
  <2>1. RechargeTypes'
    BY <1>1, <1>8 DEF MarkFails, HandlerReturns, Goto, RechargeTypes
  <2>2. TablePart'
    BY <1>1, <1>8 DEF MarkFails, TablePart, CreditedOnce, OrdersGiven, RecordsAreCalls,
                      Exists, OrderCall
  <2>3. CallerPart'
    BY <1>1, <1>8 DEF MarkFails, HandlerReturns, Goto, CallerPart, CallsMatch,
                      PosterHoldsRef, CreditedWasPosted, Exists, OrderCall, RechargeTypes
  <2> QED
    BY <2>1, <2>2, <2>3
<1>9. ASSUME NEW c \in Caller, Lookup(c)
      PROVE  Kept
  <2>1. call[c] \in RechargeCall /\ call[c] \in given /\ call[c].ref \in Ref
    BY <1>1, <1>9, CallsAreCalls DEF Lookup, CallerPart, CallsMatch
  <2>2. CASE ~ Exists(call[c].ref)
    <3>1. at' = [at EXCEPT ![c] = "insert"] /\ UNCHANGED <<order, rec, pend, posted, call, acked, given, told>>
      BY <1>9, <2>2 DEF Lookup, Goto
    <3>2. RechargeTypes'
      BY <1>1, <3>1 DEF RechargeTypes
    <3>3. TablePart'
      BY <1>1, <3>1 DEF TablePart, CreditedOnce, OrdersGiven, RecordsAreCalls, Exists, OrderCall
    <3>4. CallerPart'
      BY <1>1, <1>9, <3>1 DEF Lookup, CallerPart, CallsMatch, PosterHoldsRef, CreditedWasPosted,
                         Exists, OrderCall, RechargeTypes
    <3> QED
      BY <3>2, <3>3, <3>4
  <2>3. CASE Exists(call[c].ref) /\ call[c].by = "order"
    <3>1. at' = [at EXCEPT ![c] = "credited"] /\ UNCHANGED <<order, rec, pend, posted, call, acked, given, told>>
      BY <1>9, <2>3 DEF Lookup, Succeed, Goto
    <3>2. RechargeTypes'
      BY <1>1, <3>1 DEF RechargeTypes
    <3>3. TablePart'
      BY <1>1, <3>1 DEF TablePart, CreditedOnce, OrdersGiven, RecordsAreCalls, Exists, OrderCall
    <3>4. CallerPart'
      BY <1>1, <1>9, <2>3, <3>1 DEF Lookup, CallerPart, CallsMatch, PosterHoldsRef, CreditedWasPosted,
                         Exists, OrderCall, RechargeTypes
    <3> QED
      BY <3>2, <3>3, <3>4
  <2>4. CASE Exists(call[c].ref) /\ call[c].by # "order"
    <3>1. /\ at' = [at EXCEPT ![c] = "idle"]
          /\ call' = [call EXCEPT ![c] = NoCall]
          /\ told' = told \cup {call[c]}
          /\ UNCHANGED <<order, rec, pend, posted, acked, given>>
      BY <1>9, <2>4 DEF Lookup, Succeed, HandlerReturns, Goto
    <3>2. RechargeTypes'
      BY <1>1, <2>1, <3>1 DEF RechargeTypes
    <3>3. TablePart'
      BY <1>1, <2>1, <2>4, <3>1 DEF TablePart, CreditedOnce, OrdersGiven, RecordsAreCalls,
                                    Exists, OrderCall
    <3>4. CallerPart'
      BY <1>1, <3>1 DEF CallerPart, CallsMatch, PosterHoldsRef, CreditedWasPosted, Exists,
                        OrderCall, RechargeTypes
    <3> QED
      BY <3>2, <3>3, <3>4
  <2> QED
    BY <2>2, <2>3, <2>4
<1>10. ASSUME NEW c \in Caller, InsertRecord(c)
       PROVE  Kept
  <2>1. call[c] \in RechargeCall /\ call[c].ref \in Ref
    BY <1>1, <1>10, CallsAreCalls DEF InsertRecord, CallerPart, CallsMatch
  <2>2. RechargeTypes'
    BY <1>1, <1>10, <2>1 DEF InsertRecord, Goto, RechargeTypes
  <2>3. TablePart'
    BY <1>1, <1>10 DEF InsertRecord, TablePart, CreditedOnce, OrdersGiven, RecordsAreCalls,
                       Exists, OrderCall
  <2>4. CallerPart'
    BY <1>1, <1>10, <2>1 DEF InsertRecord, Goto, CallerPart, CallsMatch, PosterHoldsRef,
                             CreditedWasPosted, Exists, OrderCall, RechargeTypes
  <2> QED
    BY <2>2, <2>3, <2>4
<1>11. ASSUME NEW c \in Caller, RecordConflict(c)
       PROVE  Kept
  <2>1. RechargeTypes'
    BY <1>1, <1>11 DEF RecordConflict, Fail, HandlerReturns, Goto, RechargeTypes
  <2>2. TablePart'
    BY <1>1, <1>11 DEF RecordConflict, Fail, TablePart, CreditedOnce, OrdersGiven,
                       RecordsAreCalls, Exists, OrderCall
  <2>3. CallerPart'
    BY <1>1, <1>11 DEF RecordConflict, Fail, HandlerReturns, Goto, CallerPart, CallsMatch,
                       PosterHoldsRef, CreditedWasPosted, Exists, OrderCall, RechargeTypes
  <2> QED
    BY <2>1, <2>2, <2>3
<1>12. ASSUME NEW c \in Caller, PostRecharge(c)
       PROVE  Kept
  <2>1. /\ call[c] \in RechargeCall /\ call[c] \in given
        /\ call[c].ref \in Ref /\ call[c] # NoCall
        /\ pend[call[c].ref] = c /\ posted[call[c].ref] = 0
    BY <1>1, <1>12, CallsAreCalls DEF PostRecharge, CallerPart, TablePart, CallsMatch,
                                      PosterHoldsRef, CreditedOnce
  <2>2. /\ rec' = [rec EXCEPT ![call[c].ref] = call[c]]
        /\ posted' = [posted EXCEPT ![call[c].ref] = 1]
        /\ pend' = [pend EXCEPT ![call[c].ref] = Nobody]
        /\ UNCHANGED <<order, acked, given>>
    BY <1>12, <2>1 DEF PostRecharge
  <2>3. \/ /\ at' = [at EXCEPT ![c] = "credited"]
           /\ call[c].by = "order"
           /\ UNCHANGED <<call, told>>
        \/ /\ at' = [at EXCEPT ![c] = "idle"]
           /\ call' = [call EXCEPT ![c] = NoCall]
           /\ told' \in {told, told \cup {call[c]}}
    BY <1>12 DEF PostRecharge, Succeed, Fail, HandlerReturns, Goto
  <2>4. RechargeTypes'
    <3>1. /\ at' \in [Caller -> {"idle", "pay", "lookup", "insert", "post", "credited"}]
          /\ call' \in [Caller -> RechargeCall \cup {NoCall}]
          /\ told' \subseteq RechargeCall
      BY <1>1, <2>1, <2>3 DEF RechargeTypes
    <3> QED
      BY <1>1, <2>1, <2>2, <3>1 DEF RechargeTypes
  <2>5. \A ref \in Ref : rec'[ref] = IF ref = call[c].ref THEN call[c] ELSE rec[ref]
    BY <1>1, <2>1, <2>2 DEF RechargeTypes
  <2>6. CreditedOnce' /\ OrdersGiven'
    BY <1>1, <2>1, <2>2, <2>5 DEF TablePart, CreditedOnce, OrdersGiven, Exists, OrderCall,
                                  RechargeTypes
  <2>7. RecordsAreCalls'
    <3>1. \A t \in told' : t \in told \/ t = call[c]
      BY <2>3
    <3>2. \A t \in told : t.ref \in Ref
      BY <1>1, CallsAreCalls DEF RechargeTypes
    <3>3. \A ref \in Ref : Exists(ref)' => rec'[ref] \in given /\ rec'[ref].ref = ref
      BY <1>1, <2>1, <2>5 DEF TablePart, RecordsAreCalls, Exists
    <3>4. told' \subseteq given /\ \A t \in told' : Exists(t.ref)'
      BY <1>1, <2>1, <2>5, <3>1, <3>2 DEF TablePart, RecordsAreCalls, Exists
    <3>5. \A o \in Order : order[o] = "credited" => Exists(o)' /\ OrderCall(o) \in given
      BY <1>1, <2>1, <2>5, RechargeAssumption DEF TablePart, RecordsAreCalls, Exists
    <3> QED
      BY <2>2, <3>3, <3>4, <3>5 DEF RecordsAreCalls, OrderCall
  <2>8. ASSUME NEW d \in Caller, d # c
        PROVE  at'[d] = at[d] /\ call'[d] = call[d]
    BY <1>1, <2>3, <2>8 DEF RechargeTypes
  <2>9. \/ at'[c] = "idle"
        \/ at'[c] = "credited" /\ call'[c] = call[c] /\ call[c].by = "order"
    BY <1>1, <2>3 DEF RechargeTypes
  <2>10. CallsMatch'
    <3>1. at[c] = "post" /\ (call[c].by = "order" =>
             call[c].ref \in Order /\ call[c] = OrderCall(call[c].ref))
      BY <1>1, <1>12 DEF PostRecharge, CallerPart, CallsMatch
    <3>2. CallsMatch
      BY <1>1 DEF CallerPart
    <3> QED
      BY <2>1, <2>2, <2>8, <2>9, <3>1, <3>2 DEF CallsMatch, OrderCall
  <2>11. PosterHoldsRef'
    <3> SUFFICES ASSUME NEW d \in Caller, at'[d] = "post"
                 PROVE  pend'[call'[d].ref] = d /\ rec'[call'[d].ref] = NoCall
      BY DEF PosterHoldsRef, Exists
    <3>1. d # c
      BY <2>9
    <3>2. at[d] = "post" /\ call'[d] = call[d]
      BY <2>8, <3>1
    <3>3. call[d].ref \in Ref /\ pend[call[d].ref] = d /\ rec[call[d].ref] = NoCall
      BY <1>1, <3>2, CallsAreCalls DEF CallerPart, CallsMatch, PosterHoldsRef, Exists
    <3>4. call[d].ref # call[c].ref
      BY <2>1, <3>1, <3>3
    <3> QED
      BY <1>1, <2>1, <2>2, <2>5, <3>2, <3>3, <3>4 DEF RechargeTypes
  <2>12. CreditedWasPosted'
    <3> SUFFICES ASSUME NEW d \in Caller, at'[d] = "credited"
                 PROVE  rec'[call'[d].ref] # NoCall
      BY DEF CreditedWasPosted, Exists
    <3>1. CASE d = c
      BY <2>1, <2>5, <2>9, <3>1
    <3>2. CASE d # c
      <4>1. at[d] = "credited" /\ call'[d] = call[d]
        BY <2>8, <3>2
      <4>2. call[d].ref \in Ref /\ rec[call[d].ref] # NoCall
        BY <1>1, <4>1, CallsAreCalls DEF CallerPart, CallsMatch, CreditedWasPosted, Exists
      <4> QED
        BY <2>1, <2>5, <4>1, <4>2
    <3> QED
      BY <3>1, <3>2
  <2> QED
    BY <2>4, <2>6, <2>7, <2>10, <2>11, <2>12 DEF TablePart, CallerPart
<1>13. ASSUME NEW c \in Caller, RechargeFails(c) \/ Crash(c)
       PROVE  Kept
  <2>1. /\ pend' = [ref \in Ref |-> IF pend[ref] = c THEN Nobody ELSE pend[ref]]
        /\ at' = [at EXCEPT ![c] = "idle"]
        /\ call' = [call EXCEPT ![c] = NoCall]
        /\ UNCHANGED <<order, rec, posted, acked, given, told>>
    BY <1>13 DEF RechargeFails, Crash, Fail, HandlerReturns, Goto
  <2>2. RechargeTypes'
    BY <1>1, <2>1 DEF RechargeTypes
  <2>3. TablePart'
    BY <1>1, <2>1 DEF TablePart, CreditedOnce, OrdersGiven, RecordsAreCalls, Exists, OrderCall
  <2>4. CallsMatch' /\ CreditedWasPosted'
    BY <1>1, <2>1 DEF CallerPart, CallsMatch, CreditedWasPosted, Exists, OrderCall, RechargeTypes
  <2>5. PosterHoldsRef'
    <3> SUFFICES ASSUME NEW d \in Caller, at'[d] = "post"
                 PROVE  pend'[call'[d].ref] = d /\ rec'[call'[d].ref] = NoCall
      BY DEF PosterHoldsRef, Exists
    <3>1. d # c /\ at[d] = "post" /\ call'[d] = call[d]
      BY <1>1, <2>1 DEF RechargeTypes
    <3>2. call[d].ref \in Ref /\ pend[call[d].ref] = d /\ rec[call[d].ref] = NoCall
      BY <1>1, <3>1, CallsAreCalls DEF CallerPart, CallsMatch, PosterHoldsRef, Exists
    <3> QED
      BY <2>1, <3>1, <3>2
  <2> QED
    BY <2>2, <2>3, <2>4, <2>5 DEF CallerPart
<1>14. ASSUME UNCHANGED rechargeVars
       PROVE  Kept
  BY <1>1, <1>14 DEF rechargeVars, RechargeTypes, TablePart, CallerPart, CreditedOnce,
                     OrdersGiven, RecordsAreCalls, CallsMatch, PosterHoldsRef,
                     CreditedWasPosted, Exists, OrderCall
<1> QED
  BY <1>2, <1>3, <1>4, <1>5, <1>6, <1>7, <1>8, <1>9, <1>10, <1>11, <1>12, <1>13, <1>14
     DEF RechargeNext, Arrival, Handler, Progress

(* RechargeInv is inductive.                                               *)
LEMMA RechargeKept == RechargeInv /\ [RechargeNext]_rechargeVars => RechargeInv'
<1> SUFFICES ASSUME RechargeInv, [RechargeNext]_rechargeVars
             PROVE  RechargeInv'
  OBVIOUS
<1>1. RechargeTypes' /\ TablePart' /\ CallerPart'
  BY RechargePartsKept
<1>2. (RechargeTypes /\ TablePart => OrderMatchesLedger /\ SuccessIsCredited)'
  BY SoleCallsAreRecorded, PTL
<1> QED
  BY <1>1, <1>2 DEF RechargeInv, TablePart, CallerPart

(* RechargeInv is an invariant of payment.go, billing.go and settlement.go *)
(* for any credits, orders, refs and concurrent callers, and every fault,  *)
(* also where a recharge is given the ref of an order or of another one.   *)
THEOREM RechargeInvariant == RechargeSpec => []RechargeInv
  BY RechargeStarts, RechargeKept, PTL DEF RechargeSpec

(* The variables of recharges and orders keep their types.                 *)
THEOREM RechargeTypeCorrect == RechargeSpec => []RechargeTypes
<1>1. RechargeInv => RechargeTypes
  BY DEF RechargeInv
<1> QED
  BY RechargeInvariant, <1>1, PTL

(* A ref is credited at most once, exactly when its record is committed.   *)
THEOREM RechargeIsIdempotent == RechargeSpec => []CreditedOnce
<1>1. RechargeInv => CreditedOnce
  BY DEF RechargeInv
<1> QED
  BY RechargeInvariant, <1>1, PTL

(* An order that says credited has a record, its own if nobody else gave   *)
(* its ref, and is credited only once it is paid.                          *)
THEOREM OrdersAgreeWithLedger == RechargeSpec => []OrderMatchesLedger
<1>1. RechargeInv => OrderMatchesLedger
  BY DEF RechargeInv
<1> QED
  BY RechargeInvariant, <1>1, PTL

(* A recharge that is answered by success was credited itself, unless      *)
(* another gave the same ref: then one of those was.                       *)
THEOREM SuccessMeansCredited == RechargeSpec => []SuccessIsCredited
<1>1. RechargeInv => SuccessIsCredited
  BY DEF RechargeInv
<1> QED
  BY RechargeInvariant, <1>1, PTL
=============================================================================
