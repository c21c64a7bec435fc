----------------------------- MODULE PayoutProofs -----------------------------
(***************************************************************************)
(* Payout's safety for any number of records, scanners and faults; and     *)
(* what there is to pay: how the cost of a request is divided, for all     *)
(* costs and shares.                                                       *)
(***************************************************************************)
EXTENDS Payout, Pricing, FiniteSetTheorems, TLAPS

(* PayoutInv holds before the first usage is recorded.                     *)
LEMMA InitEstablishesInv == Init => PayoutInv
  BY PayoutAssumption
     DEF Init, PayoutInv, TypeOK, SettledIsPaid, NothingPaidEarly,
         ScannersHoldDueRows

(* On to the next row of a pass: what the scanner keeps is still due.      *)
LEMMA NextRowKeepsScanners ==
  ASSUME PayoutInv, NEW s \in Scanner, NEW r \in Record, NextRow(s, r),
         due' = due, \A q \in Record : paid[q] > 0 => paid'[q] > 0
  PROVE  ScannersHoldDueRows'
<1> USE DEF PayoutInv, TypeOK
<1>1. SUFFICES ASSUME NEW t \in Scanner
               PROVE  /\ rows'[t] \subseteq due
                      /\ at'[t] = "mark" =>
                            /\ cur'[t] \in rows'[t]
                            /\ Revenue[cur'[t]] > 0 => paid'[cur'[t]] > 0
  BY DEF ScannersHoldDueRows
<1>2. CASE t = s
  BY <1>2 DEF NextRow, ScannersHoldDueRows
<1>3. CASE t # s
  <2>1. rows'[t] = rows[t] /\ at'[t] = at[t] /\ cur'[t] = cur[t]
    BY <1>3 DEF NextRow
  <2> QED
    BY <2>1 DEF ScannersHoldDueRows
<1> QED
  BY <1>2, <1>3

(* Every step of the ticker, the workers and a failing process keeps       *)
(* PayoutInv.                                                              *)
LEMMA StepKeepsInv == PayoutInv /\ [Next]_vars => PayoutInv'
<1> SUFFICES ASSUME PayoutInv, [Next]_vars
             PROVE  PayoutInv'
  OBVIOUS
<1> USE PayoutAssumption, NoRecordAssumption DEF PayoutInv, TypeOK
<1>1. ASSUME NEW r \in Record, RecordUsage(r)
      PROVE  PayoutInv'
  BY <1>1 DEF RecordUsage, SettledIsPaid, NothingPaidEarly, ScannersHoldDueRows
<1>2. ASSUME NEW r \in Record, CycleEnds(r)
      PROVE  PayoutInv'
  BY <1>2 DEF CycleEnds, SettledIsPaid, NothingPaidEarly, ScannersHoldDueRows
<1>3. ASSUME NEW s \in Scanner, Scan(s)
      PROVE  PayoutInv'
  <2>1. Selected \subseteq due
    BY DEF Selected
  <2>2. TypeOK'
    BY <1>3, <2>1 DEF Scan
  <2>3. ScannersHoldDueRows'
    BY <1>3, <2>1 DEF Scan, ScannersHoldDueRows
  <2> QED
    BY <1>3, <2>2, <2>3 DEF Scan, SettledIsPaid, NothingPaidEarly
<1>4. ASSUME NEW s \in Scanner, NEW r \in Record, PayProvider(s, r)
      PROVE  PayoutInv'
  <2>1. r \in due
    BY <1>4 DEF PayProvider, ScannersHoldDueRows
  <2>2. TypeOK'
    BY <1>4 DEF PayProvider
  <2>3. \A q \in Record : paid[q] > 0 => paid'[q] > 0
    BY <1>4 DEF PayProvider
  <2>4. \A q \in Record : paid'[q] > 0 => paid[q] > 0 \/ q = r
    BY <1>4 DEF PayProvider
  <2>5. ScannersHoldDueRows'
    <3>1. Revenue[r] > 0 => paid'[r] > 0
      BY <1>4 DEF PayProvider
    <3> QED
      BY <1>4, <2>3, <3>1 DEF PayProvider, ScannersHoldDueRows
  <2>6. SettledIsPaid'
    BY <1>4, <2>3 DEF PayProvider, SettledIsPaid
  <2>7. NothingPaidEarly'
    BY <1>4, <2>1, <2>4 DEF PayProvider, NothingPaidEarly
  <2> QED
    BY <2>2, <2>5, <2>6, <2>7
<1>5. ASSUME NEW s \in Scanner, NEW r \in Record, PayFails(s, r)
      PROVE  PayoutInv'
  <2>1. r \in due
    BY <1>5 DEF PayFails, ScannersHoldDueRows
  <2>2. TypeOK'
    BY <1>5 DEF PayFails, NextRow, Fault
  <2>3. \A q \in Record : paid[q] > 0 => paid'[q] > 0
    BY <1>5 DEF PayFails
  <2>4. \A q \in Record : paid'[q] > 0 => paid[q] > 0 \/ q = r
    BY <1>5 DEF PayFails
  <2>5. ScannersHoldDueRows'
    BY <1>5, <2>3, NextRowKeepsScanners DEF PayFails
  <2>6. SettledIsPaid'
    BY <1>5, <2>3 DEF PayFails, SettledIsPaid
  <2>7. NothingPaidEarly'
    BY <1>5, <2>1, <2>4 DEF PayFails, NothingPaidEarly
  <2> QED
    BY <2>2, <2>5, <2>6, <2>7
<1>6. ASSUME NEW s \in Scanner, MarkSettled(s)
      PROVE  PayoutInv'
  <2>1. /\ cur[s] \in rows[s]
        /\ cur[s] \in Record
        /\ cur[s] \in due
        /\ Revenue[cur[s]] > 0 => paid[cur[s]] > 0
    BY <1>6 DEF MarkSettled, ScannersHoldDueRows
  <2>2. TypeOK'
    BY <1>6, <2>1 DEF MarkSettled, NextRow
  <2>3. ScannersHoldDueRows'
    BY <1>6, <2>1, NextRowKeepsScanners DEF MarkSettled
  <2>4. SettledIsPaid' /\ NothingPaidEarly'
    BY <1>6, <2>1 DEF MarkSettled, SettledIsPaid, NothingPaidEarly
  <2> QED
    BY <2>2, <2>3, <2>4
<1>7. ASSUME NEW s \in Scanner, MarkFails(s)
      PROVE  PayoutInv'
  <2>1. cur[s] \in Record
    BY <1>7 DEF MarkFails, ScannersHoldDueRows
  <2>2. TypeOK'
    BY <1>7, <2>1 DEF MarkFails, NextRow, Fault
  <2>3. ScannersHoldDueRows'
    BY <1>7, <2>1, NextRowKeepsScanners DEF MarkFails
  <2> QED
    BY <1>7, <2>2, <2>3 DEF MarkFails, SettledIsPaid, NothingPaidEarly
<1>8. ASSUME NEW s \in Scanner, Crash(s)
      PROVE  PayoutInv'
  <2>1. TypeOK'
    BY <1>8 DEF Crash, Fault
  <2>2. ScannersHoldDueRows'
    BY <1>8 DEF Crash, ScannersHoldDueRows
  <2> QED
    BY <1>8, <2>1, <2>2 DEF Crash, SettledIsPaid, NothingPaidEarly
<1>9. ASSUME UNCHANGED vars
      PROVE  PayoutInv'
  BY <1>9 DEF vars, SettledIsPaid, NothingPaidEarly, ScannersHoldDueRows
<1> QED
  BY <1>1, <1>2, <1>3, <1>4, <1>5, <1>6, <1>7, <1>8, <1>9 DEF Next, Pass

(* Counting scanners: a set that grows, and a set that changes by one.     *)
LEMMA CountChange ==
  ASSUME NEW A \in SUBSET Scanner, NEW B \in SUBSET Scanner, NEW s
  PROVE  /\ Cardinality(A) \in Nat /\ Cardinality(B) \in Nat
         /\ A \subseteq B => Cardinality(A) <= Cardinality(B)
         /\ A \subseteq B \cup {s} => Cardinality(A) <= Cardinality(B) + 1
         /\ A \subseteq B \ {s} /\ s \in B => Cardinality(A) + 1 <= Cardinality(B)
<1>1. IsFiniteSet(A) /\ IsFiniteSet(B)
  BY PayoutAssumption, FS_Subset
<1>2. /\ Cardinality(A) \in Nat /\ Cardinality(B) \in Nat
      /\ A \subseteq B => Cardinality(A) <= Cardinality(B)
  BY <1>1, FS_CardinalityType, FS_Subset
<1>3. A \subseteq B \cup {s} => Cardinality(A) <= Cardinality(B) + 1
  <2>1. /\ IsFiniteSet(B \cup {s})
        /\ Cardinality(B \cup {s}) = IF s \in B THEN Cardinality(B) ELSE Cardinality(B) + 1
    BY <1>1, FS_AddElement
  <2>2. A \subseteq B \cup {s} => Cardinality(A) <= Cardinality(B \cup {s})
    BY <2>1, FS_Subset
  <2> QED
    BY <1>2, <2>1, <2>2
<1>4. A \subseteq B \ {s} /\ s \in B => Cardinality(A) + 1 <= Cardinality(B)
  <2>1. /\ IsFiniteSet(B \ {s})
        /\ Cardinality(B \ {s}) = IF s \in B THEN Cardinality(B) - 1 ELSE Cardinality(B)
    BY <1>1, FS_RemoveElement
  <2>2. A \subseteq B \ {s} => Cardinality(A) <= Cardinality(B \ {s})
    BY <2>1, FS_Subset
  <2> QED
    BY <1>2, <2>1, <2>2
<1> QED
  BY <1>2, <1>3, <1>4

(* What a step must show of a record to keep its count: it credits it only *)
(* as a holder that gives it up and marks it, or by a fault.               *)
LEMMA CountKept ==
  ASSUME PayoutInv, PayoutInv', RepeatsAreCounted, NEW s \in Scanner, NEW q \in Record,
         status'[q] = status[q], faults' \in {faults, faults + 1},
         paid'[q] <= paid[q] + 1,
         status[q] = "settled" => Holding(q)' \subseteq Holding(q),
         paid'[q] # paid[q] => s \in Holding(q) /\ s \notin Holding(q)',
         faults' = faults => Marking(q) \subseteq Marking(q)',
         Marking(q) \subseteq Marking(q)' \cup {s},
         paid'[q] > paid[q] =>
             /\ Marking(q) \subseteq Marking(q)'
             /\ \/ faults' = faults + 1
                \/ Marking(q) \subseteq Marking(q)' \ {s} /\ s \in Marking(q)'
  PROVE  IF status'[q] = "settled"
         THEN paid'[q] + Cardinality(Holding(q)') <= Cardinality(Scanner) + faults'
         ELSE paid'[q] <= Cardinality(Marking(q)') + faults'
<1> DEFINE H == Holding(q)  HH == Holding(q)'  M == Marking(q)  MM == Marking(q)'
<1>1. /\ H \in SUBSET Scanner /\ HH \in SUBSET Scanner
      /\ M \in SUBSET Scanner /\ MM \in SUBSET Scanner
  BY DEF Holding, Marking
<1>2. /\ paid[q] \in Nat /\ paid'[q] \in Nat /\ faults \in Nat
      /\ Cardinality(Scanner) \in Nat
  BY PayoutAssumption, FS_CardinalityType DEF PayoutInv, TypeOK
<1>3. IF status[q] = "settled" THEN paid[q] + Cardinality(H) <= Cardinality(Scanner) + faults
                               ELSE paid[q] <= Cardinality(M) + faults
  BY DEF RepeatsAreCounted
<1>4. ASSUME status[q] = "settled"
      PROVE  /\ Cardinality(HH) \in Nat /\ Cardinality(H) \in Nat
             /\ Cardinality(HH) <= Cardinality(H)
             /\ paid'[q] # paid[q] => Cardinality(HH) + 1 <= Cardinality(H)
  <2>1. paid'[q] # paid[q] => HH \subseteq H \ {s} /\ s \in H
    BY <1>4
  <2> QED
    BY <1>1, <1>4, <2>1, CountChange
<1>5. /\ Cardinality(MM) \in Nat /\ Cardinality(M) \in Nat
      /\ Cardinality(M) <= Cardinality(MM) + 1
      /\ faults' = faults \/ paid'[q] > paid[q] => Cardinality(M) <= Cardinality(MM)
      /\ faults' = faults /\ paid'[q] > paid[q] => Cardinality(M) + 1 <= Cardinality(MM)
  <2>1. faults' # faults \/ faults' # faults + 1
    BY <1>2
  <2> QED
    BY <1>1, <2>1, CountChange
<1> HIDE DEF H, HH, M, MM
<1>6. CASE status[q] = "settled"
  <2>1. paid'[q] + Cardinality(HH) <= Cardinality(Scanner) + faults'
    BY <1>2, <1>3, <1>4, <1>6
  <2> QED
    BY <1>6, <2>1 DEF HH
<1>7. CASE status[q] # "settled"
  <2>1. paid'[q] <= Cardinality(MM) + faults'
    BY <1>2, <1>3, <1>5, <1>7
  <2> QED
    BY <1>7, <2>1 DEF MM
<1> QED
  BY <1>6, <1>7

(* Every step keeps the counts. *)
LEMMA StepKeepsCounts ==
  PayoutInv /\ PayoutInv' /\ RepeatsAreCounted /\ [Next]_vars => RepeatsAreCounted'
<1> SUFFICES ASSUME PayoutInv, PayoutInv', RepeatsAreCounted, [Next]_vars, NEW q \in Record
             PROVE  IF status'[q] = "settled"
                    THEN paid'[q] + Cardinality(Holding(q)') <= Cardinality(Scanner) + faults'
                    ELSE paid'[q] <= Cardinality(Marking(q)') + faults'
  BY DEF RepeatsAreCounted
<1> DEFINE Goal == IF status'[q] = "settled"
                   THEN paid'[q] + Cardinality(Holding(q)') <= Cardinality(Scanner) + faults'
                   ELSE paid'[q] <= Cardinality(Marking(q)') + faults'
<1>0. paid[q] \in Nat /\ faults \in Nat
  BY DEF PayoutInv, TypeOK
<1>1. ASSUME NEW r \in Record, RecordUsage(r)
      PROVE  Goal
  <2>1. Holding(q)' = Holding(q) /\ Marking(q)' = Marking(q)
    BY <1>1 DEF RecordUsage, Holding, Marking
  <2>2. /\ status'[q] = "settled" <=> status[q] = "settled"
        /\ paid' = paid /\ faults' = faults
    BY <1>1 DEF RecordUsage, PayoutInv, TypeOK
  <2> QED
    BY <2>1, <2>2 DEF RepeatsAreCounted
<1>2. ASSUME UNCHANGED <<status, paid, at, rows, cur, faults>>
      PROVE  Goal
  <2>1. Holding(q)' = Holding(q) /\ Marking(q)' = Marking(q)
    BY <1>2 DEF Holding, Marking
  <2> QED
    BY <1>2, <2>1 DEF RepeatsAreCounted
<1>3. ASSUME NEW s \in Scanner, Scan(s)
      PROVE  Goal
  <2>1. /\ UNCHANGED <<status, paid, cur, faults>>
        /\ at[s] = "idle" /\ at'[s] = "pay"
        /\ \A t \in Scanner \ {s} : at'[t] = at[t] /\ rows'[t] = rows[t]
        /\ rows'[s] = Selected
    BY <1>3 DEF Scan, PayoutInv, TypeOK
  <2>2. Marking(q)' = Marking(q)
    BY <2>1 DEF Marking
  <2>3. status[q] = "settled" => Holding(q)' \subseteq Holding(q)
    BY <2>1 DEF Holding, Marking, Selected
  <2> QED
    BY <1>0, <2>1, <2>2, <2>3, CountKept
<1>4. ASSUME NEW s \in Scanner, NEW r \in Record, PayProvider(s, r)
      PROVE  Goal
  <2>1. /\ UNCHANGED <<status, rows, faults>>
        /\ at[s] = "pay" /\ r \in rows[s] /\ at'[s] = "mark" /\ cur'[s] = r
        /\ \A t \in Scanner \ {s} : at'[t] = at[t] /\ cur'[t] = cur[t]
    BY <1>4 DEF PayProvider, PayoutInv, TypeOK
  <2>2. paid'[q] \in {paid[q], paid[q] + 1} /\ (q # r => paid'[q] = paid[q])
    BY <1>4 DEF PayProvider, PayoutInv, TypeOK
  <2>3. Holding(q)' \subseteq Holding(q) /\ Marking(q) \subseteq Marking(q)' \ {s}
    BY <2>1 DEF Holding, Marking
  <2>4. q = r => s \in Holding(q) /\ s \notin Holding(q)' /\ s \in Marking(q)'
    BY <2>1 DEF Holding, Marking
  <2> QED
    BY <1>0, <2>1, <2>2, <2>3, <2>4, CountKept
<1>5. ASSUME NEW s \in Scanner, NEW r \in Record, PayFails(s, r)
      PROVE  Goal
  <2>1. /\ status' = status /\ faults' = faults + 1
        /\ at[s] = "pay" /\ r \in rows[s] /\ at'[s] # "mark" /\ rows'[s] = rows[s] \ {r}
        /\ \A t \in Scanner \ {s} : at'[t] = at[t] /\ cur'[t] = cur[t] /\ rows'[t] = rows[t]
    BY <1>5 DEF PayFails, NextRow, Fault, PayoutInv, TypeOK
  <2>2. paid'[q] \in {paid[q], paid[q] + 1} /\ (q # r => paid'[q] = paid[q])
    BY <1>5 DEF PayFails, PayoutInv, TypeOK
  <2>3. Holding(q)' \subseteq Holding(q) /\ Marking(q) = Marking(q)'
    BY <2>1 DEF Holding, Marking
  <2>4. q = r => s \in Holding(q) /\ s \notin Holding(q)'
    BY <2>1 DEF Holding, Marking
  <2> QED
    BY <1>0, <2>1, <2>2, <2>3, <2>4, CountKept
<1>6. ASSUME NEW s \in Scanner, MarkSettled(s)
      PROVE  Goal
  <2>1. cur[s] \in Record
    BY <1>6 DEF MarkSettled, PayoutInv, ScannersHoldDueRows, TypeOK
  <2>2. /\ UNCHANGED <<paid, faults>>
        /\ at[s] = "mark" /\ at'[s] # "mark" /\ rows'[s] = rows[s] \ {cur[s]}
        /\ \A t \in Scanner \ {s} : at'[t] = at[t] /\ cur'[t] = cur[t] /\ rows'[t] = rows[t]
        /\ status'[q] = IF q = cur[s] THEN "settled" ELSE status[q]
    BY <1>6 DEF MarkSettled, NextRow, PayoutInv, TypeOK
  <2>3. Holding(q)' \subseteq Holding(q)
    BY <2>2 DEF Holding, Marking
  <2>4. CASE q # cur[s]
    <3>1. Marking(q)' = Marking(q)
      BY <2>2, <2>4 DEF Marking
    <3> QED
      BY <1>0, <2>2, <2>3, <2>4, <3>1, CountKept
  <2>5. CASE q = cur[s]
    <3>1. /\ status[q] = "settled" =>
                paid[q] + Cardinality(Holding(q)) <= Cardinality(Scanner) + faults
          /\ status[q] # "settled" => paid[q] <= Cardinality(Marking(q)) + faults
      BY DEF RepeatsAreCounted
    <3>2. /\ Cardinality(Holding(q)') \in Nat /\ Cardinality(Holding(q)) \in Nat
          /\ Cardinality(Holding(q)') <= Cardinality(Holding(q))
      BY <2>3, CountChange DEF Holding
    <3>3. /\ Cardinality(Marking(q)) \in Nat /\ Cardinality(Scanner) \in Nat
          /\ Cardinality(Holding(q)) + Cardinality(Marking(q)) <= Cardinality(Scanner)
      <4>1. IsFiniteSet(Holding(q)) /\ IsFiniteSet(Marking(q)) /\ IsFiniteSet(Scanner)
        BY PayoutAssumption, FS_Subset DEF Holding, Marking
      <4>2. Holding(q) \cap Marking(q) = {} /\ Holding(q) \cup Marking(q) \subseteq Scanner
        BY DEF Holding, Marking
      <4>3. Cardinality(Holding(q) \cup Marking(q)) =
              Cardinality(Holding(q)) + Cardinality(Marking(q))
        <5>1. Cardinality(Holding(q) \cap Marking(q)) = 0
          BY <4>2, FS_EmptySet
        <5>2. Cardinality(Holding(q) \cup Marking(q)) =
                Cardinality(Holding(q)) + Cardinality(Marking(q))
                  - Cardinality(Holding(q) \cap Marking(q))
          BY <4>1, FS_Union
        <5> QED
          BY <4>1, <5>1, <5>2, FS_CardinalityType
      <4>4. Cardinality(Holding(q) \cup Marking(q)) <= Cardinality(Scanner)
        BY <4>1, <4>2, FS_Subset
      <4> QED
        BY <4>1, <4>3, <4>4, FS_CardinalityType
    <3>4. paid[q] + Cardinality(Holding(q)') <= Cardinality(Scanner) + faults
      BY <1>0, <3>1, <3>2, <3>3
    <3> QED
      BY <2>2, <2>5, <3>4
  <2> QED
    BY <2>4, <2>5
<1>7. ASSUME NEW s \in Scanner, MarkFails(s)
      PROVE  Goal
  <2>1. /\ UNCHANGED <<status, paid>> /\ faults' = faults + 1
        /\ at[s] = "mark" /\ at'[s] # "mark" /\ rows'[s] = rows[s] \ {cur[s]}
        /\ \A t \in Scanner \ {s} : at'[t] = at[t] /\ cur'[t] = cur[t] /\ rows'[t] = rows[t]
    BY <1>7 DEF MarkFails, NextRow, Fault, PayoutInv, TypeOK
  <2>2. Holding(q)' \subseteq Holding(q) /\ Marking(q) \subseteq Marking(q)' \cup {s}
    BY <2>1 DEF Holding, Marking
  <2> QED
    BY <1>0, <2>1, <2>2, CountKept
<1>8. ASSUME NEW s \in Scanner, Crash(s)
      PROVE  Goal
  <2>1. /\ UNCHANGED <<status, paid>> /\ faults' = faults + 1
        /\ at'[s] = "idle" /\ rows'[s] = {}
        /\ \A t \in Scanner \ {s} : at'[t] = at[t] /\ cur'[t] = cur[t] /\ rows'[t] = rows[t]
    BY <1>8 DEF Crash, Fault, PayoutInv, TypeOK
  <2>2. Holding(q)' \subseteq Holding(q) /\ Marking(q) \subseteq Marking(q)' \cup {s}
    BY <2>1 DEF Holding, Marking
  <2> QED
    BY <1>0, <2>1, <2>2, CountKept
<1> HIDE DEF Goal
<1>9. Goal
  BY <1>1, <1>2, <1>3, <1>4, <1>5, <1>6, <1>7, <1>8 DEF Next, Pass, vars, CycleEnds
<1> QED
  BY <1>9 DEF Goal

(* Nobody has been paid at the start. *)
LEMMA InitCountsNothing == Init => RepeatsAreCounted
<1> SUFFICES ASSUME Init, NEW q \in Record PROVE 0 <= Cardinality(Marking(q)) + 0
  BY DEF Init, RepeatsAreCounted
<1> QED
  BY CountChange DEF Marking

(* PayoutInv is an invariant of ProcessSettlements, for any number of      *)
(* records, overlapping scanners and faults.                               *)
THEOREM PayoutInvariant == Spec => []PayoutInv
  BY InitEstablishesInv, StepKeepsInv, PTL DEF Spec

(* The variables of ProcessSettlements keep their types.                   *)
THEOREM PayoutTypeCorrect == Spec => []TypeOK
<1>1. PayoutInv => TypeOK
  BY DEF PayoutInv
<1> QED
  BY PayoutInvariant, <1>1, PTL

(* No record that earned something is marked settled without a payout.     *)
THEOREM NoRevenueLost == Spec => []SettledIsPaid
<1>1. PayoutInv => SettledIsPaid
  BY DEF PayoutInv
<1> QED
  BY PayoutInvariant, <1>1, PTL

(* No pass pays or settles a record before its settle_at.                  *)
THEOREM DisputeWindowKept == Spec => []NothingPaidEarly
<1>1. PayoutInv => NothingPaidEarly
  BY DEF PayoutInv
<1> QED
  BY PayoutInvariant, <1>1, PTL


(* However passes overlap, fail and stop, a provider is credited for one   *)
(* record at most once for each scanner and once for each fault            *)
(* (queue.go:389: the credit and the mark are in no transaction).          *)
THEOREM RepeatedPayoutsAreBounded == Spec => []RepeatsAreBounded
<1>1. PayoutInv /\ RepeatsAreCounted => RepeatsAreBounded
  <2> SUFFICES ASSUME PayoutInv, RepeatsAreCounted, NEW q \in Record
               PROVE  paid[q] <= Cardinality(Scanner) + faults
    BY DEF RepeatsAreBounded
  <2>1. /\ Holding(q) \in SUBSET Scanner /\ Marking(q) \in SUBSET Scanner
        /\ Scanner \in SUBSET Scanner
    BY DEF Holding, Marking
  <2>2. /\ Cardinality(Holding(q)) \in Nat /\ Cardinality(Marking(q)) \in Nat
        /\ Cardinality(Scanner) \in Nat /\ Cardinality(Marking(q)) <= Cardinality(Scanner)
    BY <2>1, CountChange
  <2>3. paid[q] \in Nat /\ faults \in Nat
    BY DEF PayoutInv, TypeOK
  <2> QED
    BY <2>2, <2>3 DEF RepeatsAreCounted
<1> QED
  BY <1>1, PayoutInvariant, InitCountsNothing, StepKeepsCounts, PTL DEF Spec

-----------------------------------------------------------------------------
(* Shares. *)

(* A product grows with its factors. *)
LEMMA ProductMonotone ==
    ASSUME NEW a \in Nat, NEW b \in Nat, NEW c \in Nat, a <= b
    PROVE  c * a \in Nat /\ c * a <= c * b
  BY SMT

(* The revenue of the provider and the commission of the platform are      *)
(* parts of the cost, neither of them negative, as long as a share is at   *)
(* most 10000 basis points, which nothing in the code enforces             *)
(* (queue.go:229, queue.go:323).                                           *)
THEOREM RevenueIsAPart ==
    ASSUME NEW cost \in Nat, NEW shareBps \in Int, shareBps <= 10000
    PROVE  /\ CalcRevenue(cost, shareBps) \in 0 .. cost
           /\ Commission(cost, shareBps) \in 0 .. cost
           /\ CalcRevenue(cost, shareBps) + Commission(cost, shareBps) = cost
  <1> DEFINE share == IF shareBps <= 0 THEN 8000 ELSE shareBps
  <1>1. share \in Nat /\ share <= 10000  OBVIOUS
  <1>2. cost * share \in Nat /\ cost * share <= cost * 10000
    BY <1>1, ProductMonotone
  <1>3. CalcRevenue(cost, shareBps) = (cost * share) \div 10000
    BY DEF CalcRevenue
  <1> HIDE DEF share
  <1>4. (cost * share) \div 10000 \in 0 .. cost  BY <1>2, SMT
  <1>5. QED  BY <1>3, <1>4, SMT DEF Commission
=============================================================================
