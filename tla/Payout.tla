-------------------------------- MODULE Payout --------------------------------
(***************************************************************************)
(* Paying providers: the settlement records of recorded usage wait for     *)
(* their settle_at; ProcessSettlements of relay/handler/queue.go scans the *)
(* pending ones that are due, credits the provider's earnings and marks    *)
(* the record.  The ticker of every process runs it every five minutes,    *)
(* and StopSettlementWorkers runs it once more while the ticker's own pass *)
(* may be under way.                                                       *)
(***************************************************************************)
EXTENDS Naturals, FiniteSets

CONSTANTS
    Record,     \* settlement records of usage
    Scanner,    \* goroutines that run ProcessSettlements
    Revenue,    \* provider_revenue_credits of each record
    MaxFaults   \* bound: how often a statement fails or a process stops

ASSUME PayoutAssumption ==
    /\ Revenue \in [Record -> Nat]
    /\ MaxFaults \in Nat
    /\ IsFiniteSet(Scanner)

VARIABLES
    status,  \* settlement_records.status
    due,     \* records whose settle_at has passed
    paid,    \* committed earnings credits of each record
    at,      \* where each scanner is
    rows,    \* what is left of the rows its query returned
    cur,     \* the row it has credited and not yet marked
    faults   \* faults so far

vars == <<status, due, paid, at, rows, cur, faults>>

NoRecord == "none"

ASSUME NoRecordAssumption == NoRecord \notin Record

Init ==
    /\ status = [r \in Record |-> "absent"]
    /\ due = {}
    /\ paid = [r \in Record |-> 0]
    /\ at = [s \in Scanner |-> "idle"]
    /\ rows = [s \in Scanner |-> {}]
    /\ cur = [s \in Scanner |-> NoRecord]
    /\ faults = 0

(* A worker commits a usage record with its pending settlement record.     *)
RecordUsage(r) ==
    /\ status[r] = "absent"
    /\ status' = [status EXCEPT ![r] = "pending"]
    /\ UNCHANGED <<due, paid, at, rows, cur, faults>>

(* Seven days pass.                                                        *)
CycleEnds(r) ==
    /\ status[r] = "pending"
    /\ r \notin due
    /\ due' = due \cup {r}
    /\ UNCHANGED <<status, paid, at, rows, cur, faults>>

(* Mutant of Selected: the query forgets the status.                       *)
SelectedAgain == due

(* WHERE status = 'pending' AND settle_at <= now.                          *)
Selected == {r \in due : status[r] = "pending"}

(* The query of a pass.                                                    *)
Scan(s) ==
    /\ at[s] = "idle"
    /\ Selected # {}
    /\ rows' = [rows EXCEPT ![s] = Selected]
    /\ at' = [at EXCEPT ![s] = "pay"]
    /\ UNCHANGED <<status, due, paid, cur, faults>>

(* On to the next row, or to the end of the pass.                          *)
NextRow(s, r) ==
    /\ rows' = [rows EXCEPT ![s] = @ \ {r}]
    /\ at' = [at EXCEPT ![s] = IF rows[s] = {r} THEN "idle" ELSE "pay"]
    /\ cur' = [cur EXCEPT ![s] = NoRecord]

(* Mutant of PayProvider: a row without revenue is passed over.            *)
PayProviderOrSkip(s, r) ==
    /\ at[s] = "pay"
    /\ r \in rows[s]
    /\ IF Revenue[r] > 0
       THEN /\ paid' = [paid EXCEPT ![r] = @ + 1]
            /\ cur' = [cur EXCEPT ![s] = r]
            /\ at' = [at EXCEPT ![s] = "mark"]
            /\ UNCHANGED rows
       ELSE NextRow(s, r) /\ UNCHANGED paid
    /\ UNCHANGED <<status, due, faults>>

(* CreditAccount on the provider's earnings, if there are any.             *)
PayProvider(s, r) ==
    /\ at[s] = "pay"
    /\ r \in rows[s]
    /\ paid' = [paid EXCEPT ![r] = IF Revenue[r] > 0 THEN @ + 1 ELSE @]
    /\ cur' = [cur EXCEPT ![s] = r]
    /\ at' = [at EXCEPT ![s] = "mark"]
    /\ UNCHANGED <<status, due, rows, faults>>

Fault ==
    /\ faults < MaxFaults
    /\ faults' = faults + 1

(* Mutant of PayFails: the error is logged, but the row is marked.         *)
PayFailsAndMarks(s, r) ==
    /\ Fault
    /\ at[s] = "pay"
    /\ r \in rows[s]
    /\ cur' = [cur EXCEPT ![s] = r]
    /\ at' = [at EXCEPT ![s] = "mark"]
    /\ UNCHANGED <<status, due, paid, rows>>

(* CreditAccount reports an error, and did or did not commit: the row is   *)
(* left for the next pass.                                                 *)
PayFails(s, r) ==
    /\ Fault
    /\ at[s] = "pay"
    /\ r \in rows[s]
    /\ Revenue[r] > 0
    /\ \/ UNCHANGED paid
       \/ paid' = [paid EXCEPT ![r] = @ + 1]
    /\ NextRow(s, r)
    /\ UNCHANGED <<status, due>>

(* UPDATE settlement_records SET status = 'settled' WHERE id = ?.          *)
MarkSettled(s) ==
    /\ at[s] = "mark"
    /\ status' = [status EXCEPT ![cur[s]] = "settled"]
    /\ NextRow(s, cur[s])
    /\ UNCHANGED <<due, paid, faults>>

(* The UPDATE fails: logged, on to the next row.                           *)
MarkFails(s) ==
    /\ Fault
    /\ at[s] = "mark"
    /\ NextRow(s, cur[s])
    /\ UNCHANGED <<status, due, paid>>

(* The process of the scanner stops.                                       *)
Crash(s) ==
    /\ Fault
    /\ at[s] # "idle"
    /\ at' = [at EXCEPT ![s] = "idle"]
    /\ rows' = [rows EXCEPT ![s] = {}]
    /\ cur' = [cur EXCEPT ![s] = NoRecord]
    /\ UNCHANGED <<status, due, paid>>

Pass(s) ==
    \/ Scan(s)
    \/ \E r \in Record : PayProvider(s, r) \/ PayFails(s, r)
    \/ MarkSettled(s)
    \/ MarkFails(s)

Next ==
    \/ \E r \in Record : RecordUsage(r) \/ CycleEnds(r)
    \/ \E s \in Scanner : Pass(s) \/ Crash(s)

Spec == Init /\ [][Next]_vars

(* The ticker fires again and again, and a pass runs to its end.           *)
FairSpec == Spec /\ \A s \in Scanner : WF_vars(Pass(s))

-----------------------------------------------------------------------------

(* Types of the records and of the scanners.                               *)
TypeOK ==
    /\ status \in [Record -> {"absent", "pending", "settled"}]
    /\ due \subseteq Record
    /\ paid \in [Record -> Nat]
    /\ at \in [Scanner -> {"idle", "pay", "mark"}]
    /\ rows \in [Scanner -> SUBSET Record]
    /\ cur \in [Scanner -> Record \cup {NoRecord}]
    /\ faults \in 0 .. MaxFaults

(* Whatever passes overlap and fail, a provider is paid for every record   *)
(* that says settled: no revenue is lost.                                  *)
SettledIsPaid ==
    \A r \in Record : status[r] = "settled" /\ Revenue[r] > 0 => paid[r] > 0

(* No provider is paid, and no record settled, before its settle_at: the   *)
(* dispute window is kept by every pass.                                   *)
NothingPaidEarly ==
    \A r \in Record : paid[r] > 0 \/ status[r] = "settled" => r \in due

(* How far payouts can repeat: each overlapping scanner pays a record at   *)
(* most once more, and so does each fault.                                 *)
RepeatsAreBounded ==
    \A r \in Record : paid[r] <= Cardinality(Scanner) + faults

(* A record that is due is settled in the end, with or without revenue.    *)
DueIsSettled == \A r \in Record : r \in due ~> status[r] = "settled"

(* A record is paid at most once.                                          *)
PaidOnce == \A r \in Record : paid[r] <= 1

-----------------------------------------------------------------------------

(* What a scanner holds: rows that are due, and the row between the credit *)
(* and the mark has been paid.                                             *)
ScannersHoldDueRows ==
    \A s \in Scanner :
        /\ rows[s] \subseteq due
        /\ at[s] = "mark" =>
              /\ cur[s] \in rows[s]
              /\ Revenue[cur[s]] > 0 => paid[cur[s]] > 0

(* The inductive invariant of payouts.                                     *)
PayoutInv ==
    /\ TypeOK
    /\ SettledIsPaid
    /\ NothingPaidEarly
    /\ ScannersHoldDueRows

(* Who has credited a record and not yet marked it, and who may still      *)
(* credit it.                                                              *)
Marking(r) == {s \in Scanner : at[s] = "mark" /\ cur[s] = r}
Holding(r) == {s \in Scanner : r \in rows[s]} \ Marking(r)

(* Every credit of a record is of a scanner that is about to mark it, or   *)
(* of a fault; once it is settled nobody selects it anew, so that only who *)
(* still holds it credits it again.                                        *)
RepeatsAreCounted ==
    \A r \in Record :
        IF status[r] = "settled"
        THEN paid[r] + Cardinality(Holding(r)) <= Cardinality(Scanner) + faults
        ELSE paid[r] <= Cardinality(Marking(r)) + faults

=============================================================================
