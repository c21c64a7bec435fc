------------------------------- MODULE Recharge -------------------------------
(***************************************************************************)
(* Buying credits: a payment order of logic/payment/payment.go and the     *)
(* notifications that confirm it, RechargeCredits of billing.go, and       *)
(* CreateRecharge of settlement.go, whose UNIQUE(ref_type, ref_id) is what *)
(* makes a recharge idempotent.  Providers repeat notifications, several   *)
(* arrive at once, and the process may stop between two statements.        *)
(***************************************************************************)
EXTENDS Naturals, FiniteSets

CONSTANTS
    Caller,      \* request goroutines
    Credit,      \* what a recharge adds: an amount, and the user it is for
    Ref,         \* <<ref_type, ref_id>>; whoever recharges chooses one freely
    Order,       \* payment orders, each by the ref of its own recharge
    OrderCredit, \* what each order buys
    Faults       \* a subset of AllFaults

AllFaults == {"db",      \* a statement or transaction fails without effect
              "commit",  \* a transaction commits but reports an error
              "crash"}   \* the goroutine's process stops

ASSUME RechargeAssumption ==
    /\ Order \subseteq Ref
    /\ OrderCredit \in [Order -> Credit]
    /\ Faults \subseteq AllFaults

Nobody == "nobody"

ASSUME NobodyAssumption == Nobody \notin Caller

(* A call of CreateRecharge: by confirmOrder for a paid order, or by the   *)
(* recharge endpoints, which pass on the ref they were given.              *)
RechargeCall == [ref : Ref, credit : Credit, by : {"order", "endpoint"}]
NoCall == [ref |-> Nobody, credit |-> Nobody, by |-> Nobody]
OrderCall(o) == [ref |-> o, credit |-> OrderCredit[o], by |-> "order"]

VARIABLES
    order,   \* payment_orders.status
    rec,     \* committed recharge record of each ref: whose call wrote it
    pend,    \* the caller whose uncommitted INSERT holds the ref
    posted,  \* committed credit transactions of each ref
    at,      \* where each caller is
    call,    \* the recharge it performs
    acked,   \* history: orders with a notification answered by success
    given,   \* history: the calls of CreateRecharge
    told     \* history: recharges the endpoints have answered by success

rechargeVars == <<order, rec, pend, posted, at, call, acked, given, told>>

Exists(ref) == rec[ref] # NoCall

RechargeInit ==
    /\ order = [o \in Order |-> "absent"]
    /\ rec = [ref \in Ref |-> NoCall]
    /\ pend = [ref \in Ref |-> Nobody]
    /\ posted = [ref \in Ref |-> 0]
    /\ at = [c \in Caller |-> "idle"]
    /\ call = [c \in Caller |-> NoCall]
    /\ acked = {}
    /\ given = {}
    /\ told = {}

Goto(c, place) == at' = [at EXCEPT ![c] = place]

(* The handler returns.                                                    *)
HandlerReturns(c) ==
    /\ Goto(c, "idle")
    /\ call' = [call EXCEPT ![c] = NoCall]

-----------------------------------------------------------------------------
(***************************************************************************)
(* Payment orders.                                                         *)
(***************************************************************************)

(* CreateRecharge of payment.go inserts the order before it asks the       *)
(* provider for a payment page.                                            *)
CreateOrder(o) ==
    /\ order[o] = "absent"
    /\ order' = [order EXCEPT ![o] = "pending"]
    /\ UNCHANGED <<rec, pend, posted, at, call, acked, given, told>>

(* A successful payment is notified; confirmOrder reads the order.         *)
Notify(c, o) ==
    /\ at[c] = "idle"
    /\ order[o] = "pending"
    /\ Goto(c, "pay")
    /\ call' = [call EXCEPT ![c] = OrderCall(o)]
    /\ UNCHANGED <<order, rec, pend, posted, acked, given, told>>

(* An order that is not pending any more: success, nothing to do.          *)
NotifyAgain(c, o) ==
    /\ at[c] = "idle"
    /\ order[o] \in {"paid", "credited"}
    /\ acked' = acked \cup {o}
    /\ UNCHANGED <<order, rec, pend, posted, at, call, given, told>>

(* Mutant of MarkPaid: the recharge comes first, the order later.          *)
MarkPaidLater(c) ==
    /\ at[c] = "pay"
    /\ given' = given \cup {call[c]}
    /\ Goto(c, "lookup")
    /\ UNCHANGED <<order, rec, pend, posted, call, acked, told>>

(* The order becomes paid, whatever it is by now.                          *)
MarkPaid(c) ==
    /\ at[c] = "pay"
    /\ order' = [order EXCEPT ![call[c].ref] = "paid"]
    /\ given' = given \cup {call[c]}
    /\ Goto(c, "lookup")
    /\ UNCHANGED <<rec, pend, posted, call, acked, told>>

(* The order becomes credited and the notification is answered.            *)
MarkCredited(c) ==
    /\ at[c] = "credited"
    /\ order' = [order EXCEPT ![call[c].ref] = "credited"]
    /\ acked' = acked \cup {call[c].ref}
    /\ HandlerReturns(c)
    /\ UNCHANGED <<rec, pend, posted, given, told>>

(* Either UPDATE fails: the notification is answered by an error.          *)
MarkFails(c) ==
    /\ "db" \in Faults
    /\ at[c] \in {"pay", "credited"}
    /\ HandlerReturns(c)
    /\ UNCHANGED <<order, rec, pend, posted, acked, given, told>>

-----------------------------------------------------------------------------
(***************************************************************************)
(* RechargeCredits and CreateRecharge.  RestoreOverdraftKeys, the last     *)
(* thing RechargeCredits does, is in module SettlementQueue.               *)
(***************************************************************************)

(* A user, or an administrator for a user, recharges; the ref is whatever  *)
(* the request says, one that was used before or an order's included.      *)
RechargeCredits(c, credit, ref) ==
    LET asked == [ref |-> ref, credit |-> credit, by |-> "endpoint"]
    IN  /\ at[c] = "idle"
        /\ Goto(c, "lookup")
        /\ call' = [call EXCEPT ![c] = asked]
        /\ given' = given \cup {asked}
        /\ UNCHANGED <<order, rec, pend, posted, acked, told>>

(* RechargeCredits returns without an error.                               *)
Succeed(c) ==
    IF call[c].by = "order"
    THEN Goto(c, "credited") /\ UNCHANGED <<call, told>>
    ELSE HandlerReturns(c) /\ told' = told \cup {call[c]}

(* Mutant of Fail: the error is swallowed.                                 *)
FailSilently(c) == Succeed(c)

(* RechargeCredits returns an error.                                       *)
Fail(c) == HandlerReturns(c) /\ UNCHANGED told

(* getRecordByRef: a known ref returns its transaction.                    *)
Lookup(c) ==
    /\ at[c] = "lookup"
    /\ IF Exists(call[c].ref)
       THEN Succeed(c)
       ELSE Goto(c, "insert") /\ UNCHANGED <<call, told>>
    /\ UNCHANGED <<order, rec, pend, posted, acked, given>>

(* Mutant of InsertRecord: no UNIQUE(ref_type, ref_id).                    *)
InsertDuplicate(c) ==
    /\ at[c] = "insert"
    /\ Goto(c, "post")
    /\ UNCHANGED <<order, rec, pend, posted, call, acked, given, told>>

(* The INSERT of the settlement record; it waits while another transaction *)
(* holds the same ref.                                                     *)
InsertRecord(c) ==
    /\ at[c] = "insert"
    /\ pend[call[c].ref] = Nobody
    /\ ~ Exists(call[c].ref)
    /\ pend' = [pend EXCEPT ![call[c].ref] = c]
    /\ Goto(c, "post")
    /\ UNCHANGED <<order, rec, posted, call, acked, given, told>>

(* A concurrent duplicate has committed: the INSERT fails, and with it the *)
(* transaction, in which the lookup that follows cannot run any more.      *)
RecordConflict(c) ==
    /\ at[c] = "insert"
    /\ Exists(call[c].ref)
    /\ Fail(c)
    /\ UNCHANGED <<order, rec, pend, posted, acked, given>>

(* postLedger, the link to the transaction, COMMIT.                        *)
PostRecharge(c) ==
    /\ at[c] = "post"
    /\ rec' = [rec EXCEPT ![call[c].ref] = call[c]]
    /\ posted' = [posted EXCEPT ![call[c].ref] = @ + 1]
    /\ pend' = [pend EXCEPT ![call[c].ref] = Nobody]
    /\ \/ Succeed(c)
       \/ "commit" \in Faults /\ Fail(c)
    /\ UNCHANGED <<order, acked, given>>

(* Mutant of RechargeFails: the transaction is not rolled back.            *)
RechargeFailsHoldingRef(c) ==
    /\ "db" \in Faults
    /\ at[c] \in {"lookup", "insert", "post"}
    /\ Fail(c)
    /\ UNCHANGED <<order, rec, pend, posted, acked, given>>

(* The lookup or the transaction fails (a version conflict, the database). *)
RechargeFails(c) ==
    /\ "db" \in Faults
    /\ at[c] \in {"lookup", "insert", "post"}
    /\ pend' = [ref \in Ref |-> IF pend[ref] = c THEN Nobody ELSE pend[ref]]
    /\ Fail(c)
    /\ UNCHANGED <<order, rec, posted, acked, given>>

(* The process stops; an open transaction is rolled back.                  *)
Crash(c) ==
    /\ "crash" \in Faults
    /\ at[c] # "idle"
    /\ pend' = [ref \in Ref |-> IF pend[ref] = c THEN Nobody ELSE pend[ref]]
    /\ HandlerReturns(c)
    /\ UNCHANGED <<order, rec, posted, acked, given, told>>

-----------------------------------------------------------------------------

Progress(c) ==
    \/ MarkPaid(c)
    \/ Lookup(c)
    \/ InsertRecord(c)
    \/ RecordConflict(c)
    \/ PostRecharge(c)
    \/ MarkCredited(c)

Handler(c) == Progress(c) \/ MarkFails(c) \/ RechargeFails(c)

Arrival(c) ==
    \/ \E o \in Order : Notify(c, o) \/ NotifyAgain(c, o)
    \/ \E credit \in Credit, ref \in Ref : RechargeCredits(c, credit, ref)

RechargeNext ==
    \/ \E o \in Order : CreateOrder(o)
    \/ \E c \in Caller : Arrival(c) \/ Handler(c) \/ Crash(c)

RechargeSpec == RechargeInit /\ [][RechargeNext]_rechargeVars

(* Handlers go on, faults need never happen, and an INSERT that waits for  *)
(* transactions that end again and again is let through by the database.   *)
FairRechargeSpec ==
    /\ RechargeSpec
    /\ \A c \in Caller : WF_rechargeVars(Progress(c)) /\ SF_rechargeVars(InsertRecord(c))

-----------------------------------------------------------------------------

(* Types of the orders, the recharge records and the callers.              *)
RechargeTypes ==
    /\ order \in [Order -> {"absent", "pending", "paid", "credited"}]
    /\ rec \in [Ref -> RechargeCall \cup {NoCall}]
    /\ pend \in [Ref -> Caller \cup {Nobody}]
    /\ posted \in [Ref -> Nat]
    /\ at \in [Caller -> {"idle", "pay", "lookup", "insert", "post", "credited"}]
    /\ call \in [Caller -> RechargeCall \cup {NoCall}]
    /\ acked \subseteq Order
    /\ given \subseteq RechargeCall
    /\ told \subseteq RechargeCall

(* However often and however concurrently a recharge is requested, and     *)
(* wherever handlers stop, each ref is credited at most once, and exactly  *)
(* when its settlement record exists.                                      *)
CreditedOnce ==
    \A ref \in Ref : posted[ref] = IF Exists(ref) THEN 1 ELSE 0

(* No other recharge has given the ref of this one.  Nothing in the code   *)
(* keeps the refs of orders, of users and of the administrator apart: only *)
(* this history tells whether they were.                                   *)
Sole(t) == \A g \in given : g.ref = t.ref => g = t

(* An order that says credited has a record under its ref, and that is its *)
(* own, unless another recharge has given the same ref; and its credits    *)
(* are posted only for an order that says at least paid.                   *)
OrderMatchesLedger ==
    \A o \in Order :
        /\ order[o] = "credited" =>
              Exists(o) /\ (Sole(OrderCall(o)) => rec[o] = OrderCall(o))
        /\ rec[o] = OrderCall(o) => order[o] \in {"paid", "credited"}

(* A recharge that was answered by success has been credited, itself and   *)
(* not only its ref, unless another recharge has given the same ref; then  *)
(* one of those was.                                                       *)
SuccessIsCredited ==
    \A t \in told : /\ rec[t.ref] \in given /\ rec[t.ref].ref = t.ref
                    /\ Sole(t) => rec[t.ref] = t

(* Every handler ends: an INSERT that waits for another transaction's ref  *)
(* gets its turn.                                                          *)
EveryHandlerEnds == \A c \in Caller : at[c] # "idle" ~> at[c] = "idle"

(* A notification is answered by success only when the order's credits     *)
(* have been posted.                                                       *)
AcknowledgedIsCredited == \A o \in acked : posted[o] = 1

(* billing.go:410, "RechargeCredits adds credits to a user's account":     *)
(* every recharge that was answered by success has added its credits.      *)
EverySuccessIsCredited == \A t \in told : rec[t.ref] = t

-----------------------------------------------------------------------------
(***************************************************************************)
(* The strengthening of the invariants.                                    *)
(***************************************************************************)

(* A caller inside a handler has a call, the order's own if it is for an   *)
(* order; a call that has come to CreateRecharge is on record, an order's  *)
(* once the order is paid.                                                 *)
CallsMatch ==
    \A c \in Caller :
        /\ at[c] # "idle" => call[c] \in RechargeCall
        /\ at[c] \in {"pay", "credited"} => call[c].by = "order"
        /\ at[c] # "idle" /\ call[c].by = "order" =>
              call[c].ref \in Order /\ call[c] = OrderCall(call[c].ref)
        /\ at[c] \in {"lookup", "insert", "post", "credited"} => call[c] \in given
OrdersGiven ==
    \A o \in Order : OrderCall(o) \in given => order[o] \in {"paid", "credited"}

(* Only calls are recorded, each under its ref, and only calls succeed.    *)
RecordsAreCalls ==
    /\ \A ref \in Ref : Exists(ref) => rec[ref] \in given /\ rec[ref].ref = ref
    /\ told \subseteq given /\ \A t \in told : Exists(t.ref)
    /\ \A o \in Order : order[o] = "credited" => Exists(o) /\ OrderCall(o) \in given

(* Who is between the INSERT and the COMMIT holds the ref, which has no    *)
(* committed record.                                                       *)
PosterHoldsRef ==
    \A c \in Caller : at[c] = "post" =>
        pend[call[c].ref] = c /\ ~ Exists(call[c].ref)

(* Who is about to mark an order credited has seen its record.             *)
CreditedWasPosted == \A c \in Caller : at[c] = "credited" => Exists(call[c].ref)

(* The inductive invariant of recharges and orders.                        *)
RechargeInv ==
    /\ RechargeTypes
    /\ CreditedOnce
    /\ OrderMatchesLedger
    /\ SuccessIsCredited
    /\ CallsMatch
    /\ OrdersGiven
    /\ RecordsAreCalls
    /\ PosterHoldsRef
    /\ CreditedWasPosted

=============================================================================
