--------------------------- MODULE SettlementQueue ---------------------------
(***************************************************************************)
(* Charging for a served request: relay/handler/handler.go admits it and   *)
(* pushes a SettlementTask, queue_redis.go carries the task in a Redis     *)
(* list, and the workers of queue.go record the usage, debit the consumer, *)
(* disable the keys of a consumer who cannot pay and count the quota;      *)
(* RechargeCredits of billing.go credits the consumer and restores the     *)
(* keys.  Every database statement or transaction is one step.  DebitAccount *)
(* and CreateRecharge are atomic here: module Ledger shows that they are.  *)
(***************************************************************************)
EXTENDS Integers, Sequences, FiniteSets, FiniteSetsExt, SequencesExt

CONSTANTS
    Request,     \* the requests clients will make
    User,        \* consumers
    Worker,      \* settlementWorker goroutines
    UserOf,      \* the consumer of each request
    Cost,        \* what each request will turn out to cost
    Lazy,        \* the requests whose upstream reports no usage, only text
    Meter,       \* quota counters of the picked key: llm_model_keys and
                 \* llm_model_key_models
    Limit,       \* quota_limit_credits of each counter, 0 for none
    Opening,     \* opening balance of every consumer
    Recharge,    \* what a recharge adds
    MaxRetries,  \* maxSettlementRetries
    Faults       \* what may go wrong: a subset of AllFaults

AllFaults == {"redis",      \* a Redis command fails
              "tokenizer",  \* CountTokens fails or no tokenizer is configured
              "db",         \* a statement fails and has no effect
              "commit",     \* a transaction commits but the client sees an error
              "crash"}      \* the process dies

ASSUME QueueAssumption ==
    /\ UserOf \in [Request -> User]
    /\ Cost \in [Request -> Nat]
    /\ Lazy \subseteq Request
    /\ Limit \in [Meter -> Nat]
    /\ {Opening, Recharge, MaxRetries} \subseteq Nat
    /\ Faults \subseteq AllFaults
    /\ IsFiniteSet(Worker) /\ "none" \notin Request

(* The requests of a run are finitely many. *)
ASSUME RequestAssumption == IsFiniteSet(Request)

VARIABLES
    stage,     \* where each request is on the request path
    queue,     \* the Redis list, oldest task first
    at,        \* where each worker is in processSettlement
    job,       \* the task it works on
    usage,     \* pairs of usage record and pending settlement record
    debited,   \* committed debits for each request
    balance,   \* credits balance of each consumer
    key,       \* api_keys of each consumer: on, or off for overdraft
    used,      \* quota_used_credits of each counter
    metered,   \* times each request was counted by each counter
    chats,     \* requests with a chat log
    recharge,  \* progress of one RechargeCredits call per consumer
    accepted,  \* history: requests whose first LPUSH succeeded
    dropped,   \* history: requests given up after MaxRetries
    lost,      \* history: requests whose task went with Redis or the process
    doubt,     \* history: records committed whose worker saw an error
    refused    \* history: the last amount a balance did not cover

requestVars == <<stage, accepted>>
moneyVars   == <<balance, debited, refused>>
quotaVars   == <<used, metered>>
workVars    == <<at, job>>
recordVars  == <<usage, doubt>>
lossVars    == <<dropped, lost>>
vars == <<stage, queue, at, job, usage, debited, balance, key, used, metered,
          chats, recharge, accepted, dropped, lost, doubt, refused>>

Task == [req : Request, retry : 0 .. MaxRetries, counted : BOOLEAN]
NoTask == [req |-> "none", retry |-> 0, counted |-> FALSE]

Req(w) == job[w].req
Payer(w) == UserOf[Req(w)]

(* Total cost of a bag of requests.                                        *)
Total(count) == MapThenSumSet(LAMBDA r : count[r] * Cost[r], Request)

Init ==
    /\ stage = [r \in Request |-> "new"]
    /\ queue = <<>>
    /\ at = [w \in Worker |-> "idle"]
    /\ job = [w \in Worker |-> NoTask]
    /\ usage = [r \in Request |-> 0]
    /\ debited = [r \in Request |-> 0]
    /\ balance = [u \in User |-> Opening]
    /\ key = [u \in User |-> "on"]
    /\ used = [m \in Meter |-> 0]
    /\ metered = [m \in Meter |-> [r \in Request |-> 0]]
    /\ chats = {}
    /\ recharge = [u \in User |-> "none"]
    /\ accepted = {}
    /\ dropped = {}
    /\ lost = {}
    /\ doubt = [r \in Request |-> 0]
    /\ refused = [u \in User |-> 0]

-----------------------------------------------------------------------------
(***************************************************************************)
(* The request path.                                                       *)
(***************************************************************************)

(* loadActiveCandidates: a counter at its limit takes its key out.         *)
HasQuota == \A m \in Meter : Limit[m] > 0 => used[m] < Limit[m]

(* ValidateApiKey, checkBalance and loadActiveCandidates let the request   *)
(* through to the provider.                                                *)
Admit(r) ==
    /\ stage[r] = "new"
    /\ key[UserOf[r]] = "on"
    /\ balance[UserOf[r]] > 0
    /\ HasQuota
    /\ stage' = [stage EXCEPT ![r] = "serving"]
    /\ UNCHANGED <<queue, workVars, recordVars, moneyVars, key, quotaVars,
                   chats, recharge, accepted, lossVars>>

(* The provider failed, or answered with neither usage nor text.           *)
NothingToSettle(r) ==
    /\ stage[r] = "serving"
    /\ stage' = [stage EXCEPT ![r] = "done"]
    /\ UNCHANGED <<queue, workVars, recordVars, moneyVars, key, quotaVars,
                   chats, recharge, accepted, lossVars>>

(* enqueueSettlement: LPUSH, whose error is only logged; the cost it       *)
(* returns, known unless the task is lazy, decides on updateQuotaSync.     *)
EnqueueSettlement(r) ==
    /\ stage[r] = "serving"
    /\ stage' = [stage EXCEPT ![r] = IF r \in Lazy \/ Cost[r] = 0
                                     THEN "done" ELSE "metering"]
    /\ \/ /\ queue' = Append(queue, [req |-> r, retry |-> 0, counted |-> FALSE])
          /\ accepted' = accepted \cup {r}
       \/ /\ "redis" \in Faults
          /\ UNCHANGED <<queue, accepted>>
    /\ UNCHANGED <<workVars, recordVars, moneyVars, key, quotaVars, chats,
                   recharge, lossVars>>

(* updateQuotaSync: one conditional UPDATE per counter, each of which may  *)
(* fail by itself; an increment beyond the limit is dropped.               *)
UpdateQuotaSync(r) ==
    \E ok \in SUBSET Meter :
        /\ ok = Meter \/ "db" \in Faults
        /\ LET done == {m \in ok : Limit[m] = 0 \/ used[m] + Cost[r] <= Limit[m]}
           IN  /\ used' = [m \in Meter |->
                     IF m \in done THEN used[m] + Cost[r] ELSE used[m]]
               /\ metered' = [m \in Meter |->
                     IF m \in done THEN [metered[m] EXCEPT ![r] = @ + 1]
                     ELSE metered[m]]

(* The request path counts the quota of a task whose cost it knows.        *)
SyncQuota(r) ==
    /\ stage[r] = "metering"
    /\ stage' = [stage EXCEPT ![r] = "done"]
    /\ UpdateQuotaSync(r)
    /\ UNCHANGED <<queue, workVars, recordVars, moneyVars, key, chats, recharge,
                   accepted, lossVars>>

-----------------------------------------------------------------------------
(***************************************************************************)
(* processSettlement.                                                      *)
(***************************************************************************)

Goto(w, place) == at' = [at EXCEPT ![w] = place]

(* The worker is through with its task.                                    *)
Finish(w) ==
    /\ Goto(w, "idle")
    /\ job' = [job EXCEPT ![w] = NoTask]

(* BRPOP hands over the oldest task.                                       *)
Dequeue(w) ==
    /\ at[w] = "idle"
    /\ queue # <<>>
    /\ queue' = Tail(queue)
    /\ LET t == Head(queue) IN
         /\ job' = [job EXCEPT ![w] = t]
         /\ Goto(w, IF t.req \in Lazy /\ ~ t.counted THEN "tokenize" ELSE "record")
    /\ UNCHANGED <<requestVars, recordVars, moneyVars, key, quotaVars, chats,
                   recharge, lossVars>>

(* Redis popped the task, but its reply never arrived: Dequeue returns an  *)
(* error and the worker sleeps and goes on.                                *)
DequeueFails(w) ==
    /\ "redis" \in Faults
    /\ at[w] = "idle"
    /\ queue # <<>>
    /\ queue' = Tail(queue)
    /\ lost' = lost \cup {Head(queue).req}
    /\ UNCHANGED <<workVars, requestVars, recordVars, moneyVars, key, quotaVars,
                   chats, recharge, dropped>>

(* Mutants of Requeue: the worker goes on with the task it has just pushed *)
(* back; it does not push it back; the retry count stays where it is, or   *)
(* is compared after the push.                                             *)
RequeueAndGoOn(w) ==
    /\ \/ /\ job[w].retry < MaxRetries
          /\ queue' = Append(queue, [job[w] EXCEPT !.retry = @ + 1])
          /\ Goto(w, "debit")
          /\ UNCHANGED <<job, lossVars>>
       \/ /\ job[w].retry = MaxRetries
          /\ dropped' = dropped \cup {Req(w)}
          /\ Finish(w)
          /\ UNCHANGED <<queue, lost>>

RequeueForgotten(w) ==
    /\ Finish(w)
    /\ UNCHANGED <<queue, lossVars>>

RequeueForever(w) ==
    /\ Finish(w)
    /\ queue' = Append(queue, job[w])
    /\ UNCHANGED lossVars

(* A failed task is pushed back with one more retry, and dropped when its  *)
(* retries are spent; the LPUSH may fail, too.                             *)
Requeue(w) ==
    /\ Finish(w)
    /\ \/ /\ job[w].retry < MaxRetries
          /\ queue' = Append(queue, [job[w] EXCEPT !.retry = @ + 1])
          /\ UNCHANGED lossVars
       \/ /\ job[w].retry < MaxRetries
          /\ "redis" \in Faults
          /\ lost' = lost \cup {Req(w)}
          /\ UNCHANGED <<queue, dropped>>
       \/ /\ job[w].retry = MaxRetries
          /\ dropped' = dropped \cup {Req(w)}
          /\ UNCHANGED <<queue, lost>>

(* Lazy tokenize: usage and cost are computed from the response text.      *)
CountTokens(w) ==
    /\ at[w] = "tokenize"
    /\ job' = [job EXCEPT ![w].counted = TRUE]
    /\ Goto(w, "record")
    /\ UNCHANGED <<requestVars, queue, recordVars, moneyVars, key, quotaVars,
                   chats, recharge, lossVars>>

TokenizeFails(w) ==
    /\ "tokenizer" \in Faults
    /\ at[w] = "tokenize"
    /\ Requeue(w)
    /\ UNCHANGED <<requestVars, recordVars, moneyVars, key, quotaVars, chats,
                   recharge>>

(* The transaction that inserts the usage record and the settlement record. *)
RecordUsage(w) ==
    /\ at[w] = "record"
    /\ usage' = [usage EXCEPT ![Req(w)] = @ + 1]
    /\ Goto(w, IF Cost[Req(w)] > 0 THEN "debit" ELSE "log")
    /\ UNCHANGED <<job, requestVars, queue, doubt, moneyVars, key, quotaVars,
                   chats, recharge, lossVars>>

(* It reports an error: rolled back, or committed without anyone knowing.  *)
RecordFails(w) ==
    /\ at[w] = "record"
    /\ Requeue(w)
    /\ \/ /\ "db" \in Faults
          /\ UNCHANGED recordVars
       \/ /\ "commit" \in Faults
          /\ usage' = [usage EXCEPT ![Req(w)] = @ + 1]
          /\ doubt' = [doubt EXCEPT ![Req(w)] = @ + 1]
    /\ UNCHANGED <<requestVars, moneyVars, key, quotaVars, chats, recharge>>

(* Mutant of AfterDebit: the worker counts the quota of every task.        *)
AfterDebitMeterAll(w) == "meter"

(* Only a lazy task still carries the response text.                       *)
AfterDebit(w) == IF Req(w) \in Lazy THEN "meter" ELSE "log"

TakeMoney(w) ==
    /\ balance' = [balance EXCEPT ![Payer(w)] = @ - Cost[Req(w)]]
    /\ debited' = [debited EXCEPT ![Req(w)] = @ + 1]

(* DebitAccount succeeds.                                                  *)
Debit(w) ==
    /\ at[w] = "debit"
    /\ balance[Payer(w)] >= Cost[Req(w)]
    /\ TakeMoney(w)
    /\ Goto(w, AfterDebit(w))
    /\ UNCHANGED <<job, requestVars, queue, recordVars, refused, key, quotaVars,
                   chats, recharge, lossVars>>

(* "insufficient balance".                                                 *)
DebitRefused(w) ==
    /\ at[w] = "debit"
    /\ balance[Payer(w)] < Cost[Req(w)]
    /\ refused' = [refused EXCEPT ![Payer(w)] = Cost[Req(w)]]
    /\ Goto(w, "disable")
    /\ UNCHANGED <<job, requestVars, queue, recordVars, balance, debited, key,
                   quotaVars, chats, recharge, lossVars>>

(* Mutant of DebitFails: a task whose debit failed is tried again.         *)
DebitFailsAndRetries(w) ==
    /\ at[w] = "debit"
    /\ Requeue(w)
    /\ \/ /\ "db" \in Faults
          /\ UNCHANGED <<balance, debited>>
       \/ /\ "commit" \in Faults
          /\ balance[Payer(w)] >= Cost[Req(w)]
          /\ TakeMoney(w)
    /\ UNCHANGED <<requestVars, recordVars, refused, key, quotaVars, chats,
                   recharge>>

(* DebitAccount reports another error (a version conflict, the database,   *)
(* the 30 s timeout); perhaps it did commit.                               *)
DebitFails(w) ==
    /\ at[w] = "debit"
    /\ \/ /\ "db" \in Faults
          /\ UNCHANGED <<balance, debited>>
       \/ /\ "commit" \in Faults
          /\ balance[Payer(w)] >= Cost[Req(w)]
          /\ TakeMoney(w)
    /\ Goto(w, "disable")
    /\ UNCHANGED <<job, requestVars, queue, recordVars, refused, key, quotaVars,
                   chats, recharge, lossVars>>

(* disableOverdraftKeys, whatever the error of DebitAccount was.           *)
DisableOverdraftKeys(w) ==
    /\ at[w] = "disable"
    /\ Goto(w, AfterDebit(w))
    /\ \/ key' = [key EXCEPT ![Payer(w)] = "overdraft"]
       \/ "db" \in Faults /\ UNCHANGED key
    /\ UNCHANGED <<job, requestVars, queue, recordVars, moneyVars, quotaVars,
                   chats, recharge, lossVars>>

(* A lazy task is counted by the worker.                                   *)
MeterLazy(w) ==
    /\ at[w] = "meter"
    /\ UpdateQuotaSync(Req(w))
    /\ Goto(w, "log")
    /\ UNCHANGED <<job, requestVars, queue, recordVars, moneyVars, key, chats,
                   recharge, lossVars>>

(* The chat log is best effort.                                            *)
SaveChatLog(w) ==
    /\ at[w] = "log"
    /\ Finish(w)
    /\ \/ chats' = chats \cup {Req(w)}
       \/ "db" \in Faults /\ UNCHANGED chats
    /\ UNCHANGED <<requestVars, queue, recordVars, moneyVars, key, quotaVars,
                   recharge, lossVars>>

-----------------------------------------------------------------------------
(***************************************************************************)
(* RechargeCredits, and the end of the process.                            *)
(***************************************************************************)

(* CreateRecharge commits.                                                 *)
CreditRecharge(u) ==
    /\ recharge[u] = "none"
    /\ balance' = [balance EXCEPT ![u] = @ + Recharge]
    /\ recharge' = [recharge EXCEPT ![u] = "credited"]
    /\ UNCHANGED <<requestVars, queue, workVars, recordVars, debited, refused,
                   key, quotaVars, chats, lossVars>>

(* RestoreOverdraftKeys; its error is logged, the recharge stands.         *)
RestoreOverdraftKeys(u) ==
    /\ recharge[u] = "credited"
    /\ recharge' = [recharge EXCEPT ![u] = "done"]
    /\ \/ key' = [key EXCEPT ![u] = IF balance[u] >= 0 THEN "on" ELSE @]
       \/ "db" \in Faults /\ UNCHANGED key
    /\ UNCHANGED <<requestVars, queue, workVars, recordVars, moneyVars,
                   quotaVars, chats, lossVars>>

(* The process stops, by a crash or because StopSettlementWorkers returns  *)
(* without waiting for the workers: what goroutines hold is gone, Redis    *)
(* and the database stay.                                                  *)
Crash ==
    /\ "crash" \in Faults
    /\ \/ \E w \in Worker : at[w] # "idle"
       \/ \E r \in Request : stage[r] \in {"serving", "metering"}
       \/ \E u \in User : recharge[u] = "credited"
    /\ at' = [w \in Worker |-> "idle"]
    /\ job' = [w \in Worker |-> NoTask]
    /\ stage' = [r \in Request |->
                    IF stage[r] = "new" THEN "new" ELSE "done"]
    /\ recharge' = [u \in User |->
                       IF recharge[u] = "none" THEN "none" ELSE "done"]
    /\ lost' = lost \cup {Req(w) : w \in {v \in Worker : at[v] # "idle"}}
    /\ UNCHANGED <<queue, recordVars, moneyVars, key, quotaVars, chats,
                   accepted, dropped>>

-----------------------------------------------------------------------------

RequestStep(r) ==
    \/ NothingToSettle(r)
    \/ EnqueueSettlement(r)
    \/ SyncQuota(r)

WorkerStep(w) ==
    \/ Dequeue(w)
    \/ DequeueFails(w)
    \/ CountTokens(w)
    \/ TokenizeFails(w)
    \/ RecordUsage(w)
    \/ RecordFails(w)
    \/ Debit(w)
    \/ DebitRefused(w)
    \/ DebitFails(w)
    \/ DisableOverdraftKeys(w)
    \/ MeterLazy(w)
    \/ SaveChatLog(w)

Next ==
    \/ \E r \in Request : Admit(r) \/ RequestStep(r)
    \/ \E w \in Worker : WorkerStep(w)
    \/ \E u \in User : CreditRecharge(u) \/ RestoreOverdraftKeys(u)
    \/ Crash

Spec == Init /\ [][Next]_vars

(* Workers loop for as long as the process runs; BRPOP serves each of      *)
(* them.  Which outcome a step has (success or a fault) is not assumed.    *)
FairSpec == Spec /\ \A w \in Worker : WF_vars(WorkerStep(w))

-----------------------------------------------------------------------------

(* Types of the request path, the queue, the workers and the tables.       *)
TypeOK ==
    /\ stage \in [Request -> {"new", "serving", "metering", "done"}]
    /\ queue \in Seq(Task)
    /\ at \in [Worker -> {"idle", "tokenize", "record", "debit", "disable",
                          "meter", "log"}]
    /\ job \in [Worker -> Task \cup {NoTask}]
    /\ \A w \in Worker : job[w] = NoTask <=> at[w] = "idle"
    /\ usage \in [Request -> Nat]
    /\ debited \in [Request -> Nat]
    /\ balance \in [User -> Nat]
    /\ key \in [User -> {"on", "overdraft"}]
    /\ used \in [Meter -> Nat]
    /\ metered \in [Meter -> [Request -> Nat]]
    /\ chats \subseteq Request
    /\ recharge \in [User -> {"none", "credited", "done"}]
    /\ accepted \subseteq Request
    /\ dropped \subseteq Request
    /\ lost \subseteq Request
    /\ doubt \in [Request -> Nat]
    /\ refused \in [User -> Nat]

Queued(r) == Cardinality({i \in DOMAIN queue : queue[i].req = r})

(* Workers that hold r and are at one of the places.                       *)
Holders(r, places) == {w \in Worker : Req(w) = r /\ at[w] \in places}

(* Workers that hold r and have not yet recorded it.                       *)
Unrecorded(r) == Cardinality(Holders(r, {"tokenize", "record"}))

(* A task is in one place: in the list, with one worker, or recorded.      *)
(* Retries by several workers never record a request twice, unless a       *)
(* commit went through whose worker was told that it had failed.           *)
RecordedOnce ==
    \A r \in Request : Queued(r) + Unrecorded(r) + usage[r] - doubt[r] <= 1

(* However often processSettlement is retried, and even if commits are     *)
(* misreported, a request is debited at most once, and never without a     *)
(* usage record that the debit refers to.                                  *)
ChargedOnce == \A r \in Request : debited[r] <= 1 /\ debited[r] <= usage[r]

(* A request counts towards each quota at most once, although both the     *)
(* request path and the worker call updateQuotaSync; and the counter is    *)
(* the cost of what it counted, within its limit.                          *)
MeteredOnce ==
    \A m \in Meter :
        /\ \A r \in Request : metered[m][r] <= 1
        /\ used[m] = Total(metered[m])
        /\ Limit[m] > 0 => used[m] <= Limit[m]

(* The task is in the list, with a worker or recorded.                     *)
Kept(r) == Queued(r) + Unrecorded(r) + usage[r] > 0

(* While Redis answers and the process runs no accepted task disappears,   *)
(* however its steps fail and whichever workers take it up again, until    *)
(* processSettlement gives it up after maxSettlementRetries.               *)
NoTaskForgotten == \A r \in accepted \ (dropped \cup lost) : Kept(r)

(* The same across restarts: the list survives them, so every accepted     *)
(* task that was not given up is kept.                                     *)
AcceptedTasksAreKept == \A r \in accepted \ dropped : Kept(r)

(* Every task the list holds is worked off: the retries of a failing task  *)
(* end, and they do not starve the tasks behind it.                        *)
EveryTaskLeaves == \A r \in Request : Queued(r) > 0 ~> Queued(r) + Unrecorded(r) = 0

(* Keys are off for overdraft only if a balance did not cover a debit.     *)
OverdraftMeansOverdrawn ==
    \A u \in User : key[u] = "overdraft" => refused[u] > 0

AtRest(u) ==
    /\ \A w \in Worker : at[w] # "idle" => Payer(w) # u
    /\ recharge[u] # "credited"

(* A consumer whose balance covers again what was refused has its keys     *)
(* back once the recharge and the workers are done.                        *)
RechargeRestoresKeys ==
    \A u \in User : AtRest(u) /\ key[u] = "overdraft" => balance[u] < refused[u]

-----------------------------------------------------------------------------
(* Where a request stands: it enters the list only from "serving", and the *)
(* request path counts the quota only of what is not lazy.                 *)
PathOK(r) ==
    /\ stage[r] \in {"new", "serving"} => Queued(r) + Unrecorded(r) + usage[r] = 0
    /\ stage[r] = "metering" => r \notin Lazy
    /\ r \notin Lazy /\ stage[r] # "done" => \A m \in Meter : metered[m][r] = 0

(* Each record of which its worker knows entitles to one debit and, if the *)
(* request is lazy, to one count of its quotas: by the worker that wrote   *)
(* it, while it is still on the way there.                                 *)
WorkOK(r) ==
    /\ doubt[r] <= usage[r]
    /\ debited[r] + Cardinality(Holders(r, {"debit"})) + doubt[r] <= usage[r]
    /\ r \in Lazy => \A m \in Meter :
          metered[m][r] + Cardinality(Holders(r, {"debit", "disable", "meter"})) + doubt[r]
              <= usage[r]
    /\ r \notin Lazy => Holders(r, {"meter"}) = {}

(* The inductive invariant of the settlement queue. *)
MeteredAtMostOnce == \A m \in Meter, r \in Request : metered[m][r] <= 1
QuotaKept == \A m \in Meter : Limit[m] > 0 => used[m] <= Limit[m]
CountersAddUp == \A m \in Meter : used[m] = Total(metered[m])
QueueInv ==
    /\ TypeOK /\ RecordedOnce /\ NoTaskForgotten /\ MeteredAtMostOnce /\ QuotaKept
    /\ \A r \in Request : PathOK(r) /\ WorkOK(r)

=============================================================================
