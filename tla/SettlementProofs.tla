--------------------------- MODULE SettlementProofs ---------------------------
(***************************************************************************)
(* The settlement queue's safety for any requests, consumers, workers,     *)
(* quotas, retries and faults: QueueInv is inductive.                      *)
(***************************************************************************)
EXTENDS SettlementQueue, FoldLemmas, FunctionTheorems

(* Counting workers is counting finite sets.                               *)
LEMMA HoldersAreFinite ==
  ASSUME NEW r, NEW places
  PROVE  /\ Holders(r, places) \in SUBSET Worker /\ IsFiniteSet(Holders(r, places))
         /\ Cardinality(Holders(r, places)) \in Nat
BY QueueAssumption, FS_Subset, FS_CardinalityType DEF Holders

(* When one worker moves, the count of holders changes by that worker.     *)
LEMMA CountChange ==
  ASSUME NEW A, NEW B, IsFiniteSet(A), IsFiniteSet(B), NEW w, A \ {w} = B \ {w}
  PROVE  Cardinality(B) + (IF w \in A THEN 1 ELSE 0)
           = Cardinality(A) + (IF w \in B THEN 1 ELSE 0)
<1>1. Cardinality(A \ {w}) = IF w \in A THEN Cardinality(A) - 1 ELSE Cardinality(A)
  BY FS_RemoveElement
<1>2. Cardinality(B \ {w}) = IF w \in B THEN Cardinality(B) - 1 ELSE Cardinality(B)
  BY FS_RemoveElement
<1>3. Cardinality(A) \in Nat /\ Cardinality(B) \in Nat
  BY FS_CardinalityType
<1>4. Cardinality(A \ {w}) = Cardinality(B \ {w})
  OBVIOUS
<1> QED
  BY <1>1, <1>2, <1>3, <1>4

(* So do the holders of r at some places.                                  *)
LEMMA HoldersChange ==
  ASSUME NEW w \in Worker, NEW r, NEW places,
         \A v \in Worker \ {w} : at'[v] = at[v] /\ job'[v] = job[v]
  PROVE  Cardinality(Holders(r, places)') + (IF w \in Holders(r, places) THEN 1 ELSE 0)
           = Cardinality(Holders(r, places)) + (IF w \in Holders(r, places)' THEN 1 ELSE 0)
<1>1. Holders(r, places) \ {w} = Holders(r, places)' \ {w}
  BY DEF Holders, Req
<1>2. IsFiniteSet(Holders(r, places)) /\ IsFiniteSet(Holders(r, places)')
  BY QueueAssumption, FS_Subset DEF Holders
<1> QED
  BY <1>1, <1>2, CountChange

(* Where the tasks of r are in the list.                                   *)
QueuedAt(r) == {i \in DOMAIN queue : queue[i].req = r}

(* They are finitely many.                                                 *)
LEMMA QueueIsFinite ==
  ASSUME NEW r, queue \in Seq(Task)
  PROVE  IsFiniteSet(QueuedAt(r)) /\ Cardinality(QueuedAt(r)) \in Nat
<1>1. QueuedAt(r) \in SUBSET (1 .. Len(queue)) /\ Len(queue) \in Nat
  BY DEF QueuedAt
<1>2. IsFiniteSet(1 .. Len(queue))
  BY <1>1, FS_Interval
<1> QED
  BY <1>1, <1>2, FS_Subset, FS_CardinalityType

(* An Append adds the task it pushes.                                      *)
LEMMA PushCounts ==
  ASSUME NEW r, NEW t \in Task, queue \in Seq(Task), queue' = Append(queue, t)
  PROVE  Queued(r)' = Queued(r) + (IF t.req = r THEN 1 ELSE 0) /\ queue' \in Seq(Task)
<1> DEFINE n == Len(queue) + 1
<1>1. /\ n \in Nat /\ DOMAIN queue = 1 .. n - 1 /\ DOMAIN queue' = 1 .. n
      /\ queue'[n] = t /\ \A i \in 1 .. n - 1 : queue'[i] = queue[i]
  OBVIOUS
<1> HIDE DEF n
<1>2. QueuedAt(r)' = QueuedAt(r) \cup (IF t.req = r THEN {n} ELSE {}) /\ n \notin QueuedAt(r)
  BY <1>1 DEF QueuedAt
<1>3. IsFiniteSet(QueuedAt(r)) /\ Cardinality(QueuedAt(r)) \in Nat
  BY QueueIsFinite
<1>4. Cardinality(QueuedAt(r)') = Cardinality(QueuedAt(r)) + (IF t.req = r THEN 1 ELSE 0)
  <2>1. CASE t.req = r
    BY <1>2, <1>3, <2>1, FS_AddElement
  <2>2. CASE t.req # r
    BY <1>2, <1>3, <2>2
  <2> QED
    BY <2>1, <2>2
<1>5. queue' \in Seq(Task)
  OBVIOUS
<1> QED
  BY <1>4, <1>5 DEF Queued, QueuedAt

(* A Tail takes the oldest task away.                                      *)
LEMMA PopCounts ==
  ASSUME NEW r, queue \in Seq(Task), queue # <<>>, queue' = Tail(queue)
  PROVE  /\ Queued(r) = Queued(r)' + (IF Head(queue).req = r THEN 1 ELSE 0)
         /\ queue' \in Seq(Task) /\ Head(queue) \in Task
<1> DEFINE n == Len(queue)
           Rest == {i \in 2 .. n : queue[i].req = r}
<1>1. /\ n \in Nat \ {0} /\ DOMAIN queue = 1 .. n /\ Len(queue') = n - 1
      /\ DOMAIN queue' = 1 .. n - 1 /\ \A i \in 1 .. n - 1 : queue'[i] = queue[i + 1]
      /\ queue' \in Seq(Task) /\ Head(queue) = queue[1] /\ Head(queue) \in Task
  OBVIOUS
<1>2. queue' \in Seq(Task)
  BY <1>1
<1>3. IsFiniteSet(QueuedAt(r)) /\ Cardinality(QueuedAt(r)) \in Nat
  BY QueueIsFinite
<1>4. QueuedAt(r)' = {i \in 1 .. n - 1 : queue[i + 1].req = r}
  BY <1>1 DEF QueuedAt
<1>5. QueuedAt(r) = Rest \cup (IF Head(queue).req = r THEN {1} ELSE {}) /\ 1 \notin Rest
  BY <1>1 DEF QueuedAt
<1> HIDE DEF n
<1>6. IsFiniteSet(Rest) /\ Cardinality(Rest) \in Nat
  <2>1. Rest \subseteq QueuedAt(r)
    BY <1>5
  <2> QED
    BY <1>3, <2>1, FS_Subset, FS_CardinalityType
<1>7. Cardinality(QueuedAt(r)) = Cardinality(Rest) + (IF Head(queue).req = r THEN 1 ELSE 0)
  <2>1. CASE Head(queue).req = r
    BY <1>5, <1>6, <2>1, FS_AddElement
  <2>2. CASE Head(queue).req # r
    BY <1>5, <1>6, <2>2
  <2> QED
    BY <2>1, <2>2
<1>8. Cardinality(QueuedAt(r)') = Cardinality(Rest)
  <2> DEFINE f == [i \in Rest |-> i - 1]
  <2>1. f \in [Rest -> QueuedAt(r)']
    BY <1>1, <1>4
  <2>2. \A i, j \in Rest : f[i] = f[j] => i = j
    BY <1>1
  <2>3. \A j \in QueuedAt(r)' : \E i \in Rest : f[i] = j
    <3> SUFFICES ASSUME NEW j \in QueuedAt(r)' PROVE j + 1 \in Rest /\ f[j + 1] = j
      OBVIOUS
    <3>1. j \in 1 .. n - 1 /\ queue[j + 1].req = r
      BY <1>4
    <3> QED
      BY <1>1, <3>1
  <2> HIDE DEF f, Rest
  <2>4. f \in Bijection(Rest, QueuedAt(r)')
    BY <2>1, <2>2, <2>3, Fun_IsBij
  <2> QED
    BY <1>6, <2>4, FS_Bijection DEF ExistsBijection
<1> QED
  BY <1>1, <1>7, <1>8 DEF Queued, QueuedAt

(* The same, in terms of where the worker is and which task it has.        *)
LEMMA WorkerCounts ==
  ASSUME NEW w \in Worker, NEW r, NEW places,
         \A v \in Worker \ {w} : at'[v] = at[v] /\ job'[v] = job[v]
  PROVE  /\ Cardinality(Holders(r, places)') \in Nat /\ Cardinality(Holders(r, places)) \in Nat
         /\ Cardinality(Holders(r, places)')
                + (IF Req(w) = r /\ at[w] \in places THEN 1 ELSE 0)
              = Cardinality(Holders(r, places))
                + (IF Req(w)' = r /\ at'[w] \in places THEN 1 ELSE 0)
<1>1. /\ w \in Holders(r, places) <=> Req(w) = r /\ at[w] \in places
      /\ w \in Holders(r, places)' <=> Req(w)' = r /\ at'[w] \in places
  BY DEF Holders
<1>2. Cardinality(Holders(r, places)') \in Nat /\ Cardinality(Holders(r, places)) \in Nat
  BY QueueAssumption, FS_Subset, FS_CardinalityType DEF Holders
<1> QED
  BY <1>1, <1>2, HoldersChange

(* What a step must do to the counts of a request for the invariant.       *)
Standing(r) == Queued(r) + Unrecorded(r) + usage[r]
Owing(r) == Cardinality(Holders(r, {"debit"}))
Uncounted(r) == Cardinality(Holders(r, {"debit", "disable", "meter"}))

Balanced(r) ==
    /\ Standing(r)' - doubt'[r] <= 1 /\ doubt'[r] <= usage'[r]
    /\ debited'[r] + Owing(r)' + doubt'[r] <= usage'[r]
    /\ r \in Lazy => \A m \in Meter : metered'[m][r] + Uncounted(r)' + doubt'[r] <= usage'[r]
    /\ r \notin Lazy => \A m \in Meter : metered'[m][r] <= 1
    /\ r \notin Lazy => Holders(r, {"meter"})' = {}
    /\ stage'[r] \in {"new", "serving"} => Standing(r)' = 0
    /\ stage'[r] = "metering" => r \notin Lazy
    /\ r \notin Lazy /\ stage'[r] # "done" => \A m \in Meter : metered'[m][r] = 0
    /\ r \in accepted' \ (dropped' \cup lost') => Standing(r)' > 0

(* The counts are numbers, now and after a step. *)
CountsAreNat ==
    \A r \in Request :
        /\ Queued(r) \in Nat /\ Unrecorded(r) \in Nat /\ usage[r] \in Nat
        /\ doubt[r] \in Nat /\ debited[r] \in Nat /\ \A m \in Meter : metered[m][r] \in Nat
        /\ Owing(r) \in Nat /\ Uncounted(r) \in Nat

(* The type invariant makes the counts natural numbers,                    *)
LEMMA TypesMakeNats == TypeOK => CountsAreNat
<1> SUFFICES ASSUME TypeOK, NEW r \in Request
             PROVE  /\ Queued(r) \in Nat /\ Unrecorded(r) \in Nat /\ usage[r] \in Nat
                    /\ doubt[r] \in Nat /\ debited[r] \in Nat
                    /\ \A m \in Meter : metered[m][r] \in Nat
                    /\ Owing(r) \in Nat /\ Uncounted(r) \in Nat
  BY DEF CountsAreNat
<1>1. Queued(r) \in Nat
  BY QueueIsFinite DEF TypeOK, Queued, QueuedAt
<1>2. Unrecorded(r) \in Nat /\ Owing(r) \in Nat /\ Uncounted(r) \in Nat
  BY HoldersAreFinite DEF Unrecorded, Owing, Uncounted
<1> QED
  BY <1>1, <1>2 DEF TypeOK

(* and so it does after a step.                                            *)
LEMMA TypesStayNats == TypeOK' => CountsAreNat'
BY TypesMakeNats, PTL

(* A state whose counts are balanced satisfies the invariant, and the      *)
(* invariant says that they are.                                           *)
LEMMA InvIsBalance ==
  ASSUME TypeOK', QuotaKept', \A r \in Request : Balanced(r)
  PROVE  QueueInv'
<1>1. CountsAreNat'
  BY TypesStayNats
<1>2. RecordedOnce'
  BY <1>1 DEF CountsAreNat, Balanced, RecordedOnce, Standing
<1>3. NoTaskForgotten'
  BY DEF TypeOK, Balanced, NoTaskForgotten, Standing, Kept
<1>4. MeteredAtMostOnce'
  <2> SUFFICES ASSUME NEW m \in Meter, NEW r \in Request PROVE metered'[m][r] <= 1
    BY DEF MeteredAtMostOnce
  <2>1. CASE r \in Lazy
    <3>1. metered'[m][r] + Uncounted(r)' + doubt'[r] <= usage'[r]
      BY <2>1 DEF Balanced
    <3> QED
      BY <1>1, <3>1 DEF CountsAreNat, Balanced, Standing
  <2>2. CASE r \notin Lazy
    BY <2>2 DEF Balanced
  <2> QED
    BY <2>1, <2>2
<1>5. ASSUME NEW r \in Request
      PROVE  PathOK(r)' /\ WorkOK(r)'
  BY <1>1 DEF PathOK, WorkOK, Balanced, Standing, Owing, Uncounted
<1> QED
  BY <1>2, <1>3, <1>4, <1>5 DEF QueueInv

(* The converse: what the invariant says of the counts of one request.     *)
LEMMA InvBalances ==
  ASSUME QueueInv, NEW r \in Request
  PROVE  /\ Standing(r) - doubt[r] <= 1 /\ doubt[r] <= usage[r]
         /\ debited[r] + Owing(r) + doubt[r] <= usage[r]
         /\ r \in Lazy => \A m \in Meter : metered[m][r] + Uncounted(r) + doubt[r] <= usage[r]
         /\ r \notin Lazy => \A m \in Meter : metered[m][r] <= 1
         /\ r \notin Lazy => Holders(r, {"meter"}) = {}
         /\ stage[r] \in {"new", "serving"} => Standing(r) = 0
         /\ stage[r] = "metering" => r \notin Lazy
         /\ r \notin Lazy /\ stage[r] # "done" => \A m \in Meter : metered[m][r] = 0
         /\ r \in accepted \ (dropped \cup lost) => Standing(r) > 0
<1>1. CountsAreNat
  BY TypesMakeNats DEF QueueInv
<1>2. PathOK(r) /\ WorkOK(r)
  BY DEF QueueInv
<1>3. Standing(r) - doubt[r] <= 1
  BY <1>1 DEF QueueInv, RecordedOnce, Standing, CountsAreNat
<1>5. r \in accepted \ (dropped \cup lost) => Standing(r) > 0
  BY DEF QueueInv, NoTaskForgotten, Kept, Standing
<1>4. r \notin Lazy => \A m \in Meter : metered[m][r] <= 1
  BY DEF QueueInv, MeteredAtMostOnce
<1> QED
  BY <1>2, <1>3, <1>4, <1>5 DEF PathOK, WorkOK, Standing, Owing, Uncounted

(* What a step does not touch stays balanced.                              *)
LEMMA UntouchedCounts ==
  ASSUME NEW r, UNCHANGED <<at, job>>
  PROVE  /\ Unrecorded(r)' = Unrecorded(r) /\ Owing(r)' = Owing(r)
         /\ Uncounted(r)' = Uncounted(r)
         /\ Holders(r, {"meter"})' = Holders(r, {"meter"})
BY DEF Unrecorded, Owing, Uncounted, Holders, Req

(* A step that moves no money, no task and no worker stays balanced if it  *)
(* takes requests only forward.                                            *)
LEMMA OnlyStageChanges ==
  ASSUME QueueInv, NEW r \in Request, UNCHANGED <<at, job, queue, accepted, dropped, lost>>,
         UNCHANGED <<usage, doubt, debited, metered>>,
         stage'[r] # stage[r] =>
             stage'[r] = "done" \/ (stage[r] = "new" /\ stage'[r] = "serving")
  PROVE  Balanced(r)
<1>1. Standing(r)' = Standing(r)
  BY UntouchedCounts DEF Standing, Queued
<1> QED
  BY <1>1, UntouchedCounts, InvBalances DEF Balanced

(* A request that is admitted has left no trace yet.                       *)
LEMMA AdmitKeepsInv ==
  ASSUME QueueInv, NEW r \in Request, Admit(r)
  PROVE  QueueInv'
<1>1. TypeOK' /\ QuotaKept'
  BY DEF QueueInv, TypeOK, QuotaKept, Admit, workVars, recordVars, moneyVars, quotaVars, lossVars
<1>2. ASSUME NEW q \in Request PROVE Balanced(q)
  <2>1. /\ UNCHANGED <<at, job, queue, accepted, dropped, lost>>
        /\ UNCHANGED <<usage, doubt, debited, metered>>
    BY DEF Admit, workVars, recordVars, moneyVars, quotaVars, lossVars
  <2>2. stage'[q] # stage[q] => stage[q] = "new" /\ stage'[q] = "serving"
    BY DEF Admit, QueueInv, TypeOK
  <2> QED
    BY <2>1, <2>2, OnlyStageChanges
<1> QED
  BY <1>1, <1>2, InvIsBalance

(* A request that needs no task never gets one.                            *)
LEMMA NothingToSettleKeepsInv ==
  ASSUME QueueInv, NEW r \in Request, NothingToSettle(r)
  PROVE  QueueInv'
<1>1. TypeOK' /\ QuotaKept'
  BY DEF QueueInv, TypeOK, QuotaKept, NothingToSettle, workVars, recordVars, moneyVars,
         quotaVars, lossVars
<1>2. ASSUME NEW q \in Request PROVE Balanced(q)
  <2>1. /\ UNCHANGED <<at, job, queue, accepted, dropped, lost>>
        /\ UNCHANGED <<usage, doubt, debited, metered>>
    BY DEF NothingToSettle, workVars, recordVars, moneyVars, quotaVars, lossVars
  <2>2. stage'[q] # stage[q] => stage'[q] = "done"
    BY DEF NothingToSettle, QueueInv, TypeOK
  <2> QED
    BY <2>1, <2>2, OnlyStageChanges
<1> QED
  BY <1>1, <1>2, InvIsBalance

(* The first push of a task: until then nothing of it was anywhere.        *)
LEMMA EnqueueKeepsInv ==
  ASSUME QueueInv, NEW r \in Request, EnqueueSettlement(r)
  PROVE  QueueInv'
<1> DEFINE t == [req |-> r, retry |-> 0, counted |-> FALSE]
<1>1. /\ UNCHANGED <<at, job, dropped, lost, usage, doubt, debited, metered, used>>
      /\ UNCHANGED <<balance, refused, key, chats, recharge>>
      /\ stage[r] = "serving"
      /\ stage' = [stage EXCEPT ![r] = IF r \in Lazy \/ Cost[r] = 0 THEN "done" ELSE "metering"]
      /\ \/ queue' = Append(queue, t) /\ accepted' = accepted \cup {r}
         \/ queue' = queue /\ accepted' = accepted
  BY DEF EnqueueSettlement, workVars, recordVars, moneyVars, quotaVars, lossVars
<1>2. t \in Task /\ t.req = r
  BY QueueAssumption DEF Task
<1> HIDE DEF t
<1>3. queue \in Seq(Task) /\ queue' \in Seq(Task)
  <2>1. queue \in Seq(Task)
    BY DEF QueueInv, TypeOK
  <2> QED
    BY <1>1, <1>2, <2>1
<1>4. TypeOK'
  BY <1>1, <1>3 DEF QueueInv, TypeOK
<1>5. QuotaKept'
  BY <1>1 DEF QueueInv, QuotaKept
<1>6. ASSUME NEW q \in Request PROVE Balanced(q)
  <2>1. CountsAreNat
    BY TypesMakeNats DEF QueueInv
  <2>2. CASE queue' = queue /\ accepted' = accepted
    <3>1. Standing(q)' = Standing(q)
      BY <1>1, <2>2, UntouchedCounts DEF Standing, Queued
    <3>2. stage'[q] = IF q # r THEN stage[q]
                      ELSE IF r \in Lazy \/ Cost[r] = 0 THEN "done" ELSE "metering"
      BY <1>1 DEF QueueInv, TypeOK
    <3>3. q = r => stage[q] = "serving"
      BY <1>1
    <3> QED
      BY <1>1, <2>2, <3>1, <3>2, <3>3, UntouchedCounts, InvBalances DEF Balanced
  <2>3. CASE queue' = Append(queue, t) /\ accepted' = accepted \cup {r}
    <3>1. Queued(q)' = Queued(q) + (IF q = r THEN 1 ELSE 0)
      BY <1>2, <1>3, <2>3, PushCounts
    <3>2. Standing(q)' = Standing(q) + (IF q = r THEN 1 ELSE 0)
      BY <1>1, <2>1, <3>1, UntouchedCounts DEF Standing, CountsAreNat
    <3>3. CASE q = r
      <4>1. Standing(q) = 0 /\ stage[q] = "serving"
        BY <1>1, <3>3, InvBalances
      <4>2. stage'[q] \in {"done", "metering"} /\ (q \in Lazy => stage'[q] = "done")
        BY <1>1, <3>3 DEF QueueInv, TypeOK
      <4>3. usage[q] = 0 /\ doubt[q] = 0 /\ Standing(q)' = 1
        <5>1. Queued(q) + Unrecorded(q) + usage[q] = 0 /\ Standing(q)' = 1
          BY <3>2, <3>3, <4>1 DEF Standing
        <5>2. doubt[q] <= usage[q]
          BY InvBalances
        <5> QED
          BY <2>1, <5>1, <5>2 DEF CountsAreNat
      <4> QED
        BY <1>1, <4>1, <4>2, <4>3, UntouchedCounts, InvBalances DEF Balanced
    <3>4. CASE q # r
      <4>1. stage'[q] = stage[q] /\ Standing(q)' = Standing(q)
        BY <1>1, <2>1, <3>2, <3>4 DEF QueueInv, TypeOK, Standing, CountsAreNat
      <4> QED
        BY <1>1, <2>3, <3>4, <4>1, UntouchedCounts, InvBalances DEF Balanced
    <3> QED
      BY <3>3, <3>4
  <2> QED
    BY <1>1, <2>2, <2>3
<1> QED
  BY <1>4, <1>5, <1>6, InvIsBalance

(* Quotas are counted within their limits, each at most once by one call.  *)
LEMMA QuotaIsCounted ==
  ASSUME QueueInv, NEW r \in Request, UpdateQuotaSync(r)
  PROVE  /\ used' \in [Meter -> Nat] /\ metered' \in [Meter -> [Request -> Nat]] /\ QuotaKept'
         /\ \A m \in Meter, q \in Request :
               /\ metered'[m][q] \in {metered[m][q], metered[m][q] + 1}
               /\ q # r => metered'[m][q] = metered[m][q]
<1>1. PICK done \in SUBSET Meter :
        /\ \A m \in done : Limit[m] = 0 \/ used[m] + Cost[r] <= Limit[m]
        /\ used' = [m \in Meter |-> IF m \in done THEN used[m] + Cost[r] ELSE used[m]]
        /\ metered' = [m \in Meter |->
               IF m \in done THEN [metered[m] EXCEPT ![r] = @ + 1] ELSE metered[m]]
  <2>1. PICK ok \in SUBSET Meter :
          LET done == {m \in ok : Limit[m] = 0 \/ used[m] + Cost[r] <= Limit[m]}
          IN  /\ used' = [m \in Meter |-> IF m \in done THEN used[m] + Cost[r] ELSE used[m]]
              /\ metered' = [m \in Meter |->
                    IF m \in done THEN [metered[m] EXCEPT ![r] = @ + 1] ELSE metered[m]]
    BY DEF UpdateQuotaSync
  <2>2. WITNESS {m \in ok : Limit[m] = 0 \/ used[m] + Cost[r] <= Limit[m]} \in SUBSET Meter
  <2> QED
    BY <2>1
<1>2. /\ used \in [Meter -> Nat] /\ metered \in [Meter -> [Request -> Nat]]
      /\ Cost[r] \in Nat /\ Limit \in [Meter -> Nat]
  BY QueueAssumption DEF QueueInv, TypeOK
<1>3. used' \in [Meter -> Nat] /\ metered' \in [Meter -> [Request -> Nat]]
  BY <1>1, <1>2
<1>4. ASSUME NEW m \in Meter, Limit[m] > 0 PROVE used'[m] <= Limit[m]
  <2>1. used[m] <= Limit[m]
    BY <1>4 DEF QueueInv, QuotaKept
  <2>2. CASE m \in done
    BY <1>1, <1>2, <1>4, <2>2
  <2>3. CASE m \notin done
    BY <1>1, <2>1, <2>3
  <2> QED
    BY <2>2, <2>3
<1>5. ASSUME NEW m \in Meter, NEW q \in Request
      PROVE  /\ metered'[m][q] \in {metered[m][q], metered[m][q] + 1}
             /\ q # r => metered'[m][q] = metered[m][q]
  <2>1. metered[m] \in [Request -> Nat]
    BY <1>2
  <2>2. metered'[m] = [metered[m] EXCEPT ![r] = metered[m][r] + 1] \/ metered'[m] = metered[m]
    BY <1>1
  <2> QED
    BY <2>1, <2>2
<1> QED
  BY <1>3, <1>4, <1>5 DEF QuotaKept

(* The request path counts what is not lazy, once.                         *)
LEMMA SyncQuotaKeepsInv ==
  ASSUME QueueInv, NEW r \in Request, SyncQuota(r)
  PROVE  QueueInv'
<1>1. /\ UNCHANGED <<at, job, queue, accepted, dropped, lost, usage, doubt, debited>>
      /\ UNCHANGED <<balance, refused, key, chats, recharge>>
      /\ stage[r] = "metering" /\ stage' = [stage EXCEPT ![r] = "done"]
      /\ UpdateQuotaSync(r)
  BY DEF SyncQuota, workVars, recordVars, moneyVars, lossVars
<1>2. TypeOK' /\ QuotaKept'
  BY <1>1, QuotaIsCounted DEF QueueInv, TypeOK
<1>3. ASSUME NEW q \in Request PROVE Balanced(q)
  <2>1. Standing(q)' = Standing(q)
    BY <1>1, UntouchedCounts DEF Standing, Queued
  <2>2. stage'[q] = IF q = r THEN "done" ELSE stage[q]
    BY <1>1 DEF QueueInv, TypeOK
  <2>3. \A m \in Meter : metered'[m][q] # metered[m][q] =>
           q = r /\ r \notin Lazy /\ metered[m][q] = 0 /\ metered'[m][q] = 1
    <3>1. r \notin Lazy /\ \A m \in Meter : metered[m][r] = 0
      BY <1>1, InvBalances
    <3> QED
      BY <1>1, <3>1, QuotaIsCounted
  <2>4. q \in Lazy => \A m \in Meter : metered'[m][q] = metered[m][q]
    BY <2>3
  <2>5. q \notin Lazy => \A m \in Meter : metered'[m][q] <= 1
    BY <2>3, InvBalances
  <2>6. q \notin Lazy /\ stage'[q] # "done" => \A m \in Meter : metered'[m][q] = 0
    BY <2>2, <2>3, InvBalances
  <2> QED
    BY <1>1, <2>1, <2>2, <2>4, <2>5, <2>6, UntouchedCounts, InvBalances DEF Balanced
<1> QED
  BY <1>2, <1>3, InvIsBalance

(* How the counts of a request change when one worker moves.               *)
Was(w, r, places) == IF Req(w) = r /\ at[w] \in places THEN 1 ELSE 0
Is(w, r, places) == IF Req(w)' = r /\ at'[w] \in places THEN 1 ELSE 0
OnlyMoves(w) == \A v \in Worker \ {w} : at'[v] = at[v] /\ job'[v] = job[v]

(* The counts follow a worker from place to place.                         *)
LEMMA WorkerMoves ==
  ASSUME QueueInv, TypeOK', NEW w \in Worker, OnlyMoves(w), NEW r \in Request,
         at'[w] = "meter" => Req(w)' \in Lazy
  PROVE  /\ CountsAreNat /\ CountsAreNat'
         /\ Unrecorded(r)' + Was(w, r, {"tokenize", "record"})
              = Unrecorded(r) + Is(w, r, {"tokenize", "record"})
         /\ Owing(r)' + Was(w, r, {"debit"}) = Owing(r) + Is(w, r, {"debit"})
         /\ Uncounted(r)' + Was(w, r, {"debit", "disable", "meter"})
              = Uncounted(r) + Is(w, r, {"debit", "disable", "meter"})
         /\ r \notin Lazy => Holders(r, {"meter"})' = {}
<1>1. CountsAreNat /\ CountsAreNat'
  BY TypesMakeNats, TypesStayNats DEF QueueInv
<1>2. /\ Unrecorded(r)' + Was(w, r, {"tokenize", "record"})
           = Unrecorded(r) + Is(w, r, {"tokenize", "record"})
      /\ Owing(r)' + Was(w, r, {"debit"}) = Owing(r) + Is(w, r, {"debit"})
      /\ Uncounted(r)' + Was(w, r, {"debit", "disable", "meter"})
           = Uncounted(r) + Is(w, r, {"debit", "disable", "meter"})
  BY WorkerCounts DEF OnlyMoves, Was, Is, Unrecorded, Owing, Uncounted
<1>3. ASSUME r \notin Lazy, NEW v \in Holders(r, {"meter"})' PROVE FALSE
  <2>1. v \in Worker /\ Req(v)' = r /\ at'[v] = "meter"
    BY DEF Holders
  <2>2. v # w
    BY <1>3, <2>1
  <2>3. v \in Holders(r, {"meter"})
    BY <2>1, <2>2 DEF Holders, OnlyMoves, Req
  <2> QED
    BY <1>3, <2>3, InvBalances
<1> QED
  BY <1>1, <1>2, <1>3

(* Where a worker goes with a task, or without one, the types are kept.    *)
Place == {"idle", "tokenize", "record", "debit", "disable", "meter", "log"}
WorkersOK ==
    /\ at \in [Worker -> Place] /\ job \in [Worker -> Task \cup {NoTask}]
    /\ \A w \in Worker : job[w] = NoTask <=> at[w] = "idle"

(* A worker at a place has a task.                                         *)
LEMMA WorkerGoes ==
  ASSUME QueueInv, NEW w \in Worker, NEW place \in Place \ {"idle"}, NEW t \in Task,
         Goto(w, place), job' = [job EXCEPT ![w] = t] \/ (job' = job /\ t = job[w])
  PROVE  WorkersOK' /\ OnlyMoves(w) /\ at'[w] = place /\ job'[w] = t /\ Req(w)' = t.req
<1>1. at \in [Worker -> Place] /\ job \in [Worker -> Task \cup {NoTask}]
  BY DEF QueueInv, TypeOK, Place
<1>2. t # NoTask
  BY QueueAssumption DEF NoTask, Task
<1>3. at' \in [Worker -> Place] /\ at'[w] = place /\ \A v \in Worker \ {w} : at'[v] = at[v]
  BY <1>1 DEF Goto
<1>4. /\ job' \in [Worker -> Task \cup {NoTask}] /\ job'[w] = t
      /\ \A v \in Worker \ {w} : job'[v] = job[v]
  BY <1>1
<1>5. ASSUME NEW v \in Worker PROVE job'[v] = NoTask <=> at'[v] = "idle"
  <2>1. CASE v = w
    BY <1>2, <1>3, <1>4, <2>1
  <2>2. CASE v # w
    BY <1>3, <1>4, <2>2 DEF QueueInv, TypeOK
  <2> QED
    BY <2>1, <2>2
<1> QED
  BY <1>3, <1>4, <1>5 DEF WorkersOK, OnlyMoves, Req

(* A worker that has finished has none.                                    *)
LEMMA WorkerLeaves ==
  ASSUME QueueInv, NEW w \in Worker, Finish(w)
  PROVE  WorkersOK' /\ OnlyMoves(w) /\ at'[w] = "idle"
<1>1. at \in [Worker -> Place] /\ job \in [Worker -> Task \cup {NoTask}]
  BY DEF QueueInv, TypeOK, Place
<1>2. at' = [at EXCEPT ![w] = "idle"] /\ job' = [job EXCEPT ![w] = NoTask]
  BY DEF Finish, Goto
<1>3. /\ at' \in [Worker -> Place] /\ at'[w] = "idle" /\ job'[w] = NoTask
      /\ job' \in [Worker -> Task \cup {NoTask}]
  BY <1>1, <1>2 DEF Place
<1>4. \A v \in Worker \ {w} : at'[v] = at[v] /\ job'[v] = job[v]
  BY <1>1, <1>2
<1>5. \A v \in Worker : job'[v] = NoTask <=> at'[v] = "idle"
  BY <1>3, <1>4 DEF QueueInv, TypeOK
<1> QED
  BY <1>3, <1>4, <1>5 DEF WorkersOK, OnlyMoves

(* What a busy worker works on.                                            *)
LEMMA WorkerHasTask ==
  ASSUME QueueInv, NEW w \in Worker, at[w] # "idle"
  PROVE  /\ job[w] \in Task /\ job[w] # NoTask /\ Req(w) \in Request /\ Payer(w) \in User
         /\ Cost[Req(w)] \in Nat /\ job[w].retry \in 0 .. MaxRetries
<1>1. job[w] \in Task /\ job[w] # NoTask
  BY DEF QueueInv, TypeOK
<1>2. Req(w) \in Request /\ job[w].retry \in 0 .. MaxRetries
  BY <1>1 DEF Req, Task
<1> QED
  BY <1>1, <1>2, QueueAssumption DEF Payer

(* A worker that only moves on, or counts tokens, keeps every balance.     *)
LEMMA WorkerMovesOn ==
  ASSUME QueueInv, NEW w \in Worker, NEW place \in Place \ {"idle"}, NEW t \in Task,
         at[w] # "idle", t.req = Req(w),
         Goto(w, place), job' = [job EXCEPT ![w] = t] \/ (job' = job /\ t = job[w]),
         place \in {"tokenize", "record"} <=> at[w] \in {"tokenize", "record"},
         place = "debit" => at[w] = "debit",
         place \in {"debit", "disable", "meter"} => at[w] \in {"debit", "disable", "meter"},
         place = "meter" => Req(w) \in Lazy,
         UNCHANGED <<stage, queue, accepted, dropped, lost, usage, doubt, debited, balance>>,
         UNCHANGED <<chats, recharge, used, metered>>,
         key' \in [User -> {"on", "overdraft"}], refused' \in [User -> Nat]
  PROVE  QueueInv'
<1>1. WorkersOK' /\ OnlyMoves(w) /\ at'[w] = place /\ Req(w)' = Req(w)
  BY WorkerGoes
<1>2. TypeOK'
  BY <1>1 DEF QueueInv, TypeOK, WorkersOK, Place
<1>3. ASSUME NEW q \in Request PROVE Balanced(q)
  <2>1. /\ CountsAreNat /\ CountsAreNat'
        /\ Unrecorded(q)' = Unrecorded(q) /\ Owing(q)' <= Owing(q)
        /\ Uncounted(q)' <= Uncounted(q) /\ (q \notin Lazy => Holders(q, {"meter"})' = {})
    BY <1>1, <1>2, WorkerMoves DEF Was, Is, CountsAreNat
  <2>2. Standing(q)' = Standing(q)
    BY <2>1 DEF Standing, Queued
  <2>3. debited[q] + Owing(q)' + doubt[q] <= usage[q]
    BY <2>1, InvBalances DEF CountsAreNat
  <2>4. q \in Lazy => \A m \in Meter : metered[m][q] + Uncounted(q)' + doubt[q] <= usage[q]
    BY <2>1, InvBalances DEF CountsAreNat
  <2> QED
    BY <2>1, <2>2, <2>3, <2>4, InvBalances DEF Balanced
<1>4. QuotaKept'
  BY DEF QueueInv, QuotaKept
<1> QED
  BY <1>2, <1>3, <1>4, InvIsBalance

(* Counting the tokens leads to the record.                                *)
LEMMA CountTokensKeepsInv ==
  ASSUME QueueInv, NEW w \in Worker, CountTokens(w)
  PROVE  QueueInv'
<1> DEFINE t == [job[w] EXCEPT !.counted = TRUE]
<1>1. /\ UNCHANGED <<stage, queue, accepted, dropped, lost, usage, doubt, debited, balance>>
      /\ UNCHANGED <<chats, recharge, used, metered>> /\ UNCHANGED <<key, refused>>
      /\ at[w] = "tokenize" /\ Goto(w, "record")
      /\ job' = [job EXCEPT ![w] = t]
  BY DEF CountTokens, requestVars, recordVars, moneyVars, quotaVars, lossVars
<1>2. t \in Task /\ t.req = Req(w)
  BY <1>1, WorkerHasTask DEF Task, Req
<1>3. key \in [User -> {"on", "overdraft"}] /\ refused \in [User -> Nat]
  BY DEF QueueInv, TypeOK
<1> HIDE DEF t
<1> QED
  BY <1>1, <1>2, <1>3, WorkerMovesOn DEF Place

(* A refused debit takes no money.                                         *)
LEMMA DebitRefusedKeepsInv ==
  ASSUME QueueInv, NEW w \in Worker, DebitRefused(w)
  PROVE  QueueInv'
<1>1. /\ UNCHANGED <<stage, queue, accepted, dropped, lost, usage, doubt, debited, balance>>
      /\ UNCHANGED <<chats, recharge, used, metered>> /\ UNCHANGED <<key, job>>
      /\ at[w] = "debit" /\ Goto(w, "disable")
      /\ refused' = [refused EXCEPT ![Payer(w)] = Cost[Req(w)]]
  BY DEF DebitRefused, requestVars, recordVars, quotaVars, lossVars
<1>2. job[w] \in Task /\ job[w].req = Req(w) /\ Payer(w) \in User /\ Cost[Req(w)] \in Nat
  BY <1>1, WorkerHasTask DEF Req
<1>3. key \in [User -> {"on", "overdraft"}] /\ refused' \in [User -> Nat]
  BY <1>1, <1>2 DEF QueueInv, TypeOK
<1> QED
  BY <1>1, <1>2, <1>3, WorkerMovesOn DEF Place

(* Keys are disabled whatever became of the money.                         *)
LEMMA DisableOverdraftKeysKeepsInv ==
  ASSUME QueueInv, NEW w \in Worker, DisableOverdraftKeys(w)
  PROVE  QueueInv'
<1>1. /\ UNCHANGED <<stage, queue, accepted, dropped, lost, usage, doubt, debited, balance>>
      /\ UNCHANGED <<chats, recharge, used, metered>> /\ UNCHANGED <<refused, job>>
      /\ at[w] = "disable" /\ Goto(w, AfterDebit(w))
      /\ key' = [key EXCEPT ![Payer(w)] = "overdraft"] \/ key' = key
  BY DEF DisableOverdraftKeys, requestVars, recordVars, moneyVars, quotaVars, lossVars
<1>2. job[w] \in Task /\ job[w].req = Req(w) /\ Payer(w) \in User
  BY <1>1, WorkerHasTask DEF Req
<1>3. key' \in [User -> {"on", "overdraft"}] /\ refused \in [User -> Nat]
  BY <1>1, <1>2 DEF QueueInv, TypeOK
<1>4. AfterDebit(w) \in {"meter", "log"} /\ (AfterDebit(w) = "meter" => Req(w) \in Lazy)
  BY DEF AfterDebit
<1> QED
  BY <1>1, <1>2, <1>3, <1>4, WorkerMovesOn DEF Place

(* The worker is done, whether the chat log is written or not.             *)
LEMMA SaveChatLogKeepsInv ==
  ASSUME QueueInv, NEW w \in Worker, SaveChatLog(w)
  PROVE  QueueInv'
<1>1. /\ UNCHANGED <<stage, queue, accepted, dropped, lost, usage, doubt, debited, balance>>
      /\ UNCHANGED <<refused, key, recharge, used, metered>>
      /\ at[w] = "log" /\ Finish(w) /\ (chats' = chats \cup {Req(w)} \/ chats' = chats)
  BY DEF SaveChatLog, requestVars, recordVars, moneyVars, quotaVars, lossVars
<1>2. WorkersOK' /\ OnlyMoves(w) /\ at'[w] = "idle" /\ Req(w) \in Request
  BY <1>1, WorkerLeaves, WorkerHasTask
<1>3. TypeOK'
  BY <1>1, <1>2 DEF QueueInv, TypeOK, WorkersOK, Place
<1>4. ASSUME NEW q \in Request PROVE Balanced(q)
  <2>1. /\ Unrecorded(q)' = Unrecorded(q) /\ Owing(q)' = Owing(q)
        /\ Uncounted(q)' = Uncounted(q) /\ (q \notin Lazy => Holders(q, {"meter"})' = {})
    BY <1>1, <1>2, <1>3, WorkerMoves DEF Was, Is, CountsAreNat
  <2>2. Standing(q)' = Standing(q)
    BY <1>1, <2>1 DEF Standing, Queued
  <2> QED
    BY <1>1, <2>1, <2>2, InvBalances DEF Balanced
<1>5. QuotaKept'
  BY <1>1 DEF QueueInv, QuotaKept
<1> QED
  BY <1>3, <1>4, <1>5, InvIsBalance

(* A debit that commits is paid for by the record its worker wrote.        *)
LEMMA MoneyTaken ==
  ASSUME QueueInv, NEW w \in Worker, NEW place \in {"disable", "meter", "log"},
         at[w] = "debit", Goto(w, place), place = "meter" => Req(w) \in Lazy,
         balance[Payer(w)] >= Cost[Req(w)], TakeMoney(w),
         UNCHANGED <<job, stage, queue, accepted, dropped, lost, usage, doubt, refused>>,
         UNCHANGED <<key, chats, recharge, used, metered>>
  PROVE  QueueInv'
<1>1. /\ job[w] \in Task /\ job[w].req = Req(w) /\ Req(w) \in Request /\ Payer(w) \in User
      /\ Cost[Req(w)] \in Nat
  BY WorkerHasTask DEF Req
<1>2. WorkersOK' /\ OnlyMoves(w) /\ at'[w] = place /\ Req(w)' = Req(w)
  BY <1>1, WorkerGoes DEF Place
<1>3. balance' \in [User -> Nat] /\ debited' \in [Request -> Nat]
  BY <1>1 DEF TakeMoney, QueueInv, TypeOK
<1>4. TypeOK'
  BY <1>2, <1>3 DEF QueueInv, TypeOK, WorkersOK, Place
<1>5. ASSUME NEW q \in Request PROVE Balanced(q)
  <2>1. /\ CountsAreNat /\ CountsAreNat'
        /\ Unrecorded(q)' = Unrecorded(q) /\ Uncounted(q)' <= Uncounted(q)
        /\ Owing(q)' + (IF Req(w) = q THEN 1 ELSE 0) = Owing(q)
        /\ (q \notin Lazy => Holders(q, {"meter"})' = {})
    BY <1>2, <1>4, WorkerMoves DEF Was, Is, CountsAreNat
  <2>2. debited'[q] = debited[q] + (IF Req(w) = q THEN 1 ELSE 0)
    BY <1>1 DEF TakeMoney, QueueInv, TypeOK
  <2>3. Standing(q)' = Standing(q)
    BY <2>1 DEF Standing, Queued
  <2>4. debited'[q] + Owing(q)' + doubt[q] <= usage[q]
    BY <2>1, <2>2, InvBalances DEF CountsAreNat
  <2>5. q \in Lazy => \A m \in Meter : metered[m][q] + Uncounted(q)' + doubt[q] <= usage[q]
    BY <2>1, InvBalances DEF CountsAreNat
  <2> QED
    BY <2>1, <2>3, <2>4, <2>5, InvBalances DEF Balanced
<1>6. QuotaKept'
  BY DEF QueueInv, QuotaKept
<1> QED
  BY <1>4, <1>5, <1>6, InvIsBalance

(* A debit that is confirmed,                                              *)
LEMMA DebitKeepsInv ==
  ASSUME QueueInv, NEW w \in Worker, Debit(w)
  PROVE  QueueInv'
<1>1. AfterDebit(w) \in {"disable", "meter", "log"} /\ (AfterDebit(w) = "meter" => Req(w) \in Lazy)
  BY DEF AfterDebit
<1> QED
  BY <1>1, MoneyTaken DEF Debit, requestVars, recordVars, quotaVars, lossVars

(* and one whose answer is lost, which has taken the money or not.         *)
LEMMA DebitFailsKeepsInv ==
  ASSUME QueueInv, NEW w \in Worker, DebitFails(w)
  PROVE  QueueInv'
<1>1. /\ UNCHANGED <<job, stage, queue, accepted, dropped, lost, usage, doubt, refused>>
      /\ UNCHANGED <<key, chats, recharge, used, metered>>
      /\ at[w] = "debit" /\ Goto(w, "disable")
  BY DEF DebitFails, requestVars, recordVars, quotaVars, lossVars
<1>2. CASE UNCHANGED <<balance, debited>>
  <2>1. job[w] \in Task /\ job[w].req = Req(w)
    BY <1>1, WorkerHasTask DEF Req
  <2>2. key \in [User -> {"on", "overdraft"}] /\ refused \in [User -> Nat]
    BY DEF QueueInv, TypeOK
  <2> QED
    BY <1>1, <1>2, <2>1, <2>2, WorkerMovesOn DEF Place
<1>3. CASE balance[Payer(w)] >= Cost[Req(w)] /\ TakeMoney(w)
  BY <1>1, <1>3, MoneyTaken
<1> QED
  BY <1>2, <1>3 DEF DebitFails

(* A lazy task is counted by the worker that recorded it.                  *)
LEMMA MeterLazyKeepsInv ==
  ASSUME QueueInv, NEW w \in Worker, MeterLazy(w)
  PROVE  QueueInv'
<1>1. /\ UNCHANGED <<job, stage, queue, accepted, dropped, lost, usage, doubt, debited>>
      /\ UNCHANGED <<balance, refused, key, chats, recharge>>
      /\ at[w] = "meter" /\ Goto(w, "log") /\ UpdateQuotaSync(Req(w))
  BY DEF MeterLazy, requestVars, recordVars, moneyVars, lossVars
<1>2. job[w] \in Task /\ job[w].req = Req(w) /\ Req(w) \in Request
  BY <1>1, WorkerHasTask DEF Req
<1>3. WorkersOK' /\ OnlyMoves(w) /\ at'[w] = "log" /\ Req(w)' = Req(w)
  BY <1>1, <1>2, WorkerGoes DEF Place
<1>4. Req(w) \in Lazy
  <2>1. w \in Holders(Req(w), {"meter"})
    BY <1>1 DEF Holders
  <2> QED
    BY <1>2, <2>1, InvBalances
<1>5. TypeOK' /\ QuotaKept'
  BY <1>1, <1>2, <1>3, QuotaIsCounted DEF QueueInv, TypeOK, WorkersOK, Place
<1>6. ASSUME NEW q \in Request PROVE Balanced(q)
  <2>1. /\ CountsAreNat /\ CountsAreNat'
        /\ Unrecorded(q)' = Unrecorded(q) /\ Owing(q)' = Owing(q)
        /\ Uncounted(q)' + (IF Req(w) = q THEN 1 ELSE 0) = Uncounted(q)
        /\ (q \notin Lazy => Holders(q, {"meter"})' = {})
    BY <1>1, <1>3, <1>5, WorkerMoves DEF Was, Is, CountsAreNat
  <2>2. Standing(q)' = Standing(q)
    BY <1>1, <2>1 DEF Standing, Queued
  <2>3. \A m \in Meter : /\ metered'[m][q] \in {metered[m][q], metered[m][q] + 1}
                         /\ q # Req(w) => metered'[m][q] = metered[m][q]
    BY <1>1, <1>2, QuotaIsCounted
  <2>4. q \in Lazy => \A m \in Meter : metered'[m][q] + Uncounted(q)' + doubt[q] <= usage[q]
    BY <2>1, <2>3, InvBalances DEF CountsAreNat
  <2>5. q \notin Lazy => \A m \in Meter : metered'[m][q] = metered[m][q]
    BY <1>4, <2>3
  <2> QED
    BY <1>1, <2>1, <2>2, <2>4, <2>5, InvBalances DEF Balanced
<1> QED
  BY <1>5, <1>6, InvIsBalance

(* A record is committed by a worker that had none.                        *)
LEMMA RecordUsageKeepsInv ==
  ASSUME QueueInv, NEW w \in Worker, RecordUsage(w)
  PROVE  QueueInv'
<1> DEFINE place == IF Cost[Req(w)] > 0 THEN "debit" ELSE "log"
<1>1. /\ UNCHANGED <<job, stage, queue, accepted, dropped, lost, doubt, debited, balance>>
      /\ UNCHANGED <<refused, key, chats, recharge, used, metered>>
      /\ at[w] = "record" /\ Goto(w, place)
      /\ usage' = [usage EXCEPT ![Req(w)] = @ + 1]
  BY DEF RecordUsage, requestVars, moneyVars, quotaVars, lossVars
<1>2. job[w] \in Task /\ job[w].req = Req(w) /\ Req(w) \in Request
  BY <1>1, WorkerHasTask DEF Req
<1>3. place \in {"debit", "log"}
  OBVIOUS
<1> HIDE DEF place
<1>4. WorkersOK' /\ OnlyMoves(w) /\ at'[w] = place /\ Req(w)' = Req(w)
  BY <1>1, <1>2, <1>3, WorkerGoes DEF Place
<1>5. TypeOK'
  BY <1>1, <1>2, <1>4 DEF QueueInv, TypeOK, WorkersOK, Place
<1>6. ASSUME NEW q \in Request PROVE Balanced(q)
  <2>1. /\ CountsAreNat /\ CountsAreNat'
        /\ Unrecorded(q)' + (IF Req(w) = q THEN 1 ELSE 0) = Unrecorded(q)
        /\ Owing(q)' <= Owing(q) + (IF Req(w) = q THEN 1 ELSE 0)
        /\ Uncounted(q)' <= Uncounted(q) + (IF Req(w) = q THEN 1 ELSE 0)
        /\ (q \notin Lazy => Holders(q, {"meter"})' = {})
    BY <1>1, <1>3, <1>4, <1>5, WorkerMoves DEF Was, Is, CountsAreNat
  <2>2. usage'[q] = usage[q] + (IF Req(w) = q THEN 1 ELSE 0)
    BY <1>1, <1>2 DEF QueueInv, TypeOK
  <2>3. Standing(q)' = Standing(q)
    BY <1>1, <2>1, <2>2 DEF Standing, Queued, CountsAreNat
  <2>4. debited[q] + Owing(q)' + doubt[q] <= usage'[q] /\ doubt[q] <= usage'[q]
    BY <2>1, <2>2, InvBalances DEF CountsAreNat
  <2>5. q \in Lazy => \A m \in Meter : metered[m][q] + Uncounted(q)' + doubt[q] <= usage'[q]
    BY <2>1, <2>2, InvBalances DEF CountsAreNat
  <2> QED
    BY <1>1, <2>1, <2>3, <2>4, <2>5, InvBalances DEF Balanced
<1>7. QuotaKept'
  BY <1>1 DEF QueueInv, QuotaKept
<1> QED
  BY <1>5, <1>6, <1>7, InvIsBalance

(* A failed task goes back into the list, or it is given up or lost.       *)
LEMMA RequeueTypes ==
  ASSUME QueueInv, NEW w \in Worker, at[w] # "idle", Requeue(w)
  PROVE  /\ queue' \in Seq(Task) /\ dropped' \subseteq Request /\ lost' \subseteq Request
         /\ \A q \in Request :
               \/ /\ Queued(q)' = Queued(q) + (IF Req(w) = q THEN 1 ELSE 0)
                  /\ UNCHANGED <<dropped, lost>>
               \/ /\ Queued(q)' = Queued(q)
                  /\ dropped \subseteq dropped' /\ lost \subseteq lost'
                  /\ Req(w) \in dropped' \cup lost'
<1>1. queue \in Seq(Task) /\ dropped \subseteq Request /\ lost \subseteq Request
  BY DEF QueueInv, TypeOK
<1>2. job[w] \in Task /\ Req(w) \in Request
  BY WorkerHasTask
<1>3. CASE job[w].retry < MaxRetries /\ queue' = Append(queue, [job[w] EXCEPT !.retry = @ + 1])
           /\ UNCHANGED <<dropped, lost>>
  <2> DEFINE t == [job[w] EXCEPT !.retry = @ + 1]
  <2>1. t \in Task /\ t.req = Req(w)
    <3>1. MaxRetries \in Nat /\ job[w].retry \in 0 .. MaxRetries
      BY WorkerHasTask, QueueAssumption
    <3>2. job[w].retry + 1 \in 0 .. MaxRetries
      BY <1>3, <3>1
    <3> QED
      BY <1>2, <3>2 DEF Task, Req
  <2> HIDE DEF t
  <2>2. queue' = Append(queue, t)
    BY <1>3 DEF t
  <2> QED
    BY <1>1, <1>3, <2>1, <2>2, PushCounts
<1>4. CASE UNCHANGED queue /\ dropped' \cup lost' = dropped \cup lost \cup {Req(w)}
           /\ dropped \subseteq dropped' /\ lost \subseteq lost'
  BY <1>1, <1>2, <1>4 DEF Queued
<1> QED
  BY <1>3, <1>4 DEF Requeue, lossVars

(* A task that is put back has neither been charged nor metered.           *)
LEMMA RequeueKeepsInv ==
  ASSUME QueueInv, NEW w \in Worker, at[w] \in {"tokenize", "record"}, Requeue(w),
         UNCHANGED <<stage, accepted, debited, balance, refused, key, chats, recharge>>,
         UNCHANGED <<used, metered>>,
         \/ UNCHANGED <<usage, doubt>>
         \/ /\ usage' = [usage EXCEPT ![Req(w)] = @ + 1]
            /\ doubt' = [doubt EXCEPT ![Req(w)] = @ + 1]
  PROVE  QueueInv'
<1>1. WorkersOK' /\ OnlyMoves(w) /\ at'[w] = "idle" /\ Req(w) \in Request
  BY WorkerLeaves, WorkerHasTask DEF Requeue
<1>2. usage' \in [Request -> Nat] /\ doubt' \in [Request -> Nat]
  BY <1>1 DEF QueueInv, TypeOK
<1>3. TypeOK'
  BY <1>1, <1>2, RequeueTypes DEF QueueInv, TypeOK, WorkersOK, Place
<1>4. ASSUME NEW q \in Request PROVE Balanced(q)
  <2> DEFINE one == IF Req(w) = q THEN 1 ELSE 0
  <2>1. /\ CountsAreNat /\ CountsAreNat'
        /\ Unrecorded(q)' + one = Unrecorded(q)
        /\ Owing(q)' = Owing(q) /\ Uncounted(q)' = Uncounted(q)
        /\ (q \notin Lazy => Holders(q, {"meter"})' = {})
    BY <1>1, <1>3, WorkerMoves DEF Was, Is, CountsAreNat
  <2>2. \/ usage'[q] = usage[q] /\ doubt'[q] = doubt[q]
        \/ usage'[q] = usage[q] + one /\ doubt'[q] = doubt[q] + one
    BY <1>1 DEF QueueInv, TypeOK
  <2>3. \/ Queued(q)' = Queued(q) + one /\ UNCHANGED <<dropped, lost>>
        \/ /\ Queued(q)' = Queued(q)
           /\ dropped \subseteq dropped' /\ lost \subseteq lost'
           /\ Req(w) \in dropped' \cup lost'
    BY RequeueTypes
  <2>4. one \in {0, 1} /\ (one = 0 <=> Req(w) # q)
    OBVIOUS
  <2> HIDE DEF one
  <2>5. Standing(q)' - doubt'[q] <= Standing(q) - doubt[q] /\ doubt'[q] <= usage'[q]
    BY <2>1, <2>2, <2>3, <2>4, InvBalances DEF Standing, CountsAreNat
  <2>6. debited[q] + Owing(q)' + doubt'[q] <= usage'[q]
    BY <2>1, <2>2, <2>4, InvBalances DEF CountsAreNat
  <2>7. q \in Lazy => \A m \in Meter : metered[m][q] + Uncounted(q)' + doubt'[q] <= usage'[q]
    BY <2>1, <2>2, <2>4, InvBalances DEF CountsAreNat
  <2>8. stage[q] \in {"new", "serving"} => Standing(q)' = 0
    <3> SUFFICES ASSUME stage[q] \in {"new", "serving"} PROVE Standing(q)' = 0
      OBVIOUS
    <3>1. Queued(q) + Unrecorded(q) + usage[q] = 0
      BY InvBalances DEF Standing
    <3>2. one = 0 /\ Queued(q) = 0 /\ Unrecorded(q) = 0 /\ usage[q] = 0
      BY <2>1, <2>4, <3>1 DEF CountsAreNat
    <3> QED
      BY <2>1, <2>2, <2>3, <3>2 DEF Standing, CountsAreNat
  <2>9. q \in accepted \ (dropped' \cup lost') => Standing(q)' > 0
    <3> SUFFICES ASSUME q \in accepted \ (dropped' \cup lost') PROVE Standing(q)' > 0
      OBVIOUS
    <3>1. Queued(q)' = Queued(q) + one
      BY <2>1, <2>3, <2>4 DEF CountsAreNat
    <3>2. Queued(q) + Unrecorded(q) + usage[q] > 0
      BY <2>3, InvBalances DEF Standing
    <3> QED
      BY <2>1, <2>2, <2>4, <3>1, <3>2 DEF Standing, CountsAreNat
  <2>10. Standing(q)' - doubt'[q] <= 1
    <3>1. Standing(q) \in Int /\ Standing(q)' \in Int /\ doubt[q] \in Int /\ doubt'[q] \in Int
      BY <2>1 DEF Standing, CountsAreNat
    <3> QED
      BY <2>5, <3>1, InvBalances
  <2> QED
    BY <2>1, <2>5, <2>6, <2>7, <2>8, <2>9, <2>10, InvBalances DEF Balanced
<1>5. QuotaKept'
  BY DEF QueueInv, QuotaKept
<1> QED
  BY <1>3, <1>4, <1>5, InvIsBalance

(* The tokens cannot be counted.                                           *)
LEMMA TokenizeFailsKeepsInv ==
  ASSUME QueueInv, NEW w \in Worker, TokenizeFails(w)
  PROVE  QueueInv'
BY RequeueKeepsInv DEF TokenizeFails, requestVars, recordVars, moneyVars, quotaVars

(* The record fails, or is written and not confirmed.                      *)
LEMMA RecordFailsKeepsInv ==
  ASSUME QueueInv, NEW w \in Worker, RecordFails(w)
  PROVE  QueueInv'
BY RequeueKeepsInv DEF RecordFails, requestVars, recordVars, moneyVars, quotaVars

(* A worker takes the oldest task.                                         *)
LEMMA DequeueKeepsInv ==
  ASSUME QueueInv, NEW w \in Worker, Dequeue(w)
  PROVE  QueueInv'
<1> DEFINE t == Head(queue)
           place == IF t.req \in Lazy /\ ~ t.counted THEN "tokenize" ELSE "record"
<1>1. /\ UNCHANGED <<stage, accepted, dropped, lost, usage, doubt, debited, balance>>
      /\ UNCHANGED <<refused, key, chats, recharge, used, metered>>
      /\ at[w] = "idle" /\ queue # <<>> /\ queue' = Tail(queue)
      /\ job' = [job EXCEPT ![w] = t] /\ Goto(w, place)
  BY DEF Dequeue, requestVars, recordVars, moneyVars, quotaVars, lossVars
<1>2. queue \in Seq(Task)
  BY DEF QueueInv, TypeOK
<1>3. t \in Task /\ queue' \in Seq(Task)
  BY <1>1, <1>2
<1>4. place \in {"tokenize", "record"}
  OBVIOUS
<1> HIDE DEF place
<1>5. \A q \in Request : Queued(q) = Queued(q)' + (IF t.req = q THEN 1 ELSE 0)
  BY <1>1, <1>2, PopCounts
<1> HIDE DEF t
<1>6. WorkersOK' /\ OnlyMoves(w) /\ at'[w] = place /\ Req(w)' = t.req
  BY <1>1, <1>3, <1>4, WorkerGoes DEF Place
<1>7. TypeOK'
  BY <1>1, <1>3, <1>6 DEF QueueInv, TypeOK, WorkersOK, Place
<1>8. ASSUME NEW q \in Request PROVE Balanced(q)
  <2>1. /\ CountsAreNat /\ CountsAreNat'
        /\ Unrecorded(q)' = Unrecorded(q) + (IF t.req = q THEN 1 ELSE 0)
        /\ Owing(q)' = Owing(q) /\ Uncounted(q)' = Uncounted(q)
        /\ (q \notin Lazy => Holders(q, {"meter"})' = {})
    BY <1>1, <1>4, <1>6, <1>7, WorkerMoves, SMTT(20) DEF Was, Is, CountsAreNat
  <2>2. Standing(q)' = Standing(q)
    BY <1>1, <1>5, <2>1 DEF Standing, CountsAreNat
  <2> QED
    BY <1>1, <2>1, <2>2, InvBalances DEF Balanced
<1>9. QuotaKept'
  BY <1>1 DEF QueueInv, QuotaKept
<1> QED
  BY <1>7, <1>8, <1>9, InvIsBalance

(* The task of a dequeue whose answer is lost is neither charged nor metered.*)
LEMMA DequeueFailsKeepsInv ==
  ASSUME QueueInv, NEW w \in Worker, DequeueFails(w)
  PROVE  QueueInv'
<1> DEFINE r == Head(queue).req
<1>1. /\ UNCHANGED <<stage, at, job, accepted, dropped, usage, doubt, debited, balance>>
      /\ UNCHANGED <<refused, key, chats, recharge, used, metered>>
      /\ queue # <<>> /\ queue' = Tail(queue) /\ lost' = lost \cup {r}
  BY DEF DequeueFails, requestVars, workVars, recordVars, moneyVars, quotaVars
<1>2. queue \in Seq(Task)
  BY DEF QueueInv, TypeOK
<1>t. Head(queue) \in Task /\ queue' \in Seq(Task)
  BY <1>1, <1>2
<1>3. queue' \in Seq(Task) /\ r \in Request
  BY <1>t DEF Task
<1>4. \A q \in Request : Queued(q) = Queued(q)' + (IF r = q THEN 1 ELSE 0)
  BY <1>1, <1>2, PopCounts
<1> HIDE DEF r
<1>5. TypeOK'
  BY <1>1, <1>3 DEF QueueInv, TypeOK
<1>6. ASSUME NEW q \in Request PROVE Balanced(q)
  <2>1. CountsAreNat /\ CountsAreNat'
    BY <1>5, TypesMakeNats, TypesStayNats DEF QueueInv
  <2>2. /\ Unrecorded(q)' = Unrecorded(q) /\ Owing(q)' = Owing(q)
        /\ Uncounted(q)' = Uncounted(q) /\ Holders(q, {"meter"})' = Holders(q, {"meter"})
    BY <1>1, UntouchedCounts
  <2>3. /\ Standing(q) \in Nat /\ Standing(q)' \in Nat /\ Standing(q)' <= Standing(q)
        /\ r # q => Standing(q)' = Standing(q)
    <3>1. Queued(q) = Queued(q)' + (IF r = q THEN 1 ELSE 0)
      BY <1>4
    <3>2. usage'[q] = usage[q]
      BY <1>1
    <3> QED
      BY <2>1, <2>2, <3>1, <3>2 DEF Standing, CountsAreNat
  <2>4. Standing(q)' - doubt[q] <= 1
    BY <2>1, <2>3, InvBalances DEF CountsAreNat
  <2>5. stage[q] \in {"new", "serving"} => Standing(q)' = 0
    BY <2>3, InvBalances
  <2>6. q \in accepted \ (dropped \cup lost') => Standing(q)' > 0
    BY <1>1, <2>3, InvBalances
  <2> QED
    BY <1>1, <2>2, <2>4, <2>5, <2>6, InvBalances DEF Balanced
<1>7. QuotaKept'
  BY <1>1 DEF QueueInv, QuotaKept
<1> QED
  BY <1>5, <1>6, <1>7, InvIsBalance

(* A recharge touches neither tasks nor records, and nothing changes when  *)
(* nothing happens.                                                        *)
LEMMA TasksUntouched ==
  ASSUME QueueInv, UNCHANGED <<stage, queue, at, job, usage, debited, used, metered>>,
         UNCHANGED <<chats, accepted, dropped, lost, doubt, refused>>,
         balance' \in [User -> Nat], key' \in [User -> {"on", "overdraft"}],
         recharge' \in [User -> {"none", "credited", "done"}]
  PROVE  QueueInv'
<1>1. TypeOK' /\ QuotaKept'
  BY DEF QueueInv, TypeOK, QuotaKept
<1>2. ASSUME NEW q \in Request PROVE Balanced(q)
  BY OnlyStageChanges
<1> QED
  BY <1>1, <1>2, InvIsBalance

(* A recharge adds to a balance and charges nobody.                        *)
LEMMA CreditRechargeKeepsInv ==
  ASSUME QueueInv, NEW u \in User, CreditRecharge(u)
  PROVE  QueueInv'
<1>1. Recharge \in Nat
  BY QueueAssumption
<1>2. /\ balance' \in [User -> Nat] /\ key' \in [User -> {"on", "overdraft"}]
      /\ recharge' \in [User -> {"none", "credited", "done"}]
  BY <1>1 DEF CreditRecharge, QueueInv, TypeOK
<1>3. /\ UNCHANGED <<stage, queue, at, job, usage, debited, used, metered>>
      /\ UNCHANGED <<chats, accepted, dropped, lost, doubt, refused>>
  BY DEF CreditRecharge, requestVars, workVars, recordVars, quotaVars, lossVars
<1> QED
  BY <1>2, <1>3, TasksUntouched

(* Keys are restored; no count is about them.                              *)
LEMMA RestoreOverdraftKeysKeepsInv ==
  ASSUME QueueInv, NEW u \in User, RestoreOverdraftKeys(u)
  PROVE  QueueInv'
<1>1. key \in [User -> {"on", "overdraft"}]
  BY DEF QueueInv, TypeOK
<1>2. key' = key \/ key' = [key EXCEPT ![u] = IF balance[u] >= 0 THEN "on" ELSE key[u]]
  BY DEF RestoreOverdraftKeys
<1>3. key' \in [User -> {"on", "overdraft"}]
  BY <1>1, <1>2
<1>4. balance' \in [User -> Nat] /\ recharge' \in [User -> {"none", "credited", "done"}]
  BY DEF RestoreOverdraftKeys, moneyVars, QueueInv, TypeOK
<1>5. /\ UNCHANGED <<stage, queue, at, job, usage, debited, used, metered>>
      /\ UNCHANGED <<chats, accepted, dropped, lost, doubt, refused>>
  BY DEF RestoreOverdraftKeys, requestVars, workVars, recordVars, moneyVars, quotaVars, lossVars
<1> QED
  BY <1>3, <1>4, <1>5, TasksUntouched

(* Nothing happens.                                                        *)
LEMMA StutteringKeepsInv ==
  ASSUME QueueInv, UNCHANGED vars
  PROVE  QueueInv'
<1>1. /\ UNCHANGED <<stage, queue, at, job, usage, debited, used, metered>>
      /\ UNCHANGED <<chats, accepted, dropped, lost, doubt, refused>>
      /\ UNCHANGED <<balance, key, recharge>>
  BY DEF vars
<1>2. /\ balance' \in [User -> Nat] /\ key' \in [User -> {"on", "overdraft"}]
      /\ recharge' \in [User -> {"none", "credited", "done"}]
  BY <1>1 DEF QueueInv, TypeOK
<1> QED
  BY <1>1, <1>2, TasksUntouched

(* When the process stops, no worker holds a task any more.                *)
LEMMA CrashKeepsInv ==
  ASSUME QueueInv, Crash
  PROVE  QueueInv'
<1>1. /\ UNCHANGED <<queue, usage, doubt, debited, balance, refused, key>>
      /\ UNCHANGED <<used, metered, chats, accepted, dropped>>
      /\ at' = [w \in Worker |-> "idle"] /\ job' = [w \in Worker |-> NoTask]
      /\ stage' = [r \in Request |-> IF stage[r] = "new" THEN "new" ELSE "done"]
      /\ recharge' = [u \in User |-> IF recharge[u] = "none" THEN "none" ELSE "done"]
      /\ lost' = lost \cup {Req(w) : w \in {v \in Worker : at[v] # "idle"}}
  BY DEF Crash, recordVars, moneyVars, quotaVars
<1>2. TypeOK'
  <2>1. \A w \in Worker : job'[w] = NoTask <=> at'[w] = "idle"
    BY <1>1
  <2>2. lost' \subseteq Request
    BY <1>1, WorkerHasTask DEF QueueInv, TypeOK
  <2>3. /\ at' \in [Worker -> {"idle", "tokenize", "record", "debit", "disable", "meter", "log"}]
        /\ job' \in [Worker -> Task \cup {NoTask}]
        /\ stage' \in [Request -> {"new", "serving", "metering", "done"}]
        /\ recharge' \in [User -> {"none", "credited", "done"}]
    BY <1>1
  <2> QED
    BY <1>1, <2>1, <2>2, <2>3 DEF QueueInv, TypeOK
<1>3. ASSUME NEW q \in Request PROVE Balanced(q)
  <2>1. CountsAreNat /\ CountsAreNat'
    BY <1>2, TypesMakeNats, TypesStayNats DEF QueueInv
  <2>2. /\ Holders(q, {"tokenize", "record"})' = {} /\ Holders(q, {"debit"})' = {}
        /\ Holders(q, {"debit", "disable", "meter"})' = {} /\ Holders(q, {"meter"})' = {}
    BY <1>1 DEF Holders
  <2>3. Unrecorded(q)' = 0 /\ Owing(q)' = 0 /\ Uncounted(q)' = 0
    BY <2>2, FS_EmptySet DEF Unrecorded, Owing, Uncounted
  <2>4. /\ Standing(q)' \in Nat /\ Standing(q) \in Nat /\ Standing(q)' <= Standing(q)
        /\ Unrecorded(q) = 0 => Standing(q)' = Standing(q)
    BY <1>1, <2>1, <2>3 DEF Standing, Queued, CountsAreNat
  <2>5. q \notin lost' => Unrecorded(q) = 0
    <3> SUFFICES ASSUME q \notin lost' PROVE Holders(q, {"tokenize", "record"}) = {}
      BY FS_EmptySet DEF Unrecorded
    <3> QED
      BY <1>1 DEF Holders
  <2>6. stage'[q] = IF stage[q] = "new" THEN "new" ELSE "done"
    BY <1>1
  <2>7. /\ Standing(q)' - doubt[q] <= 1 /\ doubt[q] <= usage[q]
        /\ debited[q] + 0 + doubt[q] <= usage[q]
    BY <2>1, <2>4, InvBalances DEF CountsAreNat
  <2>8. q \in Lazy => \A m \in Meter : metered[m][q] + 0 + doubt[q] <= usage[q]
    BY <2>1, InvBalances DEF CountsAreNat
  <2>9. stage'[q] \in {"new", "serving"} => Standing(q)' = 0
    BY <2>4, <2>6, InvBalances
  <2>10. q \in accepted \ (dropped \cup lost') => Standing(q)' > 0
    BY <1>1, <2>4, <2>5, InvBalances
  <2> QED
    BY <1>1, <2>2, <2>3, <2>6, <2>7, <2>8, <2>9, <2>10, InvBalances DEF Balanced
<1>4. QuotaKept'
  BY <1>1 DEF QueueInv, QuotaKept
<1> QED
  BY <1>2, <1>3, <1>4, InvIsBalance

(* At the start there are no tasks, records or quotas.                     *)
LEMMA InitEstablishesInv == Init => QueueInv
<1> SUFFICES ASSUME Init PROVE QueueInv
  OBVIOUS
<1>1. TypeOK
  BY QueueAssumption DEF Init, TypeOK
<1>2. ASSUME NEW r \in Request
      PROVE  /\ Queued(r) = 0 /\ Unrecorded(r) = 0 /\ usage[r] = 0 /\ doubt[r] = 0
             /\ debited[r] = 0 /\ \A places \in SUBSET (Place \ {"idle"}) : Holders(r, places) = {}
             /\ \A m \in Meter : metered[m][r] = 0
  <2>1. {i \in DOMAIN queue : queue[i].req = r} = {}
    BY DEF Init
  <2>2. \A places \in SUBSET (Place \ {"idle"}) : Holders(r, places) = {}
    BY DEF Init, Holders
  <2>3. {"tokenize", "record"} \in SUBSET (Place \ {"idle"})
    BY DEF Place
  <2> QED
    BY <2>1, <2>2, <2>3, FS_EmptySet DEF Init, Queued, Unrecorded
<1>3. RecordedOnce /\ NoTaskForgotten /\ MeteredAtMostOnce
  BY <1>2 DEF Init, RecordedOnce, NoTaskForgotten, MeteredAtMostOnce
<1>4. QuotaKept
  BY QueueAssumption DEF Init, QuotaKept
<1>5. ASSUME NEW r \in Request PROVE PathOK(r)
  BY <1>2, <1>5 DEF Init, PathOK
<1>6. ASSUME NEW r \in Request PROVE WorkOK(r)
  <2>1. /\ Holders(r, {"debit"}) = {} /\ Holders(r, {"debit", "disable", "meter"}) = {}
        /\ Holders(r, {"meter"}) = {}
    BY <1>2 DEF Place
  <2>2. /\ Cardinality(Holders(r, {"debit"})) = 0
        /\ Cardinality(Holders(r, {"debit", "disable", "meter"})) = 0
    BY <2>1, FS_EmptySet
  <2>3. usage[r] = 0 /\ doubt[r] = 0 /\ debited[r] = 0 /\ \A m \in Meter : metered[m][r] = 0
    BY <1>2
  <2>4. \A m \in Meter : metered[m][r] + 0 + doubt[r] <= usage[r]
    BY <2>3
  <2>5. debited[r] + 0 + doubt[r] <= usage[r]
    BY <2>3
  <2>6. doubt[r] <= usage[r]
    BY <2>3
  <2> QED
    BY <2>1, <2>2, <2>4, <2>5, <2>6 DEF WorkOK
<1> QED
  BY <1>1, <1>3, <1>4, <1>5, <1>6 DEF QueueInv

(* Every step of a request, a worker, a recharge and a failing process     *)
(* keeps the invariant.                                                    *)
LEMMA StepKeepsInv == QueueInv /\ [Next]_vars => QueueInv'
<1> SUFFICES ASSUME QueueInv, [Next]_vars PROVE QueueInv'
  OBVIOUS
<1>1. CASE \E r \in Request : Admit(r) \/ RequestStep(r)
  BY <1>1, AdmitKeepsInv, NothingToSettleKeepsInv, EnqueueKeepsInv, SyncQuotaKeepsInv
     DEF RequestStep
<1>2. CASE \E w \in Worker : WorkerStep(w)
  BY <1>2, DequeueKeepsInv, DequeueFailsKeepsInv, CountTokensKeepsInv, TokenizeFailsKeepsInv,
     RecordUsageKeepsInv, RecordFailsKeepsInv, DebitKeepsInv, DebitRefusedKeepsInv,
     DebitFailsKeepsInv, DisableOverdraftKeysKeepsInv, MeterLazyKeepsInv, SaveChatLogKeepsInv
     DEF WorkerStep
<1>3. CASE \E u \in User : CreditRecharge(u) \/ RestoreOverdraftKeys(u)
  BY <1>3, CreditRechargeKeepsInv, RestoreOverdraftKeysKeepsInv
<1>4. CASE Crash
  BY <1>4, CrashKeepsInv
<1>5. CASE UNCHANGED vars
  BY <1>5, StutteringKeepsInv
<1> QED
  BY <1>1, <1>2, <1>3, <1>4, <1>5 DEF Next

(* The inductive invariant of the request path, the Redis list and the     *)
(* workers holds in every reachable state (handler.go, queue.go).          *)
THEOREM QueueInvariant == Spec => []QueueInv
  BY InitEstablishesInv, StepKeepsInv, PTL DEF Spec

(* However often a task is retried, and whichever workers take it up, a    *)
(* request is recorded once for each commit that was reported, and once    *)
(* for each that was not (queue.go:243, queue.go:366).                     *)
THEOREM RequestsAreRecordedOnce == Spec => []RecordedOnce
<1>1. QueueInv => RecordedOnce
  BY DEF QueueInv
<1> QED
  BY <1>1, QueueInvariant, PTL

(* A request is debited at most once, and never without a usage record,    *)
(* whatever fails or is misreported (queue.go:401).                        *)
THEOREM RequestsAreChargedOnce == Spec => []ChargedOnce
<1>1. QueueInv => ChargedOnce
  <2> SUFFICES ASSUME QueueInv, NEW r \in Request
               PROVE  debited[r] <= 1 /\ debited[r] <= usage[r]
    BY DEF ChargedOnce
  <2>1. CountsAreNat
    BY TypesMakeNats DEF QueueInv
  <2>2. /\ Queued(r) + Unrecorded(r) + usage[r] - doubt[r] <= 1
        /\ debited[r] + Owing(r) + doubt[r] <= usage[r]
    BY InvBalances DEF QueueInv, RecordedOnce
  <2> QED
    BY <2>1, <2>2 DEF CountsAreNat
<1> QED
  BY <1>1, QueueInvariant, PTL

(* While Redis answers and the process runs, an accepted task is in the    *)
(* list, with a worker or recorded, until it is given up after its retries *)
(* (queue_redis.go, queue.go:366).                                         *)
THEOREM AcceptedTasksStay == Spec => []NoTaskForgotten
<1>1. QueueInv => NoTaskForgotten
  BY DEF QueueInv
<1> QED
  BY <1>1, QueueInvariant, PTL

(* A request counts at most once towards a quota, by the request path or   *)
(* by the worker, and no quota is exceeded (queue.go:469).                 *)
THEOREM QuotasAreKept == Spec => [](MeteredAtMostOnce /\ QuotaKept)
<1>1. QueueInv => MeteredAtMostOnce /\ QuotaKept
  BY DEF QueueInv
<1> QED
  BY <1>1, QueueInvariant, PTL

-----------------------------------------------------------------------------
(* What each request adds to a counter. *)
Metering(count) == [r \in Request |-> count[r] * Cost[r]]

(* The cost of a bag of requests is a sum over the requests.               *)
LEMMA TotalIsSum ==
  ASSUME NEW count \in [Request -> Nat]
  PROVE  /\ Metering(count) \in [Request -> Int]
         /\ Total(count) = SumOf(Metering(count), Request)
<1> DEFINE w == Metering(count)
           P(f) == f = [s \in SUBSET Request |-> IF s = {} THEN 0
                           ELSE LET x == CHOOSE y \in s : TRUE
                                IN  count[x] * Cost[x] + f[s \ {x}]]
<1>1. w \in [Request -> Int]
  BY QueueAssumption DEF Metering
<1>2. Total(count) = (CHOOSE f : P(f))[Request]
  BY DEF Total, MapThenSumSet, MapThenFoldSet
<1>3. \A s \in SUBSET Request : s # {} =>
         w[CHOOSE y \in s : TRUE] = count[CHOOSE y \in s : TRUE] * Cost[CHOOSE y \in s : TRUE]
  BY DEF Metering
<1>4. PICK f : Sums(Request, w, f)
  <2> HIDE DEF w
  <2> QED
    BY <1>1, RequestAssumption, SumsExist
<1>5. P(f)
  <2> HIDE DEF w
  <2> QED
    BY <1>3, <1>4 DEF Sums
<1> DEFINE g == CHOOSE h : P(h)
<1>6. P(g)
  BY <1>5
<1> HIDE DEF g
<1>7. g[{}] = 0
  BY <1>6
<1>8. \A s \in SUBSET Request : s # {} =>
         \E x \in s : g[s \ {x}] \in Int => g[s] = w[x] + g[s \ {x}]
  <2> TAKE s \in SUBSET Request
  <2> HAVE s # {}
  <2> DEFINE x == CHOOSE y \in s : TRUE
  <2>1. x \in s
    OBVIOUS
  <2>2. g[s] = count[x] * Cost[x] + g[s \ {x}]
    BY <1>6
  <2>3. w[x] = count[x] * Cost[x]
    BY <1>3
  <2> HIDE DEF x, w
  <2> QED
    BY <2>1, <2>2, <2>3
<1> HIDE DEF P, w
<1>9. g[Request] = SumOf(w, Request)
  BY <1>1, <1>7, <1>8, RequestAssumption, FoldIsSum
<1> QED
  BY <1>1, <1>2, <1>9 DEF g, w

(* Counting a request once more adds its cost.                             *)
LEMMA TotalGrows ==
  ASSUME NEW count \in [Request -> Nat], NEW r \in Request
  PROVE  Total([count EXCEPT ![r] = @ + 1]) = Total(count) + Cost[r]
<1> DEFINE more == [count EXCEPT ![r] = @ + 1]
           w == Metering(count)
           v == Metering(more)
<1>1. more \in [Request -> Nat] /\ more[r] = count[r] + 1
      /\ \A q \in Request \ {r} : more[q] = count[q]
  OBVIOUS
<1>2. count[r] \in Nat /\ Cost[r] \in Nat
  BY QueueAssumption
<1>3. v[r] = (count[r] + 1) * Cost[r] /\ w[r] = count[r] * Cost[r]
  BY <1>1 DEF Metering
<1>4. \A q \in Request \ {r} : w[q] = v[q]
  BY <1>1 DEF Metering
<1> HIDE DEF more
<1>5. /\ w \in [Request -> Int] /\ Total(count) = SumOf(w, Request)
      /\ v \in [Request -> Int] /\ Total(more) = SumOf(v, Request)
  BY <1>1, TotalIsSum
<1> HIDE DEF w, v
<1>6. SumOf(v, Request) = SumOf(w, Request) + (v[r] - w[r])
  BY <1>4, <1>5, RequestAssumption, SumChanges
<1>7. v[r] - w[r] = Cost[r]
  <2>1. \A n, c \in Nat : (n + 1) * c - n * c = c
    OBVIOUS
  <2> QED
    BY <1>2, <1>3, <2>1
<1> QED
  BY <1>5, <1>6, <1>7 DEF more

(* A bag without requests costs nothing.                                   *)
LEMMA NothingCounted ==
  ASSUME NEW count, count = [r \in Request |-> 0]
  PROVE  Total(count) = 0
<1> DEFINE w == Metering(count)
<1>1. count \in [Request -> Nat]
  OBVIOUS
<1>2. w \in [Request -> Int] /\ Total(count) = SumOf(w, Request)
  BY <1>1, TotalIsSum
<1>3. \A r \in Request : w[r] = w[r] + w[r]
  BY QueueAssumption DEF Metering
<1> HIDE DEF w
<1>4. SumOf(w, Request) = SumOf(w, Request) + SumOf(w, Request)
  BY <1>2, <1>3, RequestAssumption, SumsAdd
<1>5. SumOf(w, Request) \in Int
  BY <1>2, RequestAssumption, SumIsInt
<1>6. \A x \in Int : x = x + x => x = 0
  OBVIOUS
<1> QED
  BY <1>2, <1>4, <1>5, <1>6, Zenon

(* updateQuotaSync adds the cost of the request to each counter in which   *)
(* it counts it, and to no other (queue.go:469).                           *)
LEMMA QuotaAddsCost ==
  ASSUME QueueInv, CountersAddUp, NEW r \in Request, UpdateQuotaSync(r)
  PROVE  CountersAddUp'
<1>1. PICK done \in SUBSET Meter :
        /\ used' = [m \in Meter |-> IF m \in done THEN used[m] + Cost[r] ELSE used[m]]
        /\ metered' = [m \in Meter |->
               IF m \in done THEN [metered[m] EXCEPT ![r] = @ + 1] ELSE metered[m]]
  <2>1. PICK ok \in SUBSET Meter :
          LET done == {m \in ok : Limit[m] = 0 \/ used[m] + Cost[r] <= Limit[m]}
          IN  /\ used' = [m \in Meter |-> IF m \in done THEN used[m] + Cost[r] ELSE used[m]]
              /\ metered' = [m \in Meter |->
                    IF m \in done THEN [metered[m] EXCEPT ![r] = @ + 1] ELSE metered[m]]
    BY DEF UpdateQuotaSync
  <2>2. WITNESS {m \in ok : Limit[m] = 0 \/ used[m] + Cost[r] <= Limit[m]} \in SUBSET Meter
  <2> QED
    BY <2>1
<1>2. ASSUME NEW m \in Meter PROVE used'[m] = Total(metered'[m])
  <2>1. used[m] = Total(metered[m]) /\ metered[m] \in [Request -> Nat]
    BY DEF CountersAddUp, QueueInv, TypeOK
  <2>2. CASE m \in done
    <3>1. used'[m] = used[m] + Cost[r] /\ metered'[m] = [metered[m] EXCEPT ![r] = @ + 1]
      BY <1>1, <2>2
    <3> QED
      BY <2>1, <3>1, TotalGrows
  <2>3. CASE m \notin done
    BY <1>1, <2>1, <2>3
  <2> QED
    BY <2>2, <2>3
<1> QED
  BY <1>2 DEF CountersAddUp

(* Only updateQuotaSync writes the counters.                               *)
LEMMA CountersStep == QueueInv /\ CountersAddUp /\ [Next]_vars => CountersAddUp'
<1> SUFFICES ASSUME QueueInv, CountersAddUp, [Next]_vars PROVE CountersAddUp'
  OBVIOUS
<1>1. ASSUME UNCHANGED <<used, metered>> PROVE CountersAddUp'
  BY <1>1 DEF CountersAddUp
<1>2. ASSUME NEW r \in Request, Admit(r) \/ RequestStep(r) PROVE CountersAddUp'
  <2>1. CASE SyncQuota(r)
    BY <2>1, QuotaAddsCost DEF SyncQuota
  <2>2. CASE ~SyncQuota(r)
    <3>1. UNCHANGED quotaVars
      BY <1>2, <2>2 DEF Admit, RequestStep, NothingToSettle, EnqueueSettlement
    <3> QED
      BY <1>1, <3>1 DEF quotaVars
  <2> QED
    BY <2>1, <2>2
<1>3. ASSUME NEW w \in Worker, WorkerStep(w) PROVE CountersAddUp'
  <2>1. CASE MeterLazy(w)
    <3>1. Req(w) \in Request
      BY <2>1, WorkerHasTask DEF MeterLazy, Req
    <3> QED
      BY <2>1, <3>1, QuotaAddsCost DEF MeterLazy
  <2>2. CASE ~MeterLazy(w)
    <3>1. UNCHANGED quotaVars
      BY <1>3, <2>2 DEF WorkerStep, Dequeue, DequeueFails, CountTokens, TokenizeFails,
             RecordUsage, RecordFails, Debit, DebitRefused, DebitFails, DisableOverdraftKeys,
             SaveChatLog
    <3> QED
      BY <1>1, <3>1 DEF quotaVars
  <2> QED
    BY <2>1, <2>2
<1>4. ASSUME \/ \E u \in User : CreditRecharge(u) \/ RestoreOverdraftKeys(u)
             \/ Crash \/ UNCHANGED vars
      PROVE  CountersAddUp'
  <2>1. UNCHANGED quotaVars
    BY <1>4 DEF CreditRecharge, RestoreOverdraftKeys, Crash, vars, quotaVars
  <2> QED
    BY <1>1, <2>1 DEF quotaVars
<1> QED
  BY <1>2, <1>3, <1>4 DEF Next

(* Each quota counter is the cost of the requests it counted, each of them *)
(* once, and stays within its limit, although the request path and the     *)
(* workers both count (queue.go:469).                                      *)
THEOREM RequestsAreMeteredOnce == Spec => []MeteredOnce
<1>1. Init => CountersAddUp
  BY NothingCounted DEF Init, CountersAddUp
<1>2. QueueInv /\ CountersAddUp => MeteredOnce
  BY DEF QueueInv, MeteredAtMostOnce, QuotaKept, CountersAddUp, MeteredOnce
<1> QED
  BY <1>1, <1>2, CountersStep, QueueInvariant, PTL DEF Spec
=============================================================================
