---------------------------- MODULE GatewayProofs ----------------------------
(***************************************************************************)
(* Proofs about the gateway over its catalogue: what a request is sent to  *)
(* has been in service since it arrived, whoever is paid has answered, the *)
(* failures of a binding are counted exactly, and nothing is in service    *)
(* that no administrator let in.  And about the way of one request through *)
(* its channel's adaptor: each hop speaks one format, no word is told as   *)
(* another speaker's, and Claude's turns alternate.                        *)
(***************************************************************************)
EXTENDS Gateway, RequestPath, FoldLemmas, FiniteSetTheorems, TLAPS

(* Without results there is no streak of failures.                         *)
LEMMA NoStreak == Streak(<<>>) = 0
<1>1. {i \in 1 .. Len(<<>>) : \A j \in i .. Len(<<>>) : ~<<>>[j]} = {}
  OBVIOUS
<1> QED
  BY <1>1, FS_EmptySet DEF Streak

(* A success ends the streak of failures, a failure makes it longer by one. *)
LEMMA StreakGrows ==
  ASSUME NEW rs \in Seq(BOOLEAN)
  PROVE  Streak(Append(rs, TRUE)) = 0 /\ Streak(Append(rs, FALSE)) = Streak(rs) + 1
<1> DEFINE n == Len(rs)
           Lost(s, i) == \A j \in i .. Len(s) : ~s[j]
           good == Append(rs, TRUE)
           bad == Append(rs, FALSE)
           Failing(s) == {i \in 1 .. Len(s) : Lost(s, i)}
<1>1. /\ n \in Nat /\ Len(good) = n + 1 /\ Len(bad) = n + 1
      /\ good[n + 1] = TRUE /\ bad[n + 1] = FALSE /\ \A j \in 1 .. n : bad[j] = rs[j]
  OBVIOUS
<1>2. Failing(good) = {}
  <2> SUFFICES ASSUME NEW i \in 1 .. n + 1, Lost(good, i) PROVE FALSE
    BY <1>1
  <2>1. n + 1 \in i .. Len(good)
    BY <1>1
  <2>2. ~good[n + 1]
    BY <2>1
  <2> QED
    BY <1>1, <2>2
<1>3. Failing(bad) = Failing(rs) \cup {n + 1}
  <2>1. ASSUME NEW i \in 1 .. n PROVE Lost(bad, i) <=> Lost(rs, i)
    <3>1. ASSUME NEW j \in i .. n PROVE bad[j] = rs[j]
      <4>1. j \in 1 .. n
        BY <1>1
      <4> QED
        BY <1>1, <4>1
    <3>2. i .. n + 1 = (i .. n) \cup {n + 1}
      BY <1>1
    <3> QED
      BY <1>1, <3>1, <3>2
  <2>2. Lost(bad, n + 1)
    BY <1>1
  <2>3. 1 .. n + 1 = (1 .. n) \cup {n + 1}
    BY <1>1
  <2> QED
    BY <1>1, <2>1, <2>2, <2>3
<1>4. IsFiniteSet(Failing(rs)) /\ n + 1 \notin Failing(rs)
  <2>1. Failing(rs) \in SUBSET (1 .. n) /\ IsFiniteSet(1 .. n)
    BY <1>1, FS_Interval
  <2> QED
    BY <1>1, <2>1, FS_Subset
<1>5. Cardinality(Failing(bad)) = Cardinality(Failing(rs)) + 1
  BY <1>3, <1>4, FS_AddElement
<1> QED
  BY <1>2, <1>5, FS_EmptySet DEF Streak

(* The scheduler returns candidates it was given.                          *)
LEMMA SelectIsAPart ==
  ASSUME NEW candidates PROVE Select(candidates) \subseteq candidates
<1>1. Healthy(candidates) \subseteq candidates
  BY DEF Healthy
<1>2. HighestPriority(Healthy(candidates)) \subseteq candidates
  BY <1>1 DEF HighestPriority
<1> QED
  BY <1>2 DEF Select, WeightedRandomSelect

(* So does the affinity map before it.                                     *)
LEMMA PicksAreCandidates == \A r \in Request : MayPick(r) \subseteq cands[r]
<1> SUFFICES ASSUME NEW r \in Request PROVE MayPick(r) \subseteq cands[r]
  OBVIOUS
<1>1. Preferred(r) \subseteq cands[r]
  BY DEF Preferred
<1> QED
  BY <1>1, SelectIsAPart DEF MayPick

(* The health of a binding is a number, however often it has failed.       *)
LEMMA HealthIsANumber == \A fails_b \in Nat : HealthScore(fails_b) \in Nat
<1> SUFFICES ASSUME NEW n \in Nat PROVE HealthScore(n) \in Nat
  OBVIOUS
<1>1. CASE n < 5
  <2>1. n = 0 \/ n = 1 \/ n = 2 \/ n = 3 \/ n = 4
    BY <1>1
  <2> QED
    BY <2>1 DEF HealthScore
<1>2. CASE ~(n < 5)
  BY <1>2 DEF HealthScore
<1> QED
  BY <1>1, <1>2

(* Whatever the body, the inbound format is one of the four.               *)
LEMMA InboundFormatIsKnown ==
  ASSUME NEW body \in Bodies, NEW path \in Path
  PROVE  InboundFormat(body, path) \in Format
<1>1. DetectFormatFromPath(path) \in Format
  BY GatewayAssumption
<1>2. "unknown" \notin Format
  BY DEF Format
<1> QED
  BY <1>1, <1>2 DEF InboundFormat

-----------------------------------------------------------------------------
(* The invariants of the catalogue alone.                                  *)
CatalogueInv == CatalogueTypeOK /\ OnlyApprovedItemsServe /\ FailuresAreCounted

(* A key once created is there and stays on its channel.                   *)
KeysStay ==
    \A k \in Key : key[k] # "absent" => key'[k] # "absent" /\ home'[k] = home[k]

(* An operation that leaves the tests of bindings alone leaves their       *)
(* failures counted.                                                       *)
LEMMA CountsStay ==
  ASSUME FailuresAreCounted, UNCHANGED <<fails, results>> PROVE FailuresAreCounted'
BY DEF FailuresAreCounted

(* The operations on channels and models keep the catalogue's invariant,   *)
(* whatever has happened to a row since it was read.                       *)
LEMMA CreateChannelKeepsInv ==
  ASSUME CatalogueInv, NEW c \in Channel, NEW source \in {"admin", "provider"},
         NEW protocols \in Protocols, CreateChannel(c, source, protocols)
  PROVE  CatalogueInv' /\ KeysStay
<1>1. CatalogueTypeOK'
  BY CatalogueAssumption DEF CatalogueInv, CatalogueTypeOK, CreateChannel, Operation, ItemStatus, Decision, Item
<1>2. OnlyApprovedItemsServe'
  BY DEF CatalogueInv, CatalogueTypeOK, OnlyApprovedItemsServe, CreateChannel, Item
<1>3. FailuresAreCounted' /\ KeysStay
  BY CountsStay DEF CatalogueInv, CreateChannel, KeysStay
<1> QED
  BY <1>1, <1>2, <1>3 DEF CatalogueInv

(* A model waits for its review.                                           *)
LEMMA CreateModelSpecKeepsInv ==
  ASSUME CatalogueInv, NEW s \in ModelSpec, CreateModelSpec(s)
  PROVE  CatalogueInv' /\ KeysStay
<1>1. CatalogueTypeOK'
  BY CatalogueAssumption DEF CatalogueInv, CatalogueTypeOK, CreateModelSpec, Operation, ItemStatus, Item
<1>2. OnlyApprovedItemsServe'
  BY DEF CatalogueInv, CatalogueTypeOK, OnlyApprovedItemsServe, CreateModelSpec, Item
<1>3. FailuresAreCounted' /\ KeysStay
  BY CountsStay DEF CatalogueInv, CreateModelSpec, KeysStay
<1> QED
  BY <1>1, <1>2, <1>3 DEF CatalogueInv

(* Beginning a review changes nothing the invariant speaks of.             *)
LEMMA BeginReviewKeepsInv ==
  ASSUME CatalogueInv, NEW v \in Reviewer, NEW i \in Item, NEW to \in Decision,
         BeginReview(v, i, to)
  PROVE  CatalogueInv' /\ KeysStay
<1>1. CatalogueTypeOK'
  BY CatalogueAssumption DEF CatalogueInv, CatalogueTypeOK, BeginReview, Operation
<1>2. OnlyApprovedItemsServe' /\ FailuresAreCounted' /\ KeysStay
  BY CountsStay DEF CatalogueInv, OnlyApprovedItemsServe, BeginReview, KeysStay
<1> QED
  BY <1>1, <1>2 DEF CatalogueInv

(* A review that ends overwrites the row, but with the administrator's     *)
(* word.                                                                   *)
LEMMA EndReviewKeepsInv ==
  ASSUME CatalogueInv, NEW v \in Reviewer, EndReview(v)
  PROVE  CatalogueInv' /\ KeysStay
<1>1. review[v] \in [item : Item \cup {None}, to : Decision] /\ review[v].item \in Item
  BY DEF CatalogueInv, CatalogueTypeOK, EndReview
<1>2. CatalogueTypeOK'
  <2>1. review' \in [Reviewer -> [item : Item \cup {None}, to : Decision]]
    BY DEF CatalogueInv, CatalogueTypeOK, EndReview, NoReview, Decision
  <2>2. item' \in [Item -> ItemStatus] /\ approved' \in SUBSET Item
    BY <1>1 DEF CatalogueInv, CatalogueTypeOK, EndReview, ItemStatus
  <2> QED
    BY <2>1, <2>2 DEF CatalogueInv, CatalogueTypeOK, EndReview
<1>3. OnlyApprovedItemsServe'
  BY <1>1 DEF CatalogueInv, CatalogueTypeOK, OnlyApprovedItemsServe, EndReview
<1>4. FailuresAreCounted' /\ KeysStay
  BY CountsStay DEF CatalogueInv, EndReview, KeysStay
<1> QED
  BY <1>2, <1>3, <1>4 DEF CatalogueInv

(* Nor does a deletion put anything in service.                            *)
LEMMA DeleteKeepsInv ==
  ASSUME CatalogueInv, NEW i \in Item, Delete(i)
  PROVE  CatalogueInv' /\ KeysStay
<1>1. CatalogueTypeOK'
  BY CatalogueAssumption DEF CatalogueInv, CatalogueTypeOK, Delete, Operation, ItemStatus
<1>2. OnlyApprovedItemsServe'
  BY DEF CatalogueInv, CatalogueTypeOK, OnlyApprovedItemsServe, Delete
<1>3. FailuresAreCounted' /\ KeysStay
  BY CountsStay DEF CatalogueInv, Delete, KeysStay
<1> QED
  BY <1>1, <1>2, <1>3 DEF CatalogueInv

(* A new key brings a channel and bindings of its own; other keys keep     *)
(* theirs.                                                                 *)
LEMMA CreateModelKeyKeepsInv ==
  ASSUME CatalogueInv, NEW k \in Key, NEW c \in Channel, NEW specs \in SUBSET ModelSpec,
         CreateModelKey(k, c, specs)
  PROVE  CatalogueInv' /\ KeysStay
<1>1. bind' \in [Binding -> BindStatus]
  BY DEF CatalogueInv, CatalogueTypeOK, CreateModelKey, BindStatusFor, BindStatus
<1>2. CatalogueTypeOK'
  BY <1>1, CatalogueAssumption DEF CatalogueInv, CatalogueTypeOK, CreateModelKey, Operation
<1>3. OnlyApprovedItemsServe' /\ FailuresAreCounted'
  BY CountsStay DEF CatalogueInv, OnlyApprovedItemsServe, CreateModelKey
<1>4. KeysStay
  BY DEF CatalogueInv, CatalogueTypeOK, CreateModelKey, KeysStay
<1> QED
  BY <1>2, <1>3, <1>4 DEF CatalogueInv

(* A further binding changes no key.                                       *)
LEMMA BindKeyModelKeepsInv ==
  ASSUME CatalogueInv, NEW p \in Provider, NEW k \in Key, NEW s \in ModelSpec,
         BindKeyModel(p, k, s)
  PROVE  CatalogueInv' /\ KeysStay
<1>1. bind' \in [Binding -> BindStatus]
  BY DEF CatalogueInv, CatalogueTypeOK, BindKeyModel, BindStatusFor, BindStatus, Binding
<1>2. CatalogueTypeOK'
  BY <1>1, CatalogueAssumption DEF CatalogueInv, CatalogueTypeOK, BindKeyModel, Operation
<1>3. OnlyApprovedItemsServe' /\ FailuresAreCounted' /\ KeysStay
  BY CountsStay DEF CatalogueInv, OnlyApprovedItemsServe, BindKeyModel, KeysStay
<1> QED
  BY <1>2, <1>3 DEF CatalogueInv

(* A disabled key is still there.                                          *)
LEMMA DisableModelKeyKeepsInv ==
  ASSUME CatalogueInv, NEW p \in Provider, NEW k \in Key, DisableModelKey(p, k)
  PROVE  CatalogueInv' /\ KeysStay
<1>1. CatalogueTypeOK'
  BY CatalogueAssumption DEF CatalogueInv, CatalogueTypeOK, DisableModelKey, Operation
<1>2. OnlyApprovedItemsServe' /\ FailuresAreCounted'
  BY CountsStay DEF CatalogueInv, OnlyApprovedItemsServe, DisableModelKey
<1>3. KeysStay
  BY DEF CatalogueInv, CatalogueTypeOK, DisableModelKey, KeysStay
<1> QED
  BY <1>1, <1>2, <1>3 DEF CatalogueInv

(* So is one the operator has made active.                                 *)
LEMMA OperatorActivatesKeepsInv ==
  ASSUME CatalogueInv, NEW k \in Key, OperatorActivates(k)
  PROVE  CatalogueInv' /\ KeysStay
<1>1. bind' \in [Binding -> BindStatus]
  BY DEF CatalogueInv, CatalogueTypeOK, OperatorActivates, BindStatus
<1>2. CatalogueTypeOK'
  BY <1>1, CatalogueAssumption DEF CatalogueInv, CatalogueTypeOK, OperatorActivates, Operation
<1>3. OnlyApprovedItemsServe' /\ FailuresAreCounted'
  BY CountsStay DEF CatalogueInv, OnlyApprovedItemsServe, OperatorActivates
<1>4. KeysStay
  BY DEF CatalogueInv, CatalogueTypeOK, OperatorActivates, KeysStay
<1> QED
  BY <1>2, <1>3, <1>4 DEF CatalogueInv

(* And one whose quota is used up.                                         *)
LEMMA QuotaUsedUpKeepsInv ==
  ASSUME CatalogueInv, NEW k \in Key, QuotaUsedUp(k)
  PROVE  CatalogueInv' /\ KeysStay
<1>1. CatalogueTypeOK'
  BY CatalogueAssumption DEF CatalogueInv, CatalogueTypeOK, QuotaUsedUp, Operation
<1>2. OnlyApprovedItemsServe' /\ FailuresAreCounted' /\ KeysStay
  BY CountsStay DEF CatalogueInv, OnlyApprovedItemsServe, QuotaUsedUp, KeysStay
<1> QED
  BY <1>1, <1>2 DEF CatalogueInv

(* A test begins without touching what it tests ...                        *)
LEMMA BeginTestKeepsInv ==
  ASSUME CatalogueInv, NEW t \in Tester, NEW b \in Binding, BeginTest(t, b)
  PROVE  CatalogueInv' /\ KeysStay
<1>1. CatalogueTypeOK'
  BY CatalogueAssumption DEF CatalogueInv, CatalogueTypeOK, BeginTest, Operation
<1>2. OnlyApprovedItemsServe' /\ FailuresAreCounted' /\ KeysStay
  BY CountsStay DEF CatalogueInv, OnlyApprovedItemsServe, BeginTest, KeysStay
<1> QED
  BY <1>1, <1>2 DEF CatalogueInv

(* ... and ends by counting its result, alone among the bindings', ...     *)
LEMMA EndTestKeepsInv ==
  ASSUME CatalogueInv, NEW t \in Tester, NEW succeeds \in BOOLEAN, EndTest(t, succeeds)
  PROVE  CatalogueInv' /\ KeysStay
<1> DEFINE b == test[t]
<1>1. b \in Binding /\ fails[b] \in Nat /\ results[b] \in Seq(BOOLEAN)
  BY DEF CatalogueInv, CatalogueTypeOK, EndTest
<1>2. fails' \in [Binding -> Nat] /\ results' \in [Binding -> Seq(BOOLEAN)]
  <2>1. Append(results[b], succeeds) \in Seq(BOOLEAN)
    BY <1>1
  <2> QED
    BY <1>1, <2>1 DEF CatalogueInv, CatalogueTypeOK, EndTest
<1>3. CatalogueTypeOK'
  BY <1>2, CatalogueAssumption DEF CatalogueInv, CatalogueTypeOK, EndTest
<1>4. ASSUME NEW d \in Binding PROVE fails'[d] = Streak(results'[d])
  <2>1. fails[d] = Streak(results[d])
    BY DEF CatalogueInv, FailuresAreCounted
  <2>2. CASE d # b
    BY <2>1, <2>2 DEF CatalogueInv, CatalogueTypeOK, EndTest
  <2>3. CASE d = b
    <3>1. /\ fails'[b] = IF succeeds THEN 0 ELSE fails[b] + 1
          /\ results'[b] = Append(results[b], succeeds)
      BY <1>1 DEF CatalogueInv, CatalogueTypeOK, EndTest
    <3>2. succeeds = TRUE \/ succeeds = FALSE
      OBVIOUS
    <3> HIDE DEF b
    <3> QED
      BY <1>1, <2>1, <2>3, <3>1, <3>2, StreakGrows
  <2> QED
    BY <2>2, <2>3
<1>5. FailuresAreCounted'
  BY <1>4 DEF FailuresAreCounted, Streak
<1>6. OnlyApprovedItemsServe' /\ KeysStay
  BY DEF CatalogueInv, OnlyApprovedItemsServe, EndTest, KeysStay
<1> QED
  BY <1>3, <1>5, <1>6 DEF CatalogueInv

(* ... or by losing it.                                                    *)
LEMMA TestResultLostKeepsInv ==
  ASSUME CatalogueInv, NEW t \in Tester, TestResultLost(t)
  PROVE  CatalogueInv' /\ KeysStay
<1>1. CatalogueTypeOK'
  BY CatalogueAssumption DEF CatalogueInv, CatalogueTypeOK, TestResultLost
<1>2. OnlyApprovedItemsServe' /\ FailuresAreCounted' /\ KeysStay
  BY CountsStay DEF CatalogueInv, OnlyApprovedItemsServe, TestResultLost, KeysStay
<1> QED
  BY <1>1, <1>2 DEF CatalogueInv

(* Every operation of the catalogue keeps its invariant, and its keys.     *)
LEMMA CatalogueKeepsInv ==
  ASSUME CatalogueInv, CatalogueNext PROVE CatalogueInv' /\ KeysStay
<1>1. CASE \E c \in Channel, protocols \in Protocols :
              AdminCreateChannel(c, protocols) \/ ProviderCreateChannel(c, protocols)
  BY <1>1, CreateChannelKeepsInv DEF AdminCreateChannel, ProviderCreateChannel
<1>2. CASE \E s \in ModelSpec : CreateModelSpec(s)
  BY <1>2, CreateModelSpecKeepsInv
<1>3. CASE \E i \in Item : Delete(i)
  BY <1>3, DeleteKeepsInv
<1>4. CASE \E v \in Reviewer : AdminReview(v) \/ EndReview(v)
  BY <1>4, BeginReviewKeepsInv, EndReviewKeepsInv DEF AdminReview
<1>5. CASE \E k \in Key : ProviderCreateModelKey(k) \/ OperatorActivates(k) \/ QuotaUsedUp(k)
  BY <1>5, CreateModelKeyKeepsInv, OperatorActivatesKeepsInv, QuotaUsedUpKeepsInv
     DEF ProviderCreateModelKey
<1>6. CASE \E p \in Provider, k \in Key : ProviderBindKeyModel(p, k) \/ DisableModelKey(p, k)
  BY <1>6, BindKeyModelKeepsInv, DisableModelKeyKeepsInv DEF ProviderBindKeyModel
<1>7. CASE \E t \in Tester : ProviderTriggerKeyModelTest(t) \/ TestResultLost(t)
  BY <1>7, BeginTestKeepsInv, TestResultLostKeepsInv DEF ProviderTriggerKeyModelTest
<1>8. CASE \E t \in Tester, succeeds \in BOOLEAN : EndTest(t, succeeds)
  BY <1>8, EndTestKeepsInv
<1> QED
  BY <1>1, <1>2, <1>3, <1>4, <1>5, <1>6, <1>7, <1>8 DEF CatalogueNext

-----------------------------------------------------------------------------
(* The types of what requests and the affinity map hold.                   *)
RequestTypes ==
    /\ at \in [Request -> Place]
    /\ format \in [Request -> Format \cup {None}]
    /\ cands \in [Request -> SUBSET Candidate]
    /\ picked \in [Request -> Candidate \cup {NoCandidate}]
    /\ calls \in [Request -> 0 .. MaxRetries + 1]
    /\ affinity \in [User \X ModelSpec -> Channel \cup {None}]
    /\ reply \in [Request -> {"none", "error", "ok", "chunks then error"}]
    /\ billed \in [Request -> Binding \cup {NoBinding}]

(* What one request relies on, in the state after a step.                  *)
ReliesOn(r) ==
    /\ at'[r] = "pick" => \A c \in cands'[r] : c.binding \in seen'[r]
    /\ at'[r] \in {"send", "respond"} => picked'[r].binding \in seen'[r]
    /\ at'[r] = "respond" =>
          <<UserOf[r], SpecOf[r], home'[picked'[r].binding[1]]>> \in answered'
    /\ billed'[r] # NoBinding =>
          /\ key'[billed'[r][1]] # "absent"
          /\ <<UserOf[r], SpecOf[r], home'[billed'[r][1]]>> \in answered'
    /\ at'[r] = "send" => calls'[r] <= MaxRetries
    /\ at'[r] \notin {"send", "respond"} => calls'[r] = 0

(* The invariant is the catalogue's, the types and what requests rely on.  *)
LEMMA InvHasParts ==
  ASSUME GatewayInv PROVE CatalogueInv /\ RequestTypes
BY DEF GatewayInv, TypeOK, CatalogueInv, RequestTypes

(* To keep the invariant it is enough to keep the catalogue's, the types   *)
(* and what each request relies on.                                        *)
LEMMA InvFromParts ==
  ASSUME CatalogueInv', RequestTypes', seen' \in [Request -> SUBSET Binding],
         \A r \in Request : ReliesOn(r) /\ \A b \in seen'[r] : key'[b[1]] # "absent"
  PROVE  GatewayInv'
BY DEF GatewayInv, TypeOK, CatalogueInv, RequestTypes, ReliesOn, PickedWasServable,
       BilledIsAnswered, SeenThenUsed, CallsAreBounded

(* While a request is handled, what it has seen only grows, and by keys    *)
(* that are there.                                                         *)
LEMMA SeenGrows ==
  ASSUME GatewayInv, Observe, KeysStay
  PROVE  /\ seen' \in [Request -> SUBSET Binding]
         /\ \A r \in Request : \A b \in seen'[r] : key'[b[1]] # "absent"
         /\ \A r \in Request : at'[r] \notin {"new", "done"} =>
                seen[r] \subseteq seen'[r] /\ Servable' \subseteq seen'[r]
<1>1. Servable' \subseteq Binding /\ \A b \in Servable' : key'[b[1]] = "active"
  BY DEF Servable
<1>2. \A r \in Request : seen[r] \in SUBSET Binding
  BY DEF GatewayInv, TypeOK
<1>3. \A r \in Request : \A b \in seen[r] : key'[b[1]] # "absent"
  BY <1>2 DEF GatewayInv, SeenThenUsed, KeysStay, Binding
<1>4. \A r \in Request :
          seen'[r] = IF at'[r] \in {"new", "done"} THEN {} ELSE seen[r] \cup Servable'
  BY DEF Observe
<1> QED
  BY <1>1, <1>2, <1>3, <1>4 DEF Observe

(* What a request relies on outlives the steps of the others and of the    *)
(* catalogue, although it holds copies: keys keep their channel.           *)
LEMMA OthersRely ==
  ASSUME GatewayInv, Observe, KeysStay, answered \subseteq answered', NEW q \in Request,
         at'[q] = at[q], cands'[q] = cands[q], picked'[q] = picked[q],
         calls'[q] = calls[q], billed'[q] = billed[q]
  PROVE  ReliesOn(q)
<1>1. at[q] \notin {"new", "done"} => seen[q] \subseteq seen'[q]
  BY SeenGrows
<1>2. \A b \in seen[q] : b \in Binding /\ key[b[1]] # "absent" /\ home'[b[1]] = home[b[1]]
  <2>1. seen[q] \in SUBSET Binding /\ \A b \in seen[q] : key[b[1]] # "absent"
    BY DEF GatewayInv, TypeOK, SeenThenUsed
  <2>2. \A b \in Binding : b[1] \in Key
    BY DEF Binding
  <2> QED
    BY <2>1, <2>2 DEF KeysStay
<1>3. billed[q] # NoBinding =>
          /\ billed[q] \in Binding /\ key[billed[q][1]] # "absent"
          /\ key'[billed[q][1]] # "absent" /\ home'[billed[q][1]] = home[billed[q][1]]
          /\ <<UserOf[q], SpecOf[q], home[billed[q][1]]>> \in answered
  BY DEF GatewayInv, TypeOK, SeenThenUsed, BilledIsAnswered, KeysStay, Binding
<1>4. at[q] = "pick" => \A c \in cands[q] : c.binding \in seen[q]
  BY DEF GatewayInv, SeenThenUsed
<1>5. at[q] \in {"send", "respond"} => picked[q].binding \in seen[q]
  BY DEF GatewayInv, PickedWasServable
<1>6. at[q] = "respond" => <<UserOf[q], SpecOf[q], home[picked[q].binding[1]]>> \in answered
  BY DEF GatewayInv, SeenThenUsed
<1>7. CallsAreBounded(q)
  BY DEF GatewayInv
<1> QED
  BY <1>1, <1>2, <1>3, <1>4, <1>5, <1>6, <1>7 DEF ReliesOn, CallsAreBounded

(* Operations of the catalogue keep the invariant of the gateway.          *)
LEMMA CatalogueStepKeepsInv ==
  ASSUME GatewayInv, CatalogueNext, UNCHANGED gateway, Observe PROVE GatewayInv'
<1>1. CatalogueInv' /\ KeysStay
  BY InvHasParts, CatalogueKeepsInv
<1>2. RequestTypes'
  BY InvHasParts DEF RequestTypes, gateway
<1>3. ASSUME NEW q \in Request PROVE ReliesOn(q)
  BY <1>1, OthersRely DEF gateway
<1> QED
  BY <1>1, <1>2, <1>3, SeenGrows, InvFromParts

(* A step of one request keeps it if the types and what this request       *)
(* relies on are kept.                                                     *)
LEMMA RequestKeepsInv ==
  ASSUME GatewayInv, NEW r \in Request, UNCHANGED catalogue, Observe,
         RequestTypes', ReliesOn(r), answered \subseteq answered',
         \A q \in Request \ {r} :
            /\ at'[q] = at[q] /\ cands'[q] = cands[q] /\ picked'[q] = picked[q]
            /\ calls'[q] = calls[q] /\ billed'[q] = billed[q]
  PROVE  GatewayInv'
<1>1. CatalogueInv'
  BY InvHasParts DEF CatalogueInv, CatalogueTypeOK, OnlyApprovedItemsServe,
        FailuresAreCounted, catalogue
<1>2. KeysStay
  BY DEF KeysStay, catalogue
<1>3. ASSUME NEW q \in Request PROVE ReliesOn(q)
  BY <1>2, OthersRely
<1> QED
  BY <1>1, <1>2, <1>3, SeenGrows, InvFromParts

(* There is a call to make, and counting it stays in bounds.               *)
LEMMA CallsBegin ==
    /\ 0 \in 0 .. MaxRetries + 1
    /\ \A n \in 0 .. MaxRetries : n + 1 \in 0 .. MaxRetries + 1
    /\ \A n \in 0 .. MaxRetries + 1 : n <= MaxRetries => n \in 0 .. MaxRetries
BY GatewayAssumption

(* A request that returns holds nothing more; what is billed was picked,   *)
(* and picked from what was seen.                                          *)
LEMMA ReturnKeepsInv ==
  ASSUME GatewayInv, NEW r \in Request, UNCHANGED catalogue, Observe,
         NEW what \in {"error", "ok", "chunks then error"}, Return(r, what),
         affinity' \in [User \X ModelSpec -> Channel \cup {None}], answered' = answered,
         billed' = billed \/ (at[r] = "respond" /\ EnqueueSettlement(r))
  PROVE  GatewayInv'
<1>1. RequestTypes
  BY InvHasParts
<1>2. at[r] = "respond" =>
          /\ picked[r].binding \in Binding /\ key[picked[r].binding[1]] # "absent"
          /\ <<UserOf[r], SpecOf[r], home[picked[r].binding[1]]>> \in answered
  BY DEF GatewayInv, TypeOK, SeenThenUsed, PickedWasServable
<1>3. billed' \in [Request -> Binding \cup {NoBinding}]
  BY <1>1, <1>2 DEF RequestTypes, EnqueueSettlement
<1>4. RequestTypes'
  <2>1. /\ at' \in [Request -> Place] /\ format' \in [Request -> Format \cup {None}]
        /\ reply' \in [Request -> {"none", "error", "ok", "chunks then error"}]
    BY <1>1 DEF RequestTypes, Return, Place
  <2>2. /\ cands' \in [Request -> SUBSET Candidate]
        /\ picked' \in [Request -> Candidate \cup {NoCandidate}]
    BY <1>1 DEF RequestTypes, Return
  <2>3. calls' \in [Request -> 0 .. MaxRetries + 1]
    BY <1>1, CallsBegin DEF RequestTypes, Return
  <2> QED
    BY <1>3, <2>1, <2>2, <2>3 DEF RequestTypes
<1>5. at'[r] = "done" /\ calls'[r] = 0
  BY <1>1 DEF RequestTypes, Return
<1>6. billed'[r] # NoBinding =>
          /\ key[billed'[r][1]] # "absent"
          /\ <<UserOf[r], SpecOf[r], home[billed'[r][1]]>> \in answered
  <2>1. CASE billed' = billed
    BY <2>1 DEF GatewayInv, SeenThenUsed, BilledIsAnswered
  <2>2. CASE at[r] = "respond" /\ EnqueueSettlement(r)
    BY <1>1, <1>2, <2>2 DEF RequestTypes, EnqueueSettlement
  <2> QED
    BY <2>1, <2>2
<1>7. ReliesOn(r)
  BY <1>5, <1>6 DEF ReliesOn, catalogue
<1>8. \A q \in Request \ {r} :
          /\ at'[q] = at[q] /\ cands'[q] = cands[q] /\ picked'[q] = picked[q]
          /\ calls'[q] = calls[q] /\ billed'[q] = billed[q]
  BY <1>1 DEF RequestTypes, Return, EnqueueSettlement
<1> QED
  BY <1>4, <1>7, <1>8, RequestKeepsInv

(* A refusal is a return with an error that changes nothing else.          *)
LEMMA RefuseKeepsInv ==
  ASSUME GatewayInv, NEW r \in Request, UNCHANGED catalogue, Observe, Refuse(r)
  PROVE  GatewayInv'
<1>1. affinity' \in [User \X ModelSpec -> Channel \cup {None}]
  BY InvHasParts DEF RequestTypes, Refuse
<1> QED
  BY <1>1, ReturnKeepsInv DEF Refuse

(* The affinity map names the channel of what was picked, which is one.    *)
LEMMA AffinityIsTyped ==
  ASSUME GatewayInv, NEW r \in Request, at[r] = "respond", SetAffinity(r)
  PROVE  affinity' \in [User \X ModelSpec -> Channel \cup {None}]
<1>1. picked[r].binding \in Binding
  BY DEF GatewayInv, TypeOK, PickedWasServable
<1>2. home[picked[r].binding[1]] \in Channel \cup {None}
  BY <1>1, InvHasParts DEF CatalogueInv, CatalogueTypeOK, Binding
<1> QED
  BY <1>2, InvHasParts DEF RequestTypes, SetAffinity

(* Both ways of answering keep the invariant.                              *)
LEMMA RespondKeepsInv ==
  ASSUME GatewayInv, NEW r \in Request, UNCHANGED catalogue, Observe,
         BufferedResponse(r) \/ StreamResponse(r)
  PROVE  GatewayInv'
<1>1. at[r] = "respond" /\ SetAffinity(r) /\ answered' = answered
  BY DEF BufferedResponse, StreamResponse
<1>2. affinity' \in [User \X ModelSpec -> Channel \cup {None}]
  BY <1>1, AffinityIsTyped
<1>3. billed' = billed \/ EnqueueSettlement(r)
  BY DEF BufferedResponse, StreamResponse
<1>4. PICK what \in {"error", "ok", "chunks then error"} : Return(r, what)
  BY DEF BufferedResponse, StreamResponse
<1> QED
  BY <1>1, <1>2, <1>3, <1>4, ReturnKeepsInv

(* A request that arrives and finds its model has loaded nothing yet.      *)
LEMMA EarlyStepKeepsInv ==
  ASSUME GatewayInv, NEW r \in Request, UNCHANGED catalogue, Observe,
         (\E path \in Path : Arrive(r, path)) \/ ResolveModelSpec(r)
  PROVE  GatewayInv'
<1>1. RequestTypes
  BY InvHasParts
<1>2. /\ at[r] \in {"new", "resolve"} /\ at' \in [Request -> Place]
      /\ at'[r] \in {"resolve", "load"} /\ \A q \in Request \ {r} : at'[q] = at[q]
      /\ UNCHANGED <<cands, picked, calls, affinity, reply, billed, answered>>
  BY <1>1 DEF RequestTypes, Arrive, ResolveModelSpec, Goto, Place
<1>3. format' \in [Request -> Format \cup {None}]
  <2>1. CASE ResolveModelSpec(r)
    BY <1>1, <2>1 DEF RequestTypes, ResolveModelSpec
  <2>2. ASSUME NEW path \in Path, Arrive(r, path)
        PROVE  format' \in [Request -> Format \cup {None}]
    <3>1. PICK body \in Bodies : format' = [format EXCEPT ![r] = InboundFormat(body, path)]
      BY <2>2 DEF Arrive
    <3>2. InboundFormat(body, path) \in Format
      BY InboundFormatIsKnown
    <3> QED
      BY <1>1, <3>1, <3>2 DEF RequestTypes
  <2> QED
    BY <2>1, <2>2
<1>4. RequestTypes'
  BY <1>1, <1>2, <1>3 DEF RequestTypes
<1>5. calls[r] = 0
  BY <1>2 DEF GatewayInv, CallsAreBounded
<1>6. billed[r] # NoBinding =>
          /\ key[billed[r][1]] # "absent"
          /\ <<UserOf[r], SpecOf[r], home[billed[r][1]]>> \in answered
  BY DEF GatewayInv, SeenThenUsed, BilledIsAnswered
<1>7. ReliesOn(r)
  BY <1>2, <1>5, <1>6 DEF ReliesOn, catalogue
<1> QED
  BY <1>2, <1>4, <1>7, RequestKeepsInv

(* A candidate made of a binding in service is complete.                   *)
LEMMA CandidateIsComplete ==
  ASSUME GatewayInv, NEW b \in Servable, NEW protocol \in [Channel -> AllowedProtocolKeys]
  PROVE  CandidateOf(b, protocol) \in Candidate /\ CandidateOf(b, protocol).binding = b
<1>1. b \in Binding /\ home[b[1]] \in Channel
  BY DEF Servable
<1>2. HealthScore(fails[b]) \in Nat
  BY <1>1, InvHasParts, HealthIsANumber DEF CatalogueInv, CatalogueTypeOK
<1>3. Priority[home[b[1]]] \in Int /\ Weight[home[b[1]]] \in Int
  BY <1>1, GatewayAssumption
<1>4. protocol[home[b[1]]] \in AllowedProtocolKeys
  BY <1>1
<1> QED
  BY <1>1, <1>2, <1>3, <1>4 DEF CandidateOf, Candidate

(* What is loaded is in service at that moment.                            *)
LEMMA LoadKeepsInv ==
  ASSUME GatewayInv, NEW r \in Request, UNCHANGED catalogue, Observe, LoadCandidates(r)
  PROVE  GatewayInv'
<1>1. RequestTypes
  BY InvHasParts
<1>2. PICK protocol \in Matches(r) :
          cands' = [cands EXCEPT ![r] = {CandidateOf(b, protocol) : b \in ActiveCandidates(r)}]
  BY DEF LoadCandidates
<1>3. protocol \in [Channel -> AllowedProtocolKeys]
  BY DEF Matches
<1>4. ActiveCandidates(r) \subseteq Servable
  BY DEF ActiveCandidates
<1>5. {CandidateOf(b, protocol) : b \in ActiveCandidates(r)} \in SUBSET Candidate
  BY <1>3, <1>4, CandidateIsComplete
<1>6. /\ at[r] = "load" /\ at' \in [Request -> Place] /\ at'[r] = "pick"
      /\ \A q \in Request \ {r} : at'[q] = at[q]
      /\ UNCHANGED <<format, picked, calls, affinity, reply, billed, answered>>
  BY <1>1 DEF RequestTypes, LoadCandidates, Goto, Place
<1>7. /\ cands' \in [Request -> SUBSET Candidate]
      /\ cands'[r] = {CandidateOf(b, protocol) : b \in ActiveCandidates(r)}
      /\ \A q \in Request \ {r} : cands'[q] = cands[q]
  BY <1>1, <1>2, <1>5 DEF RequestTypes
<1>8. RequestTypes'
  BY <1>1, <1>6, <1>7 DEF RequestTypes
<1>9. ASSUME NEW c \in cands'[r] PROVE c.binding \in seen'[r]
  <2>1. c.binding \in Servable
    BY <1>3, <1>4, <1>7, CandidateIsComplete
  <2>2. Servable' = Servable
    BY DEF Servable, catalogue
  <2>3. KeysStay
    BY DEF KeysStay, catalogue
  <2> QED
    BY <1>6, <2>1, <2>2, <2>3, SeenGrows
<1>10. calls[r] = 0
  BY <1>6 DEF GatewayInv, CallsAreBounded
<1>11. billed[r] # NoBinding =>
          /\ key[billed[r][1]] # "absent"
          /\ <<UserOf[r], SpecOf[r], home[billed[r][1]]>> \in answered
  BY DEF GatewayInv, SeenThenUsed, BilledIsAnswered
<1>12. ReliesOn(r)
  BY <1>6, <1>9, <1>10, <1>11 DEF ReliesOn, catalogue
<1> QED
  BY <1>6, <1>7, <1>8, <1>12, RequestKeepsInv

(* Neither the affinity map nor the scheduler picks anything else.         *)
LEMMA PickKeepsInv ==
  ASSUME GatewayInv, NEW r \in Request, UNCHANGED catalogue, Observe, Pick(r)
  PROVE  GatewayInv'
<1>1. RequestTypes
  BY InvHasParts
<1>2. PICK c \in MayPick(r) : picked' = [picked EXCEPT ![r] = c]
  BY DEF Pick
<1>3. /\ at[r] = "pick" /\ at' \in [Request -> Place] /\ at'[r] = "send"
      /\ \A q \in Request \ {r} : at'[q] = at[q]
      /\ UNCHANGED <<format, calls, affinity, reply, billed, answered>>
      /\ cands' = [cands EXCEPT ![r] = {}]
  BY <1>1 DEF RequestTypes, Pick, Goto, Place
<1>4. c \in Candidate /\ c.binding \in seen[r]
  BY <1>1, <1>2, <1>3, PicksAreCandidates DEF RequestTypes, GatewayInv, SeenThenUsed
<1>5. /\ cands' \in [Request -> SUBSET Candidate]
      /\ picked' \in [Request -> Candidate \cup {NoCandidate}] /\ picked'[r] = c
      /\ \A q \in Request \ {r} : cands'[q] = cands[q] /\ picked'[q] = picked[q]
  BY <1>1, <1>2, <1>3, <1>4 DEF RequestTypes
<1>6. RequestTypes'
  BY <1>1, <1>3, <1>5 DEF RequestTypes
<1>7. c.binding \in seen'[r]
  <2>1. KeysStay
    BY DEF KeysStay, catalogue
  <2> QED
    BY <1>3, <1>4, <2>1, SeenGrows
<1>8. calls[r] <= MaxRetries
  <2>1. calls[r] = 0
    BY <1>3 DEF GatewayInv, CallsAreBounded
  <2> QED
    BY <2>1, GatewayAssumption
<1>9. billed[r] # NoBinding =>
          /\ key[billed[r][1]] # "absent"
          /\ <<UserOf[r], SpecOf[r], home[billed[r][1]]>> \in answered
  BY DEF GatewayInv, SeenThenUsed, BilledIsAnswered
<1>10. ReliesOn(r)
  BY <1>3, <1>5, <1>7, <1>8, <1>9 DEF ReliesOn, catalogue
<1> QED
  BY <1>3, <1>5, <1>6, <1>10, RequestKeepsInv

(* A call keeps the candidate, whether it is answered or made once more;   *)
(* an answer is the channel's whose key was picked.                        *)
LEMMA CallKeepsInv ==
  ASSUME GatewayInv, NEW r \in Request, UNCHANGED catalogue, Observe,
         RequestAnswered(r) \/ Retry(r)
  PROVE  GatewayInv'
<1>1. RequestTypes
  BY InvHasParts
<1>2. /\ at[r] = "send" /\ calls' = [calls EXCEPT ![r] = @ + 1]
      /\ UNCHANGED <<format, cands, picked, reply, billed>> /\ answered \subseteq answered'
  BY DEF RequestAnswered, Retry
<1>3. calls[r] \in 0 .. MaxRetries
  <2>1. calls[r] \in 0 .. MaxRetries + 1
    BY <1>1 DEF RequestTypes
  <2>2. calls[r] <= MaxRetries
    BY <1>2 DEF GatewayInv, CallsAreBounded
  <2> QED
    BY <2>1, <2>2, CallsBegin
<1>4. calls' \in [Request -> 0 .. MaxRetries + 1] /\ calls'[r] = calls[r] + 1
  BY <1>1, <1>2, <1>3, CallsBegin DEF RequestTypes
<1>5. /\ at' \in [Request -> Place] /\ \A q \in Request \ {r} : at'[q] = at[q]
      /\ \/ at'[r] = "send" /\ Retry(r)
         \/ at'[r] = "respond" /\ RequestAnswered(r)
  BY <1>1 DEF RequestTypes, RequestAnswered, Retry, Goto, Place
<1>6. affinity' \in [User \X ModelSpec -> Channel \cup {None}]
  BY <1>1 DEF RequestTypes, RequestAnswered, Retry
<1>7. RequestTypes'
  BY <1>1, <1>2, <1>4, <1>5, <1>6 DEF RequestTypes
<1>8. picked'[r].binding \in seen'[r]
  <2>1. KeysStay
    BY DEF KeysStay, catalogue
  <2>2. picked[r].binding \in seen[r]
    BY <1>2 DEF GatewayInv, PickedWasServable
  <2> QED
    BY <1>2, <1>5, <2>1, <2>2, SeenGrows
<1>9. RequestAnswered(r) =>
          <<UserOf[r], SpecOf[r], home'[picked'[r].binding[1]]>> \in answered'
  BY DEF RequestAnswered, catalogue
<1>10. Retry(r) => calls'[r] <= MaxRetries
  <2>1. Retry(r) => calls[r] < MaxRetries
    BY DEF Retry, ShouldRetry
  <2> QED
    BY <1>3, <1>4, <2>1, GatewayAssumption
<1>11. billed[r] # NoBinding =>
          /\ key[billed[r][1]] # "absent"
          /\ <<UserOf[r], SpecOf[r], home[billed[r][1]]>> \in answered
  BY DEF GatewayInv, SeenThenUsed, BilledIsAnswered
<1>12. ReliesOn(r)
  BY <1>2, <1>5, <1>8, <1>9, <1>10, <1>11 DEF ReliesOn, catalogue
<1>13. \A q \in Request \ {r} : calls'[q] = calls[q]
  BY <1>1, <1>2 DEF RequestTypes
<1> QED
  BY <1>2, <1>5, <1>7, <1>12, <1>13, RequestKeepsInv

(* An entry of the affinity map that expires touches no request.           *)
LEMMA ExpiryKeepsInv ==
  ASSUME GatewayInv, NEW us \in User \X ModelSpec, UNCHANGED catalogue, Observe,
         AffinityExpires(us)
  PROVE  GatewayInv'
<1>1. RequestTypes'
  BY InvHasParts DEF RequestTypes, AffinityExpires
<1>2. CatalogueInv'
  BY InvHasParts DEF CatalogueInv, CatalogueTypeOK, OnlyApprovedItemsServe,
        FailuresAreCounted, catalogue
<1>3. KeysStay
  BY DEF KeysStay, catalogue
<1>4. ASSUME NEW q \in Request PROVE ReliesOn(q)
  BY <1>3, OthersRely DEF AffinityExpires
<1> QED
  BY <1>1, <1>2, <1>3, <1>4, SeenGrows, InvFromParts

(* Nor does a step that changes nothing.                                   *)
LEMMA StutterKeepsInv == GatewayInv /\ UNCHANGED vars => GatewayInv'
BY DEF vars, gateway, catalogue, GatewayInv, TypeOK, CatalogueTypeOK, OnlyApprovedItemsServe,
       FailuresAreCounted, PickedWasServable, BilledIsAnswered, SeenThenUsed, CallsAreBounded

(* At the start nothing is loaded, and whatever is active was approved.    *)
LEMMA InitEstablishesInv == Init => GatewayInv
<1> SUFFICES ASSUME Init PROVE GatewayInv
  OBVIOUS
<1>1. CatalogueInit
  BY DEF Init
<1>2. PICK stage \in {"absent", "pending", "active"} :
          /\ item = [i \in Item |-> IF i \in Channel /\ stage = "pending" THEN "active" ELSE stage]
          /\ key \in [Key -> IF stage = "pending" THEN {"absent", stage} ELSE {stage}]
          /\ bind \in {f \in [Binding -> BindStatus] : \A b \in Binding : f[b] \in SeedBind(key[b[1]])}
          /\ proto = IF stage = "absent" THEN [c \in Channel |-> {}] ELSE SeedProtocols
          /\ home = [k \in Key |-> IF key[k] = "absent" THEN None ELSE SeedHome[k]]
  BY <1>1 DEF CatalogueInit
<1>3. /\ item \in [Item -> ItemStatus] /\ bind \in [Binding -> BindStatus]
      /\ proto \in [Channel -> Protocols \cup {{}}]
      /\ home \in [Key -> Channel \cup {None}]
  <2>1. item \in [Item -> ItemStatus] /\ bind \in [Binding -> BindStatus]
    BY <1>2 DEF ItemStatus, Decision
  <2>2. proto \in [Channel -> Protocols \cup {{}}]
    BY <1>2, CatalogueAssumption
  <2>3. home \in [Key -> Channel \cup {None}]
    BY <1>2, CatalogueAssumption
  <2> QED
    BY <2>1, <2>2, <2>3
<1>4. key \in [Key -> {"absent", "pending", "active", "disabled"}]
  BY <1>2
<1>5. ops \in 0 .. MaxOps
  BY <1>1, CatalogueAssumption DEF CatalogueInit
<1>6. CatalogueTypeOK
  BY <1>1, <1>3, <1>4, <1>5 DEF CatalogueInit, CatalogueTypeOK, NoReview, Decision
<1>7. OnlyApprovedItemsServe /\ FailuresAreCounted
  BY <1>1, NoStreak DEF CatalogueInit, OnlyApprovedItemsServe, FailuresAreCounted
<1>8. TypeOK
  BY <1>6, CallsBegin DEF Init, TypeOK, Place
<1>9. ASSUME NEW r \in Request PROVE SeenThenUsed(r) /\ CallsAreBounded(r)
  BY DEF Init, SeenThenUsed, CallsAreBounded
<1>10. PickedWasServable /\ BilledIsAnswered
  BY DEF Init, PickedWasServable, BilledIsAnswered
<1> QED
  BY <1>7, <1>8, <1>9, <1>10 DEF GatewayInv

(* Every step of a request, of the catalogue and of time keeps it.         *)
LEMMA StepKeepsInv == GatewayInv /\ [Next]_vars => GatewayInv'
<1> SUFFICES ASSUME GatewayInv, [Next]_vars PROVE GatewayInv'
  OBVIOUS
<1>1. CASE CatalogueNext /\ UNCHANGED gateway /\ Observe
  BY <1>1, CatalogueStepKeepsInv
<1>2. ASSUME UNCHANGED catalogue, Observe, NEW r \in Request, Step(r) PROVE GatewayInv'
  <2>1. CASE \E path \in Path : Arrive(r, path)
    BY <1>2, <2>1, EarlyStepKeepsInv
  <2>2. CASE ResolveModelSpec(r)
    BY <1>2, <2>2, EarlyStepKeepsInv
  <2>3. CASE Rejected(r) \/ ModelNotFound(r) \/ NoCandidates(r) \/ PickFails(r) \/ RequestFails(r)
    BY <1>2, <2>3, RefuseKeepsInv
       DEF Rejected, ModelNotFound, NoCandidates, PickFails, RequestFails
  <2>4. CASE LoadCandidates(r)
    BY <1>2, <2>4, LoadKeepsInv
  <2>5. CASE Pick(r)
    BY <1>2, <2>5, PickKeepsInv
  <2>6. CASE RequestAnswered(r) \/ Retry(r)
    BY <1>2, <2>6, CallKeepsInv
  <2>7. CASE BufferedResponse(r) \/ StreamResponse(r)
    BY <1>2, <2>7, RespondKeepsInv
  <2> QED
    BY <1>2, <2>1, <2>2, <2>3, <2>4, <2>5, <2>6, <2>7 DEF Step, OwnStep, PeerStep
<1>3. ASSUME UNCHANGED catalogue, Observe, NEW us \in User \X ModelSpec, AffinityExpires(us)
      PROVE  GatewayInv'
  BY <1>3, ExpiryKeepsInv
<1>4. CASE UNCHANGED vars
  BY <1>4, StutterKeepsInv
<1> QED
  BY <1>1, <1>2, <1>3, <1>4 DEF Next, GatewayNext

(* The inductive invariant holds for any number of requests, channels,     *)
(* keys, reviewers and testers.                                            *)
THEOREM GatewayInvariant == Spec => []GatewayInv
<1>1. Init => GatewayInv
  BY InitEstablishesInv
<1>2. GatewayInv /\ [Next]_vars => GatewayInv'
  BY StepKeepsInv
<1> QED
  BY <1>1, <1>2, PTL DEF Spec

(* A request is sent only to a binding that has been in service since it   *)
(* arrived (handler.go:144, handler.go:228).                               *)
THEOREM RequestsGoToServedBindings == Spec => []PickedWasServable
<1>1. GatewayInv => PickedWasServable
  BY DEF GatewayInv
<1> QED
  BY <1>1, GatewayInvariant, PTL

(* Whoever a settlement task pays has answered this user for this model    *)
(* (handler.go:209, handler.go:260, handler.go:464).                       *)
THEOREM ThePaidHaveAnswered == Spec => []BilledIsAnswered
<1>1. GatewayInv => BilledIsAnswered
  BY DEF GatewayInv
<1> QED
  BY <1>1, GatewayInvariant, PTL

(* consecutive_failures is the length of the trailing streak of failures,  *)
(* however many tests of the binding overlap (key.go:556).                 *)
THEOREM FailuresAreExact == Spec => []FailuresAreCounted
<1>1. GatewayInv => FailuresAreCounted
  BY DEF GatewayInv
<1> QED
  BY <1>1, GatewayInvariant, PTL

(* Nothing is in service that no administrator created or approved,        *)
(* whatever reviews, deletions and creations overlap (channel.go:99,       *)
(* channel.go:187, model.go:110).                                          *)
THEOREM ServiceIsApproved == Spec => []OnlyApprovedItemsServe
<1>1. GatewayInv => OnlyApprovedItemsServe
  BY DEF GatewayInv
<1> QED
  BY <1>1, GatewayInvariant, PTL

-----------------------------------------------------------------------------
(* The formats of a request on its way to the vendor and back *)

(* The fields of a body.                                                   *)
LEMMA BodyHas ==
  \A f, s, m :
     Body(f, s, m).format = f /\ Body(f, s, m).system = s /\ Body(f, s, m).msgs = m
BY DEF Body

(* Every channel gets one of nine adaptors, or none.                       *)
LEMMA AdaptorsAre ==
  ASSUME NEW v
  PROVE  getByProviderType(v) \in
            {OpenAI, Claude, Gemini, BothEndpoints, BaiduV2, Ollama, Coze, Dify, Jimeng, NoAdaptor}
<1>1. getByProtocol(v) \in {OpenAI, Claude, Gemini, BothEndpoints, BaiduV2, Ollama, NoAdaptor}
  BY Zenon DEF getByProtocol, Ali, DeepSeek, Zhipu, Moonshot, Mistral, XAI, SiliconFlow, Volcengine, MiniMax, Tencent,
         Xunfei, Cloudflare, Vertex, AWS
<1>2. getByProviderType(v) \in {Coze, Dify, Jimeng, Codex, Submodel, getByProtocol(v)}
  BY Zenon DEF getByProviderType
<1>3. Codex = Jimeng /\ Submodel = OpenAI
  BY DEF Codex, Submodel, Jimeng
<1> QED
  BY <1>1, <1>2, <1>3, Zenon

(* What an adaptor makes of an OpenAI body is in the format of the endpoint *)
(* its URL belongs to, and so is the answer it reads.                      *)
LEMMA AdaptorsAgree ==
  ASSUME NEW v, NEW b, b.format = "openai", NEW fs,
         getByProviderType(v) # NoAdaptor, ConvertRequest(getByProviderType(v), b, fs) # Refused
  PROVE  /\ ConvertRequest(getByProviderType(v), b, fs).format = getByProviderType(v).endpoint
         /\ ReadAs(getByProviderType(v), "openai") = getByProviderType(v).endpoint
         /\ WrittenAs(getByProviderType(v), "openai") = "openai"
<1> DEFINE a == getByProviderType(v)
<1> SUFFICES /\ ConvertRequest(a, b, fs).format = a.endpoint
             /\ ReadAs(a, "openai") = a.endpoint /\ WrittenAs(a, "openai") = "openai"
  OBVIOUS
<1>0. a # NoAdaptor /\ ConvertRequest(a, b, fs) # Refused
  OBVIOUS
<1>1. a \in {OpenAI, Claude, Gemini, BothEndpoints, BaiduV2, Ollama, Coze, Dify, Jimeng, NoAdaptor}
  BY AdaptorsAre
<1> HIDE DEF a
<1>2. WrittenAs(a, "openai") = "openai"
  BY DEF WrittenAs
<1>3. ConvertToOpenAI(b, fs) = b
  BY DEF ConvertToOpenAI
<1>4. CASE a \in {OpenAI, BothEndpoints, BaiduV2}
  <2>1. "openai" \in a.passes /\ "openai" \in a.reads /\ a.endpoint = "openai"
    BY <1>4 DEF OpenAI, BothEndpoints, BaiduV2, Adaptor, Formats
  <2>2. ConvertRequest(a, b, fs) = b
    BY <2>1 DEF ConvertRequest
  <2> QED
    BY <1>2, <2>1, <2>2 DEF ReadAs
<1>5. CASE a = Claude
  <2>1. "openai" \notin a.passes /\ "openai" \notin a.reads /\ a.endpoint = "claude" /\ a.wire = "claude"
    BY <1>5 DEF Claude, Adaptor
  <2>2. ConvertRequest(a, b, fs) = ConvertToClaude(b, fs)
    BY <2>1 DEF ConvertRequest
  <2>3. ConvertToClaude(b, fs).format = "claude"
    <3>1. \A f, s, m : Body(f, s, m).format = f
      BY BodyHas
    <3> QED
      BY <3>1, Zenon DEF ConvertToClaude, ConvertOpenAIToClaude
  <2> QED
    BY <1>2, <2>1, <2>2, <2>3 DEF ReadAs
<1>6. CASE a = Gemini
  <2>1. "openai" \notin a.passes /\ "openai" \notin a.reads /\ a.endpoint = "gemini" /\ a.wire = "gemini"
    BY <1>6 DEF Gemini, Adaptor
  <2>2. ConvertRequest(a, b, fs) = ConvertToGemini(b, fs)
    BY <2>1 DEF ConvertRequest
  <2>3. ConvertToGemini(b, fs).format = "gemini"
    BY BodyHas, Zenon DEF ConvertToGemini, ConvertOpenAIToGemini
  <2> QED
    BY <1>2, <2>1, <2>2, <2>3 DEF ReadAs
<1>7. CASE a = Ollama
  <2>1. "openai" \notin a.passes /\ "openai" \notin a.reads /\ a.endpoint = "ollama" /\ a.wire = "ollama"
    BY <1>7 DEF Ollama, Adaptor
  <2>2. ConvertRequest(a, b, fs) = convertChatRequest(b)
    BY <1>3, <2>1 DEF ConvertRequest
  <2>3. convertChatRequest(b).format = "ollama"
    BY BodyHas, Zenon DEF convertChatRequest
  <2> QED
    BY <1>2, <2>1, <2>2, <2>3 DEF ReadAs
<1>8. CASE a = Coze
  <2>1. "openai" \notin a.passes /\ "openai" \notin a.reads /\ a.endpoint = "coze" /\ a.wire = "coze"
    BY <1>8 DEF Coze, Adaptor
  <2>2. ConvertRequest(a, b, fs) = convertOpenAIToCoze(b)
    BY <1>3, <2>1 DEF ConvertRequest
  <2>3. convertOpenAIToCoze(b) # Refused => convertOpenAIToCoze(b).format = "coze"
    BY BodyHas, Zenon DEF convertOpenAIToCoze
  <2> QED
    BY <1>0, <1>2, <2>1, <2>2, <2>3 DEF ReadAs
<1>9. CASE a = Dify
  <2>1. "openai" \notin a.passes /\ "openai" \notin a.reads /\ a.endpoint = "dify" /\ a.wire = "dify"
    BY <1>9 DEF Dify, Adaptor
  <2>2. ConvertRequest(a, b, fs) = convertOpenAIToDify(b)
    BY <1>3, <2>1 DEF ConvertRequest
  <2>3. convertOpenAIToDify(b) # Refused => convertOpenAIToDify(b).format = "dify"
    BY BodyHas, Zenon DEF convertOpenAIToDify
  <2> QED
    BY <1>0, <1>2, <2>1, <2>2, <2>3 DEF ReadAs
<1>10. CASE a = Jimeng
  <2>1. "openai" \notin a.passes /\ a.wire = "refused"
    BY <1>10 DEF Jimeng, Adaptor
  <2>2. ConvertRequest(a, b, fs) = Refused
    BY <2>1 DEF ConvertRequest
  <2> QED
    BY <1>0, <2>2
<1> QED
  BY <1>0, <1>1, <1>4, <1>5, <1>6, <1>7, <1>8, <1>9, <1>10

(* What is sent is what the channel's adaptor makes of the conversation.   *)
LEMMA SentStaysConverted == SentIsConverted /\ [PathNext]_pathVars => SentIsConverted'
<1> SUFFICES ASSUME SentIsConverted, [PathNext]_pathVars
             PROVE  SentIsConverted'
  OBVIOUS
<1>0. /\ "talking" \notin {"sent"} \cup Formats /\ "refused" \notin {"sent"} \cup Formats
      /\ "sent" \in {"sent"} \cup Formats
  BY DEF Formats
<1>1. ASSUME Say
      PROVE  SentIsConverted'
  <2>1. ~IsSent' /\ client' \in Clients
    BY <1>0, <1>1 DEF Say, IsSent, SentIsConverted
  <2> QED
    BY <2>1 DEF SentIsConverted
<1>2. ASSUME NEW v, NEW shape, DoRequest(v, shape)
      PROVE  SentIsConverted'
  <2>1. turns' = turns /\ client' = client /\ vendor' = v /\ client' \in Clients
    BY <1>2 DEF DoRequest, SentIsConverted
  <2>2. CASE outcome' = "refused"
    <3>1. ~IsSent'
      BY <1>0, <2>2 DEF IsSent
    <3> QED
      BY <2>1, <3>1 DEF SentIsConverted
  <2>3. CASE outcome' # "refused"
    <3> DEFINE a == getByProviderType(v)
               body == ConvertRequest(a, Encoded(client, turns), Functions)
    <3>1. a # NoAdaptor /\ body # Refused /\ outcome' = "sent" /\ sent' = body
      BY <1>2, <2>3 DEF DoRequest
    <3> HIDE DEF a
    <3>2. Via' = a
      BY <2>1 DEF Via, a
    <3> QED
      BY <2>1, <3>1, <3>2 DEF SentIsConverted
  <2> QED
    BY <2>2, <2>3
<1>3. ASSUME DoResponse
      PROVE  SentIsConverted'
  <2>1. /\ turns' = turns /\ client' = client /\ vendor' = vendor /\ sent' = sent
        /\ outcome = "sent" /\ outcome' = WrittenAs(Via, client)
    BY <1>3 DEF DoResponse, Via
  <2>2. Via' = Via
    BY <2>1 DEF Via
  <2>3. IsSent
    BY <1>0, <2>1 DEF IsSent
  <2> QED
    BY <2>1, <2>2, <2>3 DEF SentIsConverted
<1>4. ASSUME UNCHANGED pathVars
      PROVE  SentIsConverted'
  BY <1>4 DEF pathVars, SentIsConverted, IsSent, Via
<1> QED
  BY <1>1, <1>2, <1>3, <1>4 DEF PathNext

(* The invariant of a request's way to the vendor and back.                *)
THEOREM SentIsConvertedAlways == PathSpec => []SentIsConverted
<1>1. PathInit => SentIsConverted
  BY DEF PathInit, SentIsConverted, IsSent, Formats
<1> QED
  BY <1>1, SentStaysConverted, PTL DEF PathSpec

(* A client of OpenAI's format is served in one format at each hop, through *)
(* whatever channel its request goes and whatever it says: the body, the   *)
(* URL and the reading of the answer agree (relay/channel/registry.go).    *)
THEOREM EveryHopSpeaksOneFormat == PathSpec => []HopsSpeakOneFormat
<1>1. SentIsConverted => HopsSpeakOneFormat
  <2> SUFFICES ASSUME SentIsConverted, IsSent, client = "openai"
               PROVE  /\ sent.format = Via.endpoint
                      /\ ReadAs(Via, client) = Via.endpoint
                      /\ outcome # "sent" => outcome = client
    BY DEF HopsSpeakOneFormat
  <2> DEFINE b == Encoded(client, turns)
  <2>1. b.format = "openai"
    BY BodyHas, Zenon DEF Encoded, EncodeOpenAI
  <2>2. /\ sent = ConvertRequest(Via, b, Functions) /\ sent # Refused /\ Via # NoAdaptor
        /\ outcome # "sent" => outcome = WrittenAs(Via, client)
    BY DEF SentIsConverted
  <2> HIDE DEF b
  <2>3. /\ ConvertRequest(Via, b, Functions).format = Via.endpoint
        /\ ReadAs(Via, "openai") = Via.endpoint /\ WrittenAs(Via, "openai") = "openai"
    BY <2>1, <2>2, AdaptorsAgree DEF Via
  <2> QED
    BY <2>2, <2>3
<1> QED
  BY <1>1, SentIsConvertedAlways, PTL

-----------------------------------------------------------------------------
(* Who says what on the way to the vendor *)

(* The tokens of a speaker, the parts a message of a role may have, and the *)
(* messages of each format.                                                *)
Tokens(who) == {v \in Int : v > 0 => TurnOf(v) \in DOMAIN turns /\ turns[TurnOf(v)].who = who}
FunctionNames == Functions \cup {""}
AnyPart == [k : PartKinds, v : Seq(Int), id : Int, fn : FunctionNames]
PartsFrom(role) == {p \in AnyPart : p.v \in Seq(Tokens(WhoSays(role, p.k)))}
Shapes == {"string", "list", "null", "pointer"}
MessagesFrom(roles) ==
    {m \in [role : roles, as : Shapes, parts : Seq(AnyPart)] : m.parts \in Seq(PartsFrom(m.role))}
OpenAIRoles == {"system", "user", "assistant", "tool"}
SpeakersRoles == {"system", "user", "assistant"}
ClaudeRoles == {"user", "assistant"}
GeminiRoles == {"user", "model"}
ResponsesRoles == {"user", "assistant", "function_call", "reasoning", "function_call_output"}
OneResult(m) == Len(m.parts) = 1 /\ m.parts[1].k = "result"
OpenAIMessages == {m \in MessagesFrom(OpenAIRoles) : m.role = "tool" => OneResult(m)}
ClaudeMessages == MessagesFrom(ClaudeRoles)
NamesItsFunction(p) == p.k \in {"call", "result"} => p.fn \in Functions
GeminiMessages ==
    {m \in MessagesFrom(GeminiRoles) : \A i \in DOMAIN m.parts : NamesItsFunction(m.parts[i])}
ResponsesMessages ==
    {m \in MessagesFrom(ResponsesRoles) :
        m.role = "function_call_output" => OneResult(m)}

(* Sequences over a larger set.                                            *)
LEMMA SeqWider ==
  ASSUME NEW E, NEW F, E \subseteq F, NEW s \in Seq(E)
  PROVE  s \in Seq(F)
OBVIOUS

(* What is selected from a sequence is in it, passes the test, and is no   *)
(* more.                                                                   *)
LEMMA OfTyped ==
  ASSUME NEW E, NEW ps \in Seq(E), NEW kinds
  PROVE  /\ Of(ps, kinds) \in Seq({p \in E : p.k \in kinds})
         /\ Len(Of(ps, kinds)) <= Len(ps)
<1> DEFINE keep == [i \in DOMAIN ps |-> ps[i].k \in kinds]
           ss == [i \in DOMAIN ps |-> IF keep[i] THEN <<ps[i]>> ELSE <<>>]
           r == FlattenSeq(ss)
<1>1. keep \in [DOMAIN ps -> BOOLEAN]
  OBVIOUS
<1>2. Of(ps, kinds) = r
  <2>1. ss = [i \in DOMAIN ps |-> IF ps[i].k \in kinds THEN <<ps[i]>> ELSE <<>>]
    BY Zenon
  <2> QED
    BY <2>1, Zenon DEF Of, Filter, Map
<1> HIDE DEF keep, r
<1>3. r \in Seq(E) /\ Len(r) <= Len(ps) /\ \E f : PicksAt(ps, keep, r, f)
  BY <1>1, KeptInOrder DEF r
<1>4. PICK f : PicksAt(ps, keep, r, f)
  BY <1>3
<1>5. ASSUME NEW j \in 1 .. Len(r) PROVE r[j] \in E /\ r[j].k \in kinds
  <2>1. f[j] \in DOMAIN ps /\ keep[f[j]] /\ r[j] = ps[f[j]]
    BY <1>4 DEF PicksAt
  <2>2. ps[f[j]].k \in kinds
    BY <2>1 DEF keep
  <2> QED
    BY <1>3, <2>1, <2>2
<1> QED
  BY <1>2, <1>3, <1>5

(* The tokens of parts, one after the other.                               *)
LEMMA JoinedTyped ==
  ASSUME NEW P, NEW ps \in Seq(P), NEW T, \A p \in P : p.v \in Seq(T)
  PROVE  Joined(ps) \in Seq(T)
<1>1. [i \in DOMAIN ps |-> ps[i].v] \in [DOMAIN ps -> Seq(T)]
  OBVIOUS
<1> QED
  BY <1>1, FlattenMapped DEF Joined

(* Tokens are numbers, and those no turn has said are nobody's.            *)
LEMMA TokensAre ==
  ASSUME NEW who
  PROVE  /\ Tokens(who) \subseteq Int /\ <<>> \in Seq(Tokens(who))
         /\ \A s \in Seq(Tokens(who)) : s \in Seq(Int)
         /\ <<-1>> \in Seq(Tokens(who)) /\ <<-2>> \in Seq(Tokens(who))
<1>1. -1 \in Tokens(who) /\ -2 \in Tokens(who)
  BY DEF Tokens
<1>2. Tokens(who) \subseteq Int
  BY DEF Tokens
<1> QED
  BY <1>1, <1>2

(* A part has its fields.                                                  *)
LEMMA PartIs ==
  ASSUME NEW k \in PartKinds, NEW v \in Seq(Int), NEW id \in Int, NEW fn \in FunctionNames
  PROVE  /\ Part(k, v, id, fn) \in AnyPart
         /\ Part(k, v, id, fn).k = k /\ Part(k, v, id, fn).v = v
         /\ Part(k, v, id, fn).id = id /\ Part(k, v, id, fn).fn = fn
BY DEF Part, AnyPart

(* A text in a message.                                                    *)
LEMMA TextSaid ==
  ASSUME NEW role, NEW v \in Seq(Tokens(WhoSays(role, "text")))
  PROVE  Text(v) \in PartsFrom(role) /\ Text(v).k = "text" /\ Text(v).v = v
<1>1. v \in Seq(Int)
  BY TokensAre
<1>2. "text" \in PartKinds /\ 0 \in Int /\ "" \in FunctionNames
  BY DEF PartKinds, FunctionNames
<1>3. Text(v) \in AnyPart /\ Text(v).k = "text" /\ Text(v).v = v
  <2>1. PICK k \in PartKinds : k = "text"
    BY <1>2
  <2>2. PICK fn \in FunctionNames : fn = ""
    BY <1>2
  <2>3. Part(k, v, 0, fn) \in AnyPart /\ Part(k, v, 0, fn).k = k /\ Part(k, v, 0, fn).v = v
    BY <1>1, PartIs
  <2>4. Text(v) = Part(k, v, 0, fn)
    BY <2>1, <2>2, Zenon DEF Text
  <2> QED
    BY <2>1, <2>3, <2>4
<1>4. WhoSays(role, Text(v).k) = WhoSays(role, "text")
  BY <1>3
<1> QED
  BY <1>3, <1>4 DEF PartsFrom

(* One, if there is anything to say.                                       *)
LEMMA TextPartSaid ==
  ASSUME NEW role, NEW v \in Seq(Tokens(WhoSays(role, "text")))
  PROVE  TextPart(v) \in Seq(PartsFrom(role))
BY TextSaid DEF TextPart

(* The parts of a message are parts.                                       *)
LEMMA PartsAre ==
  ASSUME NEW role
  PROVE  /\ PartsFrom(role) \subseteq AnyPart
         /\ \A p \in PartsFrom(role) : p.v \in Seq(Tokens(WhoSays(role, p.k)))
         /\ \A s \in Seq(PartsFrom(role)) : s \in Seq(AnyPart)
BY DEF PartsFrom

(* A message of a role, made of parts of that role.                        *)
LEMMA MessageSaid ==
  ASSUME NEW roles, NEW role \in roles, NEW shape \in Shapes, NEW parts \in Seq(PartsFrom(role))
  PROVE  Message(role, shape, parts) \in MessagesFrom(roles)
<1>1. parts \in Seq(AnyPart)
  BY PartsAre
<1> QED
  BY <1>1 DEF Message, MessagesFrom

(* What is in a message.                                                   *)
LEMMA MessagesAre ==
  ASSUME NEW roles, NEW m \in MessagesFrom(roles)
  PROVE  m.role \in roles /\ m.as \in Shapes /\ m.parts \in Seq(PartsFrom(m.role))
BY DEF MessagesFrom

(* Some of a message's parts.                                              *)
LEMMA OfSaid ==
  ASSUME NEW role, NEW ps \in Seq(PartsFrom(role)), NEW kinds
  PROVE  /\ Of(ps, kinds) \in Seq(PartsFrom(role))
         /\ Of(ps, kinds) \in Seq({p \in PartsFrom(role) : p.k \in kinds})
<1>1. Of(ps, kinds) \in Seq({p \in PartsFrom(role) : p.k \in kinds})
  BY OfTyped
<1> QED
  BY <1>1, SeqWider

(* The text of a message.                                                  *)
LEMMA TextOfSaid ==
  ASSUME NEW m, NEW role, m.parts \in Seq(PartsFrom(role))
  PROVE  TextOf(m) \in Seq(Tokens(WhoSays(role, "text")))
<1> DEFINE P == {p \in PartsFrom(role) : p.k \in {"text"}}
<1>1. Of(m.parts, {"text"}) \in Seq(P)
  BY OfSaid
<1>2. \A p \in P : p.v \in Seq(Tokens(WhoSays(role, "text")))
  BY PartsAre
<1> HIDE DEF P
<1> QED
  BY <1>1, <1>2, JoinedTyped DEF TextOf

-----------------------------------------------------------------------------
(* The folds over messages and parts *)

(* The folds' results.                                                     *)
BlocksStay(shape, E, V) == \A v \in V : \A e \in E : UserBlock(shape, v, e) \in V
BlocksTaken(shape, base, s) == FoldLeft(LAMBDA acc, p : UserBlock(shape, acc, p), base, s)
NumbersStay(E, V) == \A v \in V : \A e \in E : Numbered(v, e) \in V
AllNumbered(base, s) == FoldLeft(Numbered, base, s)
ContentsStay(E, V) == \A v \in V : \A e \in E : NextContent(v, e) \in V
ContentsTaken(base, s) == FoldLeft(NextContent, base, s)
StaysClaude(E, V) == \A v \in V : \A e \in E : ToClaude(v, e) \in V
ToldToClaude(base, s) == FoldLeft(ToClaude, base, s)
StaysGemini(E, V) == \A v \in V : \A e \in E : ToGemini(v, e) \in V
ToldToGemini(base, s) == FoldLeft(ToGemini, base, s)
TurnsStay(E, V) == \A v \in V : \A e \in E : ClaudeTurn(v, e) \in V
TurnsMerged(base, s) == FoldLeft(ClaudeTurn, base, s)

(* The blocks of a Claude user's message, one by one (FoldLeft in           *)
(* convertClaudeUserMessage).                                              *)
LEMMA UserBlocksFold ==
  ASSUME NEW E, NEW V, NEW base \in V, NEW s \in Seq(E), NEW shape,
         BlocksStay(shape, E, V)
  PROVE  \E t \in [0 .. Len(s) -> V] :
            /\ t[0] = base /\ t[Len(s)] = BlocksTaken(shape, base, s)
            /\ \A i \in 1 .. Len(s) : t[i] = UserBlock(shape, t[i - 1], s[i])
<1> DEFINE n == Len(s)
           S == SUBSET (1 .. n)
           d == [i \in 1 .. n |-> [v \in V |-> UserBlock(shape, v, s[i])]]
           P(g) == g = [x \in S |-> IF x = {} THEN base ELSE UserBlock(shape, g[x \ {Max(x)}], s[Max(x)])]
<1>1. n \in Nat /\ DOMAIN s = 1 .. n /\ \A i \in 1 .. n : s[i] \in E
  OBVIOUS
<1>2. \A i \in 1 .. n : \A v \in V : d[i][v] = UserBlock(shape, v, s[i]) /\ d[i][v] \in V
  BY <1>1 DEF BlocksStay
<1>3. \A x \in S : x # {} => Max(x) \in x /\ Max(x) \in 1 .. n
  BY <1>1, LastPosition
<1>4. \E g : P(g)
  <2>1. PICK g \in [S -> V] : FoldsLeft(n, base, d, g)
    <3> HIDE DEF d, n
    <3> QED
      BY <1>1, <1>2, LeftFoldExists
  <2>2. ASSUME NEW x \in S
        PROVE  g[x] = IF x = {} THEN base ELSE UserBlock(shape, g[x \ {Max(x)}], s[Max(x)])
    <3> HIDE DEF d, n
    <3>1. g[x] = IF x = {} THEN base ELSE d[Max(x)][g[x \ {Max(x)}]]
      BY <2>1 DEF FoldsLeft
    <3>2. CASE x # {}
      <4>1. Max(x) \in 1 .. n /\ g[x \ {Max(x)}] \in V
        BY <1>3, <2>1, <3>2
      <4> QED
        BY <1>2, <3>1, <3>2, <4>1
    <3> QED
      BY <3>1, <3>2
  <2> HIDE DEF d, n
  <2>3. g = [x \in S |-> g[x]]
    BY <2>1
  <2>4. P(g)
    BY <2>2, <2>3
  <2> QED
    BY <2>4
<1> DEFINE g == CHOOSE f : P(f)
<1>5. P(g)
  BY <1>4
<1>6. FoldLeft(LAMBDA acc, p : UserBlock(shape, acc, p), base, s) = g[1 .. n]
  BY <1>1 DEF FoldLeft, MapThenFoldSet
<1> HIDE DEF g
<1>7. \A x \in S : g[x] = IF x = {} THEN base ELSE UserBlock(shape, g[x \ {Max(x)}], s[Max(x)])
  BY <1>5
<1> HIDE DEF P, d, n
<1>8. g[{}] = base
  BY <1>7
<1>9. \A x \in S : x # {} /\ g[x \ {Max(x)}] \in V => g[x] = d[Max(x)][g[x \ {Max(x)}]]
  BY <1>2, <1>3, <1>7
<1>10. PICK t \in [0 .. n -> V] : ScansTo(n, base, d, t, g[1 .. n])
  <2>1. \A x \in SUBSET (1 .. n) :
           x # {} /\ g[x \ {Max(x)}] \in V => g[x] = d[Max(x)][g[x \ {Max(x)}]]
    BY <1>9
  <2>2. \A i \in 1 .. n : \A v \in V : d[i][v] \in V
    BY <1>2
  <2> HIDE DEF S
  <2> QED
    BY <1>1, <1>8, <2>1, <2>2, LeftFoldScans
<1>11. ASSUME NEW i \in 1 .. n PROVE t[i] = UserBlock(shape, t[i - 1], s[i])
  <2>1. t[i] = d[i][t[i - 1]] /\ i - 1 \in 0 .. n
    BY <1>1, <1>10 DEF Scans, ScansTo
  <2>2. t[i - 1] \in V
    BY <1>10, <2>1
  <2> QED
    BY <1>2, <2>1, <2>2
<1> QED
  BY <1>6, <1>10, <1>11 DEF Scans, ScansTo, n, BlocksTaken

(* The numbering of a Gemini message's calls and results.                  *)
LEMMA NumbersFold ==
  ASSUME NEW E, NEW V, NEW base \in V, NEW s \in Seq(E),
         NumbersStay(E, V)
  PROVE  \E t \in [0 .. Len(s) -> V] :
            /\ t[0] = base /\ t[Len(s)] = AllNumbered(base, s)
            /\ \A i \in 1 .. Len(s) : t[i] = Numbered(t[i - 1], s[i])
<1> DEFINE n == Len(s)
           S == SUBSET (1 .. n)
           d == [i \in 1 .. n |-> [v \in V |-> Numbered(v, s[i])]]
           P(g) == g = [x \in S |-> IF x = {} THEN base ELSE Numbered(g[x \ {Max(x)}], s[Max(x)])]
<1>1. n \in Nat /\ DOMAIN s = 1 .. n /\ \A i \in 1 .. n : s[i] \in E
  OBVIOUS
<1>2. \A i \in 1 .. n : \A v \in V : d[i][v] = Numbered(v, s[i]) /\ d[i][v] \in V
  BY <1>1 DEF NumbersStay
<1>3. \A x \in S : x # {} => Max(x) \in x /\ Max(x) \in 1 .. n
  BY <1>1, LastPosition
<1>4. \E g : P(g)
  <2>1. PICK g \in [S -> V] : FoldsLeft(n, base, d, g)
    <3> HIDE DEF d, n
    <3> QED
      BY <1>1, <1>2, LeftFoldExists
  <2>2. ASSUME NEW x \in S
        PROVE  g[x] = IF x = {} THEN base ELSE Numbered(g[x \ {Max(x)}], s[Max(x)])
    <3> HIDE DEF d, n
    <3>1. g[x] = IF x = {} THEN base ELSE d[Max(x)][g[x \ {Max(x)}]]
      BY <2>1 DEF FoldsLeft
    <3>2. CASE x # {}
      <4>1. Max(x) \in 1 .. n /\ g[x \ {Max(x)}] \in V
        BY <1>3, <2>1, <3>2
      <4> QED
        BY <1>2, <3>1, <3>2, <4>1
    <3> QED
      BY <3>1, <3>2
  <2> HIDE DEF d, n
  <2>3. g = [x \in S |-> g[x]]
    BY <2>1
  <2>4. P(g)
    BY <2>2, <2>3
  <2> QED
    BY <2>4
<1> DEFINE g == CHOOSE f : P(f)
<1>5. P(g)
  BY <1>4
<1>6. FoldLeft(Numbered, base, s) = g[1 .. n]
  BY <1>1 DEF FoldLeft, MapThenFoldSet
<1> HIDE DEF g
<1>7. \A x \in S : g[x] = IF x = {} THEN base ELSE Numbered(g[x \ {Max(x)}], s[Max(x)])
  BY <1>5
<1> HIDE DEF P, d, n
<1>8. g[{}] = base
  BY <1>7
<1>9. \A x \in S : x # {} /\ g[x \ {Max(x)}] \in V => g[x] = d[Max(x)][g[x \ {Max(x)}]]
  BY <1>2, <1>3, <1>7
<1>10. PICK t \in [0 .. n -> V] : ScansTo(n, base, d, t, g[1 .. n])
  <2>1. \A x \in SUBSET (1 .. n) :
           x # {} /\ g[x \ {Max(x)}] \in V => g[x] = d[Max(x)][g[x \ {Max(x)}]]
    BY <1>9
  <2>2. \A i \in 1 .. n : \A v \in V : d[i][v] \in V
    BY <1>2
  <2> HIDE DEF S
  <2> QED
    BY <1>1, <1>8, <2>1, <2>2, LeftFoldScans
<1>11. ASSUME NEW i \in 1 .. n PROVE t[i] = Numbered(t[i - 1], s[i])
  <2>1. t[i] = d[i][t[i - 1]] /\ i - 1 \in 0 .. n
    BY <1>1, <1>10 DEF Scans, ScansTo
  <2>2. t[i - 1] \in V
    BY <1>10, <2>1
  <2> QED
    BY <1>2, <2>1, <2>2
<1> QED
  BY <1>6, <1>10, <1>11 DEF Scans, ScansTo, n, AllNumbered

(* The messages of a Gemini body.                                          *)
LEMMA ContentsFold ==
  ASSUME NEW E, NEW V, NEW base \in V, NEW s \in Seq(E),
         ContentsStay(E, V)
  PROVE  \E t \in [0 .. Len(s) -> V] :
            /\ t[0] = base /\ t[Len(s)] = ContentsTaken(base, s)
            /\ \A i \in 1 .. Len(s) : t[i] = NextContent(t[i - 1], s[i])
<1> DEFINE n == Len(s)
           S == SUBSET (1 .. n)
           d == [i \in 1 .. n |-> [v \in V |-> NextContent(v, s[i])]]
           P(g) == g = [x \in S |-> IF x = {} THEN base ELSE NextContent(g[x \ {Max(x)}], s[Max(x)])]
<1>1. n \in Nat /\ DOMAIN s = 1 .. n /\ \A i \in 1 .. n : s[i] \in E
  OBVIOUS
<1>2. \A i \in 1 .. n : \A v \in V : d[i][v] = NextContent(v, s[i]) /\ d[i][v] \in V
  BY <1>1 DEF ContentsStay
<1>3. \A x \in S : x # {} => Max(x) \in x /\ Max(x) \in 1 .. n
  BY <1>1, LastPosition
<1>4. \E g : P(g)
  <2>1. PICK g \in [S -> V] : FoldsLeft(n, base, d, g)
    <3> HIDE DEF d, n
    <3> QED
      BY <1>1, <1>2, LeftFoldExists
  <2>2. ASSUME NEW x \in S
        PROVE  g[x] = IF x = {} THEN base ELSE NextContent(g[x \ {Max(x)}], s[Max(x)])
    <3> HIDE DEF d, n
    <3>1. g[x] = IF x = {} THEN base ELSE d[Max(x)][g[x \ {Max(x)}]]
      BY <2>1 DEF FoldsLeft
    <3>2. CASE x # {}
      <4>1. Max(x) \in 1 .. n /\ g[x \ {Max(x)}] \in V
        BY <1>3, <2>1, <3>2
      <4> QED
        BY <1>2, <3>1, <3>2, <4>1
    <3> QED
      BY <3>1, <3>2
  <2> HIDE DEF d, n
  <2>3. g = [x \in S |-> g[x]]
    BY <2>1
  <2>4. P(g)
    BY <2>2, <2>3
  <2> QED
    BY <2>4
<1> DEFINE g == CHOOSE f : P(f)
<1>5. P(g)
  BY <1>4
<1>6. FoldLeft(NextContent, base, s) = g[1 .. n]
  BY <1>1 DEF FoldLeft, MapThenFoldSet
<1> HIDE DEF g
<1>7. \A x \in S : g[x] = IF x = {} THEN base ELSE NextContent(g[x \ {Max(x)}], s[Max(x)])
  BY <1>5
<1> HIDE DEF P, d, n
<1>8. g[{}] = base
  BY <1>7
<1>9. \A x \in S : x # {} /\ g[x \ {Max(x)}] \in V => g[x] = d[Max(x)][g[x \ {Max(x)}]]
  BY <1>2, <1>3, <1>7
<1>10. PICK t \in [0 .. n -> V] : ScansTo(n, base, d, t, g[1 .. n])
  <2>1. \A x \in SUBSET (1 .. n) :
           x # {} /\ g[x \ {Max(x)}] \in V => g[x] = d[Max(x)][g[x \ {Max(x)}]]
    BY <1>9
  <2>2. \A i \in 1 .. n : \A v \in V : d[i][v] \in V
    BY <1>2
  <2> HIDE DEF S
  <2> QED
    BY <1>1, <1>8, <2>1, <2>2, LeftFoldScans
<1>11. ASSUME NEW i \in 1 .. n PROVE t[i] = NextContent(t[i - 1], s[i])
  <2>1. t[i] = d[i][t[i - 1]] /\ i - 1 \in 0 .. n
    BY <1>1, <1>10 DEF Scans, ScansTo
  <2>2. t[i - 1] \in V
    BY <1>10, <2>1
  <2> QED
    BY <1>2, <2>1, <2>2
<1> QED
  BY <1>6, <1>10, <1>11 DEF Scans, ScansTo, n, ContentsTaken

(* The messages of an OpenAI body, on the way to Claude.                    *)
LEMMA ToClaudeFolds ==
  ASSUME NEW E, NEW V, NEW base \in V, NEW s \in Seq(E),
         StaysClaude(E, V)
  PROVE  \E t \in [0 .. Len(s) -> V] :
            /\ t[0] = base /\ t[Len(s)] = ToldToClaude(base, s)
            /\ \A i \in 1 .. Len(s) : t[i] = ToClaude(t[i - 1], s[i])
<1> DEFINE n == Len(s)
           S == SUBSET (1 .. n)
           d == [i \in 1 .. n |-> [v \in V |-> ToClaude(v, s[i])]]
           P(g) == g = [x \in S |-> IF x = {} THEN base ELSE ToClaude(g[x \ {Max(x)}], s[Max(x)])]
<1>1. n \in Nat /\ DOMAIN s = 1 .. n /\ \A i \in 1 .. n : s[i] \in E
  OBVIOUS
<1>2. \A i \in 1 .. n : \A v \in V : d[i][v] = ToClaude(v, s[i]) /\ d[i][v] \in V
  BY <1>1 DEF StaysClaude
<1>3. \A x \in S : x # {} => Max(x) \in x /\ Max(x) \in 1 .. n
  BY <1>1, LastPosition
<1>4. \E g : P(g)
  <2>1. PICK g \in [S -> V] : FoldsLeft(n, base, d, g)
    <3> HIDE DEF d, n
    <3> QED
      BY <1>1, <1>2, LeftFoldExists
  <2>2. ASSUME NEW x \in S
        PROVE  g[x] = IF x = {} THEN base ELSE ToClaude(g[x \ {Max(x)}], s[Max(x)])
    <3> HIDE DEF d, n
    <3>1. g[x] = IF x = {} THEN base ELSE d[Max(x)][g[x \ {Max(x)}]]
      BY <2>1 DEF FoldsLeft
    <3>2. CASE x # {}
      <4>1. Max(x) \in 1 .. n /\ g[x \ {Max(x)}] \in V
        BY <1>3, <2>1, <3>2
      <4> QED
        BY <1>2, <3>1, <3>2, <4>1
    <3> QED
      BY <3>1, <3>2
  <2> HIDE DEF d, n
  <2>3. g = [x \in S |-> g[x]]
    BY <2>1
  <2>4. P(g)
    BY <2>2, <2>3
  <2> QED
    BY <2>4
<1> DEFINE g == CHOOSE f : P(f)
<1>5. P(g)
  BY <1>4
<1>6. FoldLeft(ToClaude, base, s) = g[1 .. n]
  BY <1>1 DEF FoldLeft, MapThenFoldSet
<1> HIDE DEF g
<1>7. \A x \in S : g[x] = IF x = {} THEN base ELSE ToClaude(g[x \ {Max(x)}], s[Max(x)])
  BY <1>5
<1> HIDE DEF P, d, n
<1>8. g[{}] = base
  BY <1>7
<1>9. \A x \in S : x # {} /\ g[x \ {Max(x)}] \in V => g[x] = d[Max(x)][g[x \ {Max(x)}]]
  BY <1>2, <1>3, <1>7
<1>10. PICK t \in [0 .. n -> V] : ScansTo(n, base, d, t, g[1 .. n])
  <2>1. \A x \in SUBSET (1 .. n) :
           x # {} /\ g[x \ {Max(x)}] \in V => g[x] = d[Max(x)][g[x \ {Max(x)}]]
    BY <1>9
  <2>2. \A i \in 1 .. n : \A v \in V : d[i][v] \in V
    BY <1>2
  <2> HIDE DEF S
  <2> QED
    BY <1>1, <1>8, <2>1, <2>2, LeftFoldScans
<1>11. ASSUME NEW i \in 1 .. n PROVE t[i] = ToClaude(t[i - 1], s[i])
  <2>1. t[i] = d[i][t[i - 1]] /\ i - 1 \in 0 .. n
    BY <1>1, <1>10 DEF Scans, ScansTo
  <2>2. t[i - 1] \in V
    BY <1>10, <2>1
  <2> QED
    BY <1>2, <2>1, <2>2
<1> QED
  BY <1>6, <1>10, <1>11 DEF Scans, ScansTo, n, ToldToClaude

(* And on the way to Gemini.                                               *)
LEMMA ToGeminiFolds ==
  ASSUME NEW E, NEW V, NEW base \in V, NEW s \in Seq(E),
         StaysGemini(E, V)
  PROVE  \E t \in [0 .. Len(s) -> V] :
            /\ t[0] = base /\ t[Len(s)] = ToldToGemini(base, s)
            /\ \A i \in 1 .. Len(s) : t[i] = ToGemini(t[i - 1], s[i])
<1> DEFINE n == Len(s)
           S == SUBSET (1 .. n)
           d == [i \in 1 .. n |-> [v \in V |-> ToGemini(v, s[i])]]
           P(g) == g = [x \in S |-> IF x = {} THEN base ELSE ToGemini(g[x \ {Max(x)}], s[Max(x)])]
<1>1. n \in Nat /\ DOMAIN s = 1 .. n /\ \A i \in 1 .. n : s[i] \in E
  OBVIOUS
<1>2. \A i \in 1 .. n : \A v \in V : d[i][v] = ToGemini(v, s[i]) /\ d[i][v] \in V
  BY <1>1 DEF StaysGemini
<1>3. \A x \in S : x # {} => Max(x) \in x /\ Max(x) \in 1 .. n
  BY <1>1, LastPosition
<1>4. \E g : P(g)
  <2>1. PICK g \in [S -> V] : FoldsLeft(n, base, d, g)
    <3> HIDE DEF d, n
    <3> QED
      BY <1>1, <1>2, LeftFoldExists
  <2>2. ASSUME NEW x \in S
        PROVE  g[x] = IF x = {} THEN base ELSE ToGemini(g[x \ {Max(x)}], s[Max(x)])
    <3> HIDE DEF d, n
    <3>1. g[x] = IF x = {} THEN base ELSE d[Max(x)][g[x \ {Max(x)}]]
      BY <2>1 DEF FoldsLeft
    <3>2. CASE x # {}
      <4>1. Max(x) \in 1 .. n /\ g[x \ {Max(x)}] \in V
        BY <1>3, <2>1, <3>2
      <4> QED
        BY <1>2, <3>1, <3>2, <4>1
    <3> QED
      BY <3>1, <3>2
  <2> HIDE DEF d, n
  <2>3. g = [x \in S |-> g[x]]
    BY <2>1
  <2>4. P(g)
    BY <2>2, <2>3
  <2> QED
    BY <2>4
<1> DEFINE g == CHOOSE f : P(f)
<1>5. P(g)
  BY <1>4
<1>6. FoldLeft(ToGemini, base, s) = g[1 .. n]
  BY <1>1 DEF FoldLeft, MapThenFoldSet
<1> HIDE DEF g
<1>7. \A x \in S : g[x] = IF x = {} THEN base ELSE ToGemini(g[x \ {Max(x)}], s[Max(x)])
  BY <1>5
<1> HIDE DEF P, d, n
<1>8. g[{}] = base
  BY <1>7
<1>9. \A x \in S : x # {} /\ g[x \ {Max(x)}] \in V => g[x] = d[Max(x)][g[x \ {Max(x)}]]
  BY <1>2, <1>3, <1>7
<1>10. PICK t \in [0 .. n -> V] : ScansTo(n, base, d, t, g[1 .. n])
  <2>1. \A x \in SUBSET (1 .. n) :
           x # {} /\ g[x \ {Max(x)}] \in V => g[x] = d[Max(x)][g[x \ {Max(x)}]]
    BY <1>9
  <2>2. \A i \in 1 .. n : \A v \in V : d[i][v] \in V
    BY <1>2
  <2> HIDE DEF S
  <2> QED
    BY <1>1, <1>8, <2>1, <2>2, LeftFoldScans
<1>11. ASSUME NEW i \in 1 .. n PROVE t[i] = ToGemini(t[i - 1], s[i])
  <2>1. t[i] = d[i][t[i - 1]] /\ i - 1 \in 0 .. n
    BY <1>1, <1>10 DEF Scans, ScansTo
  <2>2. t[i - 1] \in V
    BY <1>10, <2>1
  <2> QED
    BY <1>2, <2>1, <2>2
<1> QED
  BY <1>6, <1>10, <1>11 DEF Scans, ScansTo, n, ToldToGemini

(* The turns a Claude client encodes.                                      *)
LEMMA ClaudeTurnsFold ==
  ASSUME NEW E, NEW V, NEW base \in V, NEW s \in Seq(E),
         TurnsStay(E, V)
  PROVE  \E t \in [0 .. Len(s) -> V] :
            /\ t[0] = base /\ t[Len(s)] = TurnsMerged(base, s)
            /\ \A i \in 1 .. Len(s) : t[i] = ClaudeTurn(t[i - 1], s[i])
<1> DEFINE n == Len(s)
           S == SUBSET (1 .. n)
           d == [i \in 1 .. n |-> [v \in V |-> ClaudeTurn(v, s[i])]]
           P(g) == g = [x \in S |-> IF x = {} THEN base ELSE ClaudeTurn(g[x \ {Max(x)}], s[Max(x)])]
<1>1. n \in Nat /\ DOMAIN s = 1 .. n /\ \A i \in 1 .. n : s[i] \in E
  OBVIOUS
<1>2. \A i \in 1 .. n : \A v \in V : d[i][v] = ClaudeTurn(v, s[i]) /\ d[i][v] \in V
  BY <1>1 DEF TurnsStay
<1>3. \A x \in S : x # {} => Max(x) \in x /\ Max(x) \in 1 .. n
  BY <1>1, LastPosition
<1>4. \E g : P(g)
  <2>1. PICK g \in [S -> V] : FoldsLeft(n, base, d, g)
    <3> HIDE DEF d, n
    <3> QED
      BY <1>1, <1>2, LeftFoldExists
  <2>2. ASSUME NEW x \in S
        PROVE  g[x] = IF x = {} THEN base ELSE ClaudeTurn(g[x \ {Max(x)}], s[Max(x)])
    <3> HIDE DEF d, n
    <3>1. g[x] = IF x = {} THEN base ELSE d[Max(x)][g[x \ {Max(x)}]]
      BY <2>1 DEF FoldsLeft
    <3>2. CASE x # {}
      <4>1. Max(x) \in 1 .. n /\ g[x \ {Max(x)}] \in V
        BY <1>3, <2>1, <3>2
      <4> QED
        BY <1>2, <3>1, <3>2, <4>1
    <3> QED
      BY <3>1, <3>2
  <2> HIDE DEF d, n
  <2>3. g = [x \in S |-> g[x]]
    BY <2>1
  <2>4. P(g)
    BY <2>2, <2>3
  <2> QED
    BY <2>4
<1> DEFINE g == CHOOSE f : P(f)
<1>5. P(g)
  BY <1>4
<1>6. FoldLeft(ClaudeTurn, base, s) = g[1 .. n]
  BY <1>1 DEF FoldLeft, MapThenFoldSet
<1> HIDE DEF g
<1>7. \A x \in S : g[x] = IF x = {} THEN base ELSE ClaudeTurn(g[x \ {Max(x)}], s[Max(x)])
  BY <1>5
<1> HIDE DEF P, d, n
<1>8. g[{}] = base
  BY <1>7
<1>9. \A x \in S : x # {} /\ g[x \ {Max(x)}] \in V => g[x] = d[Max(x)][g[x \ {Max(x)}]]
  BY <1>2, <1>3, <1>7
<1>10. PICK t \in [0 .. n -> V] : ScansTo(n, base, d, t, g[1 .. n])
  <2>1. \A x \in SUBSET (1 .. n) :
           x # {} /\ g[x \ {Max(x)}] \in V => g[x] = d[Max(x)][g[x \ {Max(x)}]]
    BY <1>9
  <2>2. \A i \in 1 .. n : \A v \in V : d[i][v] \in V
    BY <1>2
  <2> HIDE DEF S
  <2> QED
    BY <1>1, <1>8, <2>1, <2>2, LeftFoldScans
<1>11. ASSUME NEW i \in 1 .. n PROVE t[i] = ClaudeTurn(t[i - 1], s[i])
  <2>1. t[i] = d[i][t[i - 1]] /\ i - 1 \in 0 .. n
    BY <1>1, <1>10 DEF Scans, ScansTo
  <2>2. t[i - 1] \in V
    BY <1>10, <2>1
  <2> QED
    BY <1>2, <2>1, <2>2
<1> QED
  BY <1>6, <1>10, <1>11 DEF Scans, ScansTo, n, TurnsMerged

-----------------------------------------------------------------------------
(* From Claude, Gemini and Responses to OpenAI *)

(* A result is the results' in any message.                                *)
LEMMA ResultAnywhere ==
  ASSUME NEW r, NEW role, NEW p \in PartsFrom(r), p.k = "result"
  PROVE  p \in PartsFrom(role)
<1>1. WhoSays(r, p.k) = WhoSays(role, p.k)
  BY Zenon DEF WhoSays
<1> QED
  BY <1>1 DEF PartsFrom

(* A part with other marks, or with nothing in it.                         *)
LEMMA PartChanged ==
  ASSUME NEW r, NEW p \in PartsFrom(r), NEW q \in AnyPart, q.k = p.k, q.v = p.v \/ q.v = <<>>
  PROVE  q \in PartsFrom(r)
<1>1. WhoSays(r, p.k) = WhoSays(r, q.k)
  BY Zenon
<1>2. q.v \in Seq(Tokens(WhoSays(r, p.k)))
  BY PartsAre, TokensAre
<1> QED
  BY <1>1, <1>2 DEF PartsFrom

(* A result as a message of its own.                                       *)
LEMMA ToolMessage ==
  ASSUME NEW r, NEW p \in PartsFrom(r), p.k = "result"
  PROVE  Message("tool", "string", <<p>>) \in OpenAIMessages
<1>1. PICK role \in OpenAIRoles : role = "tool"
  BY DEF OpenAIRoles
<1>2. PICK shape \in Shapes : shape = "string"
  BY DEF Shapes
<1>3. <<p>> \in Seq(PartsFrom(role))
  BY ResultAnywhere
<1> DEFINE m == Message(role, shape, <<p>>)
<1>4. m \in MessagesFrom(OpenAIRoles) /\ m.parts = <<p>>
  <2>1. m \in MessagesFrom(OpenAIRoles)
    BY <1>3, MessageSaid
  <2>2. m.parts = <<p>>
    BY DEF Message
  <2> QED
    BY <2>1, <2>2
<1>5. OneResult(m)
  <2>1. Len(<<p>>) = 1 /\ <<p>>[1] = p
    OBVIOUS
  <2> QED
    BY <1>4, <2>1, Zenon DEF OneResult
<1>6. Message("tool", "string", <<p>>) = m
  BY <1>1, <1>2, Zenon
<1> HIDE DEF m
<1> QED
  BY <1>4, <1>5, <1>6 DEF OpenAIMessages

(* A message of another role.                                              *)
LEMMA OpenAIMessage ==
  ASSUME NEW role \in SpeakersRoles, NEW shape \in Shapes, NEW parts \in Seq(PartsFrom(role))
  PROVE  Message(role, shape, parts) \in OpenAIMessages
<1> DEFINE m == Message(role, shape, parts)
<1>1. role \in OpenAIRoles /\ role # "tool"
  BY Zenon DEF OpenAIRoles, SpeakersRoles
<1>2. m \in MessagesFrom(OpenAIRoles) /\ m.role = role
  <2>1. m \in MessagesFrom(OpenAIRoles)
    BY <1>1, MessageSaid
  <2>2. m.role = role
    BY DEF Message
  <2> QED
    BY <2>1, <2>2
<1> HIDE DEF m
<1>3. m.role # "tool"
  BY <1>1, <1>2
<1>4. m \in OpenAIMessages
  BY <1>2, <1>3 DEF OpenAIMessages
<1> QED
  BY <1>4 DEF m

(* The system's message.                                                   *)
LEMMA SystemMessageTyped ==
  ASSUME NEW b, b.system \in Seq(Tokens("system"))
  PROVE  SystemMessage(b) \in Seq(OpenAIMessages)
<1>1. PICK role \in SpeakersRoles : role = "system"
  BY DEF SpeakersRoles
<1>2. PICK shape \in Shapes : shape = "string"
  BY DEF Shapes
<1>3. WhoSays(role, "text") = "system"
  BY <1>1 DEF WhoSays
<1>4. Text(b.system) \in PartsFrom(role)
  BY <1>3, TextSaid
<1>5. Message(role, shape, <<Text(b.system)>>) \in OpenAIMessages
  <2>1. <<Text(b.system)>> \in Seq(PartsFrom(role))
    BY <1>4
  <2> QED
    BY <2>1, OpenAIMessage
<1>6. Message("system", "string", <<Text(b.system)>>) \in OpenAIMessages
  BY <1>1, <1>2, <1>5, Zenon
<1> QED
  BY <1>6 DEF SystemMessage

(* What a Claude user has said so far.                                     *)
Gathering == [out : Seq(OpenAIMessages), parts : Seq(PartsFrom("user"))]

(* The parts that are gathered become one message.                         *)
LEMMA GatheredTyped ==
  ASSUME NEW parts \in Seq(PartsFrom("user"))
  PROVE  Gathered(parts) \in Seq(OpenAIMessages)
<1>1. PICK role \in SpeakersRoles : role = "user"
  BY DEF SpeakersRoles
<1>2. "string" \in Shapes /\ "list" \in Shapes
  BY DEF Shapes
<1>3. \A shape \in Shapes : Message("user", shape, parts) \in OpenAIMessages
  <2> TAKE shape \in Shapes
  <2>1. parts \in Seq(PartsFrom(role))
    BY <1>1
  <2>2. Message(role, shape, parts) \in OpenAIMessages
    BY <2>1, OpenAIMessage
  <2> QED
    BY <1>1, <2>2, Zenon
<1>4. /\ Message("user", "string", parts) \in OpenAIMessages
      /\ Message("user", "list", parts) \in OpenAIMessages
  BY <1>2, <1>3, Zenon
<1>5. Gathered(parts) \in {<<>>, <<Message("user", "string", parts)>>, <<Message("user", "list", parts)>>}
  BY Zenon DEF Gathered
<1>6. \A x \in OpenAIMessages : <<x>> \in Seq(OpenAIMessages)
  OBVIOUS
<1>7. <<>> \in Seq(OpenAIMessages)
  OBVIOUS
<1> QED
  BY <1>4, <1>5, <1>6, <1>7, Zenon

(* One block more.                                                         *)
LEMMA UserBlockTyped ==
  ASSUME NEW shape, NEW acc \in Gathering, NEW p \in PartsFrom("user")
  PROVE  UserBlock(shape, acc, p) \in Gathering
<1>1. acc.out \in Seq(OpenAIMessages) /\ acc.parts \in Seq(PartsFrom("user"))
  BY DEF Gathering
<1>2. CASE p.k # "result"
  <2>1. UserBlock(shape, acc, p) = [acc EXCEPT !.parts = Append(@, p)]
    BY <1>2 DEF UserBlock
  <2>2. Append(acc.parts, p) \in Seq(PartsFrom("user"))
    BY <1>1
  <2> QED
    BY <2>1, <2>2 DEF Gathering
<1>3. CASE p.k = "result"
  <2> DEFINE q == [p EXCEPT !.v = <<>>]
             c == IF shape = "list" THEN q ELSE p
             t == Message("tool", "string", <<c>>)
  <2>1. q \in AnyPart /\ q.k = p.k /\ q.v = <<>>
    <3>1. p \in AnyPart
      BY PartsAre
    <3>2. <<>> \in Seq(Int)
      OBVIOUS
    <3> QED
      BY <3>1, <3>2 DEF AnyPart
  <2>2. q \in PartsFrom("user")
    BY <2>1, PartChanged
  <2>3. c \in PartsFrom("user") /\ c.k = "result"
    BY <1>3, <2>1, <2>2
  <2>4. UserBlock(shape, acc, p) = [out |-> acc.out \o Gathered(acc.parts) \o <<t>>, parts |-> <<>>]
    BY <1>3, Zenon DEF UserBlock
  <2> HIDE DEF c, q
  <2>5. t \in OpenAIMessages
    BY <2>3, ToolMessage
  <2>6. Gathered(acc.parts) \in Seq(OpenAIMessages)
    BY <1>1, GatheredTyped
  <2> HIDE DEF t
  <2>7. acc.out \o Gathered(acc.parts) \o <<t>> \in Seq(OpenAIMessages)
    BY <1>1, <2>5, <2>6
  <2>8. <<>> \in Seq(PartsFrom("user"))
    OBVIOUS
  <2> QED
    BY <2>4, <2>7, <2>8 DEF Gathering
<1> QED
  BY <1>2, <1>3

(* A Claude user's message in OpenAI's format.                             *)
LEMMA ClaudeUserTyped ==
  ASSUME NEW m \in ClaudeMessages, m.role = "user"
  PROVE  convertClaudeUserMessage(m) \in Seq(OpenAIMessages)
<1> DEFINE s == Of(m.parts, {"text", "result"} \cup Images)
           base == [out |-> <<>>, parts |-> <<>>]
           all == BlocksTaken(m.as, base, s)
           r == all.out \o Gathered(all.parts)
           blank == Message("user", "string", <<Text(<<>>)>>)
<1>1. m.parts \in Seq(PartsFrom("user"))
  BY MessagesAre DEF ClaudeMessages
<1>2. s \in Seq(PartsFrom("user"))
  BY <1>1, OfSaid
<1>3. base \in Gathering
  BY DEF Gathering
<1> HIDE DEF s, base
<1>4. all \in Gathering
  <2>1. PICK t \in [0 .. Len(s) -> Gathering] : t[Len(s)] = all
    <3>1. PICK shape : shape = m.as
      OBVIOUS
    <3>2. BlocksStay(shape, PartsFrom("user"), Gathering)
      BY UserBlockTyped DEF BlocksStay
    <3>3. \E t \in [0 .. Len(s) -> Gathering] : t[Len(s)] = BlocksTaken(shape, base, s)
      BY <1>2, <1>3, <3>2, UserBlocksFold
    <3> QED
      BY <3>1, <3>3
  <2>2. Len(s) \in 0 .. Len(s)
    BY <1>2
  <2> QED
    BY <2>1, <2>2
<1> HIDE DEF all
<1>5. r \in Seq(OpenAIMessages)
  <2>1. all.out \in Seq(OpenAIMessages) /\ all.parts \in Seq(PartsFrom("user"))
    BY <1>4 DEF Gathering
  <2>2. Gathered(all.parts) \in Seq(OpenAIMessages)
    BY <2>1, GatheredTyped
  <2> QED
    BY <2>1, <2>2
<1>6. blank \in OpenAIMessages
  <2>1. PICK role \in SpeakersRoles : role = "user"
    BY DEF SpeakersRoles
  <2>2. PICK shape \in Shapes : shape = "string"
    BY DEF Shapes
  <2>3. Text(<<>>) \in PartsFrom(role)
    BY TextSaid, TokensAre
  <2>4. Message(role, shape, <<Text(<<>>)>>) \in OpenAIMessages
    <3>1. <<Text(<<>>)>> \in Seq(PartsFrom(role))
      BY <2>3
    <3> QED
      BY <3>1, OpenAIMessage
  <2> QED
    BY <2>1, <2>2, <2>4, Zenon
<1>7. convertClaudeUserMessage(m) = IF r = <<>> THEN <<blank>> ELSE r
  BY Zenon DEF convertClaudeUserMessage, BlocksTaken, all, s, base
<1> HIDE DEF r, blank
<1> QED
  BY <1>5, <1>6, <1>7

(* A Claude assistant's message in OpenAI's format.                        *)
LEMMA ClaudeAssistantTyped ==
  ASSUME NEW m \in ClaudeMessages, m.role = "assistant"
  PROVE  convertClaudeAssistantMessage(m) \in OpenAIMessages
<1> DEFINE parts == Of(m.parts, {"think"}) \o <<Text(TextOf(m))>> \o Of(m.parts, {"call"})
<1>1. PICK role \in SpeakersRoles : role = "assistant"
  BY DEF SpeakersRoles
<1>2. PICK shape \in Shapes : shape = "string"
  BY DEF Shapes
<1>3. m.parts \in Seq(PartsFrom(role))
  BY <1>1, MessagesAre DEF ClaudeMessages
<1>4. Text(TextOf(m)) \in PartsFrom(role)
  BY <1>3, TextOfSaid, TextSaid
<1>5. Of(m.parts, {"think"}) \in Seq(PartsFrom(role)) /\ Of(m.parts, {"call"}) \in Seq(PartsFrom(role))
  BY <1>3, OfSaid
<1>6. parts \in Seq(PartsFrom(role))
  BY <1>4, <1>5
<1>7. convertClaudeAssistantMessage(m) = Message(role, shape, parts)
  BY <1>1, <1>2, Zenon DEF convertClaudeAssistantMessage
<1> HIDE DEF parts
<1> QED
  BY <1>6, <1>7, OpenAIMessage

(* A body of a format: the system's words and messages.                    *)
BodiesOf(f, messages) ==
    {b \in [format : {f}, system : Seq(Tokens("system")), msgs : Seq(messages)] : TRUE}
OpenAIBodies == BodiesOf("openai", OpenAIMessages)

(* A body made of the system's message and others.                         *)
LEMMA OpenAIBody ==
  ASSUME NEW b, b.system \in Seq(Tokens("system")), NEW msgs \in Seq(OpenAIMessages)
  PROVE  Body("openai", <<>>, SystemMessage(b) \o msgs) \in OpenAIBodies
<1>1. SystemMessage(b) \o msgs \in Seq(OpenAIMessages)
  BY SystemMessageTyped
<1>2. <<>> \in Seq(Tokens("system"))
  OBVIOUS
<1> QED
  BY <1>1, <1>2 DEF Body, OpenAIBodies, BodiesOf

(* A Claude body in OpenAI's format.                                       *)
LEMMA FromClaude ==
  ASSUME NEW b, b.system \in Seq(Tokens("system")), b.msgs \in Seq(ClaudeMessages)
  PROVE  ConvertClaudeToOpenAI(b) \in OpenAIBodies
<1> DEFINE f == [i \in DOMAIN b.msgs |->
                    CASE b.msgs[i].role = "user" -> convertClaudeUserMessage(b.msgs[i])
                      [] b.msgs[i].role = "assistant" -> <<convertClaudeAssistantMessage(b.msgs[i])>>
                      [] OTHER -> <<>>]
<1>1. ASSUME NEW i \in DOMAIN b.msgs PROVE f[i] \in Seq(OpenAIMessages)
  <2> DEFINE m == b.msgs[i]
  <2>1. m \in ClaudeMessages
    OBVIOUS
  <2>2. m.role \in ClaudeRoles
    BY <2>1, MessagesAre DEF ClaudeMessages
  <2>3. CASE m.role = "user"
    <3>1. f[i] = convertClaudeUserMessage(m)
      BY <2>3
    <3> HIDE DEF f, m
    <3> QED
      BY <2>1, <2>3, <3>1, ClaudeUserTyped
  <2>4. CASE m.role = "assistant"
    <3>1. f[i] = <<convertClaudeAssistantMessage(m)>>
      BY <2>4
    <3> HIDE DEF f, m
    <3>2. convertClaudeAssistantMessage(m) \in OpenAIMessages
      BY <2>1, <2>4, ClaudeAssistantTyped
    <3> QED
      BY <3>1, <3>2
  <2> QED
    BY <2>2, <2>3, <2>4 DEF ClaudeRoles
<1>2. f \in [DOMAIN b.msgs -> Seq(OpenAIMessages)]
  BY <1>1
<1>3. ConvertClaudeToOpenAI(b) = Body("openai", <<>>, SystemMessage(b) \o FlattenSeq(f))
  BY Zenon DEF ConvertClaudeToOpenAI, Map
<1> HIDE DEF f
<1>4. FlattenSeq(f) \in Seq(OpenAIMessages)
  BY <1>2, FlattenMapped
<1> QED
  BY <1>3, <1>4, OpenAIBody

(* An item of a Responses body in OpenAI's format.                         *)
LEMMA ResponsesMessageTyped ==
  ASSUME NEW m \in ResponsesMessages, m.role \in SpeakersRoles
  PROVE  r2cConvertMessage(m) \in Seq(OpenAIMessages)
<1> DEFINE parts == Of(m.parts, {"text"} \cup Images)
           shape == IF OneText(parts) THEN "string" ELSE m.as
<1>1. m.as \in Shapes /\ m.parts \in Seq(PartsFrom(m.role))
  BY MessagesAre DEF ResponsesMessages
<1>2. parts \in Seq(PartsFrom(m.role))
  BY <1>1, OfSaid
<1>3. shape \in Shapes
  BY <1>1 DEF Shapes
<1>4. r2cConvertMessage(m) \in {<<>>, <<Message(m.role, shape, parts)>>}
  BY Zenon DEF r2cConvertMessage
<1> HIDE DEF parts, shape
<1>5. Message(m.role, shape, parts) \in OpenAIMessages
  BY <1>2, <1>3, OpenAIMessage
<1> HIDE DEF ResponsesMessages
<1>6. <<Message(m.role, shape, parts)>> \in Seq(OpenAIMessages) /\ <<>> \in Seq(OpenAIMessages)
  BY <1>5
<1> QED
  BY <1>4, <1>6

(* The result an output item gives.                                        *)
LEMMA OutputTyped ==
  ASSUME NEW m \in ResponsesMessages, m.role = "function_call_output"
  PROVE  Message("tool", "string", m.parts) \in OpenAIMessages
<1>1. m.parts \in Seq(PartsFrom(m.role)) /\ OneResult(m)
  BY MessagesAre DEF ResponsesMessages
<1>2. PICK p \in PartsFrom(m.role) : m.parts = <<p>> /\ p.k = "result"
  BY <1>1 DEF OneResult
<1> QED
  BY <1>2, ToolMessage

(* A Responses body in OpenAI's format.                                    *)
LEMMA FromResponses ==
  ASSUME NEW b, b.system \in Seq(Tokens("system")), b.msgs \in Seq(ResponsesMessages)
  PROVE  ConvertResponsesToOpenAI(b) \in OpenAIBodies
<1> DEFINE f == [i \in DOMAIN b.msgs |->
                    CASE b.msgs[i].role \in {"function_call", "reasoning"} -> <<>>
                      [] b.msgs[i].role = "function_call_output" ->
                            <<Message("tool", "string", b.msgs[i].parts)>>
                      [] OTHER -> r2cConvertMessage(b.msgs[i])]
<1>1. ASSUME NEW i \in DOMAIN b.msgs PROVE f[i] \in Seq(OpenAIMessages)
  <2> DEFINE m == b.msgs[i]
  <2>1. m \in ResponsesMessages
    OBVIOUS
  <2>2. m.role \in ResponsesRoles
    BY <2>1, MessagesAre DEF ResponsesMessages
  <2>3. CASE m.role \in {"function_call", "reasoning"}
    BY <2>3
  <2>4. CASE m.role = "function_call_output"
    <3>1. f[i] = <<Message("tool", "string", m.parts)>>
      BY <2>4
    <3> HIDE DEF f, m
    <3>2. Message("tool", "string", m.parts) \in OpenAIMessages
      BY <2>1, <2>4, OutputTyped
    <3> QED
      BY <3>1, <3>2
  <2>5. CASE m.role \in {"user", "assistant"}
    <3>1. f[i] = r2cConvertMessage(m)
      BY <2>5
    <3>2. m.role \in SpeakersRoles
      BY <2>5 DEF SpeakersRoles
    <3> HIDE DEF f, m
    <3> QED
      BY <2>1, <3>1, <3>2, ResponsesMessageTyped
  <2> QED
    BY <2>2, <2>3, <2>4, <2>5 DEF ResponsesRoles
<1>2. f \in [DOMAIN b.msgs -> Seq(OpenAIMessages)]
  BY <1>1
<1>3. ConvertResponsesToOpenAI(b) = Body("openai", <<>>, SystemMessage(b) \o FlattenSeq(f))
  BY Zenon DEF ConvertResponsesToOpenAI, r2cConvertInputToMessages, Map
<1> HIDE DEF f
<1>4. FlattenSeq(f) \in Seq(OpenAIMessages)
  BY <1>2, FlattenMapped
<1> QED
  BY <1>3, <1>4, OpenAIBody

(* What numbering keeps: the parts are what they were, but for their ids.  *)
Numbering(role) == [n : Int, ids : [Functions -> Int], parts : Seq(PartsFrom(role))]

(* A number given to a part.                                               *)
LEMMA NumberGiven ==
  ASSUME NEW role, NEW p \in PartsFrom(role), NEW n \in Int
  PROVE  [p EXCEPT !.id = n] \in PartsFrom(role)
<1> DEFINE q == [p EXCEPT !.id = n]
<1>1. p \in AnyPart
  BY PartsAre
<1>2. q \in AnyPart /\ q.k = p.k /\ q.v = p.v
  BY <1>1 DEF AnyPart
<1> HIDE DEF q
<1> QED
  BY <1>2, PartChanged DEF q

(* One part more.                                                          *)
LEMMA NumberedTyped ==
  ASSUME NEW role, NEW acc \in Numbering(role), NEW p \in PartsFrom(role), NamesItsFunction(p)
  PROVE  Numbered(acc, p) \in Numbering(role)
<1>1. /\ acc.n \in Int /\ acc.ids \in [Functions -> Int] /\ acc.parts \in Seq(PartsFrom(role))
      /\ acc = [n |-> acc.n, ids |-> acc.ids, parts |-> acc.parts]
  BY DEF Numbering
<1>2. \A q \in PartsFrom(role) : Append(acc.parts, q) \in Seq(PartsFrom(role))
  BY <1>1
<1>3. \A i \in Int : [acc.ids EXCEPT ![p.fn] = i] \in [Functions -> Int]
  BY <1>1
<1>4. \A k \in Int : \A ids \in [Functions -> Int] : \A ps \in Seq(PartsFrom(role)) :
         [n |-> k, ids |-> ids, parts |-> ps] \in Numbering(role)
  BY DEF Numbering
<1> DEFINE q == [p EXCEPT !.id = acc.n]
           r == [p EXCEPT !.id = acc.ids[p.fn]]
<1>5. q \in PartsFrom(role)
  BY <1>1, NumberGiven
<1>6. CASE p.k = "call" \/ (p.k = "result" /\ acc.ids[p.fn] = 0)
  <2>1. Numbered(acc, p) = [n |-> acc.n + 1, ids |-> [acc.ids EXCEPT ![p.fn] = acc.n],
                            parts |-> Append(acc.parts, q)]
    BY <1>6 DEF Numbered
  <2> HIDE DEF q
  <2>2. acc.n + 1 \in Int
    BY <1>1
  <2>3. Append(acc.parts, q) \in Seq(PartsFrom(role))
    BY <1>2, <1>5
  <2>4. [acc.ids EXCEPT ![p.fn] = acc.n] \in [Functions -> Int]
    BY <1>1, <1>3
  <2> QED
    BY <1>4, <2>1, <2>2, <2>3, <2>4
<1>7. CASE p.k = "result" /\ acc.ids[p.fn] # 0
  <2>1. Numbered(acc, p) = [acc EXCEPT !.parts = Append(@, r)]
    BY <1>7 DEF Numbered
  <2>2. acc.ids[p.fn] \in Int
    BY <1>1, <1>7 DEF NamesItsFunction
  <2>3. r \in PartsFrom(role)
    BY <2>2, NumberGiven
  <2> HIDE DEF r
  <2>4. Append(acc.parts, r) \in Seq(PartsFrom(role))
    BY <1>2, <2>3
  <2> QED
    BY <2>1, <2>4 DEF Numbering
<1>8. CASE p.k # "call" /\ p.k # "result"
  <2>1. Numbered(acc, p) = [acc EXCEPT !.parts = Append(@, p)]
    BY <1>8 DEF Numbered
  <2>2. Append(acc.parts, p) \in Seq(PartsFrom(role))
    BY <1>2
  <2> QED
    BY <2>1, <2>2 DEF Numbering
<1> QED
  BY <1>6, <1>7, <1>8

(* The parts of a Gemini message, numbered.                                *)
LEMMA NumberingTyped ==
  ASSUME NEW m \in GeminiMessages, NEW base \in Numbering(m.role)
  PROVE  FoldLeft(Numbered, base, m.parts) \in Numbering(m.role)
<1> DEFINE E == {p \in PartsFrom(m.role) : NamesItsFunction(p)}
           V == Numbering(m.role)
<1>1. m.parts \in Seq(PartsFrom(m.role)) /\ \A i \in DOMAIN m.parts : NamesItsFunction(m.parts[i])
  BY MessagesAre DEF GeminiMessages
<1>2. m.parts \in Seq(E)
  BY <1>1
<1>3. NumbersStay(E, V)
  BY NumberedTyped DEF NumbersStay
<1>4. base \in V
  OBVIOUS
<1> HIDE DEF E, V
<1>5. PICK t \in [0 .. Len(m.parts) -> V] : t[Len(m.parts)] = AllNumbered(base, m.parts)
  <2>1. PICK s : s = m.parts
    OBVIOUS
  <2>2. s \in Seq(E)
    BY <1>2, <2>1
  <2>3. \E t \in [0 .. Len(s) -> V] :
           /\ t[0] = base /\ t[Len(s)] = AllNumbered(base, s)
           /\ \A i \in 1 .. Len(s) : t[i] = Numbered(t[i - 1], s[i])
    BY <1>3, <1>4, <2>2, NumbersFold
  <2> QED
    BY <2>1, <2>3
<1>6. Len(m.parts) \in 0 .. Len(m.parts)
  BY <1>1
<1>7. AllNumbered(base, m.parts) \in V
  BY <1>5, <1>6
<1> QED
  BY <1>7 DEF AllNumbered, V

(* A model's parts are an assistant's, and a thought is said like a text.  *)
LEMMA ModelSpeaks ==
  /\ PartsFrom("model") = PartsFrom("assistant")
  /\ \A role : WhoSays(role, "think") = WhoSays(role, "text")
<1>1. \A k : WhoSays("model", k) = WhoSays("assistant", k)
  BY DEF WhoSays
<1> QED
  BY <1>1 DEF PartsFrom, WhoSays

(* The texts of a Gemini message, one by one or joined.                    *)
LEMMA GeminiTexts ==
  ASSUME NEW role, NEW parts \in Seq(PartsFrom(role))
  PROVE  LET texts == Of(parts, {"text", "think"})
         IN  /\ [i \in DOMAIN texts |-> Text(texts[i].v)] \in Seq(PartsFrom(role))
             /\ TextPart(Joined(texts)) \in Seq(PartsFrom(role))
<1> DEFINE P == {p \in PartsFrom(role) : p.k \in {"text", "think"}}
           T == Tokens(WhoSays(role, "text"))
           texts == Of(parts, {"text", "think"})
<1>1. texts \in Seq(P)
  BY OfSaid
<1>2. \A p \in P : p.v \in Seq(T)
  BY PartsAre, ModelSpeaks
<1> HIDE DEF P, T, texts
<1>3. \A v \in Seq(T) : Text(v) \in PartsFrom(role) /\ TextPart(v) \in Seq(PartsFrom(role))
  BY TextSaid, TextPartSaid DEF T
<1>4. Joined(texts) \in Seq(T)
  BY <1>1, <1>2, JoinedTyped
<1>5. \A i \in DOMAIN texts : Text(texts[i].v) \in PartsFrom(role)
  BY <1>1, <1>2, <1>3
<1>6. [i \in DOMAIN texts |-> Text(texts[i].v)] \in Seq(PartsFrom(role))
  <2>1. DOMAIN texts = 1 .. Len(texts) /\ Len(texts) \in Nat
    BY <1>1
  <2> QED
    BY <1>5, <2>1
<1>7. TextPart(Joined(texts)) \in Seq(PartsFrom(role))
  BY <1>3, <1>4
<1> QED
  BY <1>6, <1>7, Zenon DEF texts

(* The results in a message, each as a message of its own.                 *)
LEMMA ResultsTyped ==
  ASSUME NEW role, NEW parts \in Seq(PartsFrom(role))
  PROVE  Map(Of(parts, {"result"}), LAMBDA p : <<Message("tool", "string", <<p>>)>>) \in Seq(OpenAIMessages)
<1> DEFINE P == {p \in PartsFrom(role) : p.k \in {"result"}}
           answers == Of(parts, {"result"})
           f == [i \in DOMAIN answers |-> <<Message("tool", "string", <<answers[i]>>)>>]
<1>1. answers \in Seq(P)
  BY OfSaid
<1>2. \A p \in P : Message("tool", "string", <<p>>) \in OpenAIMessages
  BY ToolMessage
<1>3. FlattenSeq(f) = Map(Of(parts, {"result"}), LAMBDA p : <<Message("tool", "string", <<p>>)>>)
  BY Zenon DEF Map
<1> HIDE DEF P, answers
<1>4. f \in [DOMAIN answers -> Seq(OpenAIMessages)]
  <2>1. \A i \in DOMAIN answers : Message("tool", "string", <<answers[i]>>) \in OpenAIMessages
    BY <1>1, <1>2
  <2> QED
    BY <2>1
<1> HIDE DEF f
<1>5. FlattenSeq(f) \in Seq(OpenAIMessages)
  BY <1>1, <1>4, FlattenMapped
<1> QED
  BY <1>3, <1>5

(* A Gemini message in OpenAI's format.                                    *)
LEMMA ContentTyped ==
  ASSUME NEW role \in GeminiRoles, NEW parts \in Seq(PartsFrom(role))
  PROVE  g2oConvertContent(role, parts) \in Seq(OpenAIMessages)
<1> DEFINE texts == Of(parts, {"text", "think"})
           images == Of(parts, {"image"})
           called == Of(parts, {"call"})
           said == IF role = "user" /\ images # <<>> THEN [i \in DOMAIN texts |-> Text(texts[i].v)]
                   ELSE TextPart(Joined(texts))
           tools == Map(Of(parts, {"result"}), LAMBDA p : <<Message("tool", "string", <<p>>)>>)
           user == Message("user", IF images = <<>> THEN "string" ELSE "list", said \o images)
           shape == CASE images # <<>> -> "list"
                      [] images = <<>> /\ said = <<>> /\ called = <<>> -> "null"
                      [] OTHER -> "string"
           spoken == (IF images # <<>> THEN images ELSE said) \o called
<1>1. images \in Seq(PartsFrom(role)) /\ called \in Seq(PartsFrom(role))
  BY OfSaid
<1>2. said \in Seq(PartsFrom(role))
  BY GeminiTexts
<1>3. tools \in Seq(OpenAIMessages)
  BY ResultsTyped
<1>4. said \o images \in Seq(PartsFrom(role)) /\ spoken \in Seq(PartsFrom(role))
  <2> HIDE DEF said, images, called
  <2> QED
    BY <1>1, <1>2
<1>5. CASE role = "user"
  <2>1. g2oConvertContent(role, parts)
           = (IF said \o images = <<>> THEN <<>> ELSE <<user>>) \o tools
    BY <1>5, Zenon DEF g2oConvertContent
  <2>2. user \in OpenAIMessages
    <3>1. PICK who \in SpeakersRoles : who = "user"
      BY DEF SpeakersRoles
    <3>2. \E sh \in Shapes : sh = IF images = <<>> THEN "string" ELSE "list"
      BY DEF Shapes
    <3>3. PICK sh \in Shapes : sh = IF images = <<>> THEN "string" ELSE "list"
      BY <3>2
    <3>4. Message(who, sh, said \o images) \in OpenAIMessages
      <4> HIDE DEF said, images
      <4> QED
        BY <1>4, <1>5, <3>1, OpenAIMessage
    <3> QED
      BY <3>1, <3>3, <3>4, Zenon
  <2> HIDE DEF user, tools, said, images
  <2> QED
    BY <1>3, <2>1, <2>2
<1>6. CASE role = "model"
  <2>1. g2oConvertContent(role, parts) = <<Message("assistant", shape, spoken)>> \o tools
    BY <1>6, Zenon DEF g2oConvertContent
  <2>2. shape \in Shapes
    <3>1. shape \in {"list", "null", "string"}
      <4> HIDE DEF images, said, called
      <4> QED
        OBVIOUS
    <3> QED
      BY <3>1 DEF Shapes
  <2> HIDE DEF tools, shape, spoken
  <2>3. Message("assistant", shape, spoken) \in OpenAIMessages
    <3>1. PICK who \in SpeakersRoles : who = "assistant"
      BY DEF SpeakersRoles
    <3>2. spoken \in Seq(PartsFrom(who))
      BY <1>4, <1>6, <3>1, ModelSpeaks
    <3>3. Message(who, shape, spoken) \in OpenAIMessages
      BY <2>2, <3>2, OpenAIMessage
    <3> QED
      BY <3>1, <3>3, Zenon
  <2> QED
    BY <1>3, <2>1, <2>3
<1> QED
  BY <1>5, <1>6 DEF GeminiRoles

(* What reading a Gemini body's messages keeps.                            *)
Reading == [n : Int, ids : [Functions -> Int], out : Seq(OpenAIMessages)]

(* One message more.                                                       *)
LEMMA NextContentTyped ==
  ASSUME NEW acc \in Reading, NEW m \in GeminiMessages
  PROVE  NextContent(acc, m) \in Reading
<1> DEFINE base == [n |-> acc.n, ids |-> acc.ids, parts |-> <<>>]
           read == FoldLeft(Numbered, base, m.parts)
           more == g2oConvertContent(m.role, read.parts)
<1>1. acc.n \in Int /\ acc.ids \in [Functions -> Int] /\ acc.out \in Seq(OpenAIMessages)
  BY DEF Reading
<1>2. base \in Numbering(m.role)
  <2>1. <<>> \in Seq(PartsFrom(m.role))
    OBVIOUS
  <2> QED
    BY <1>1, <2>1 DEF Numbering
<1>3. NextContent(acc, m) = [n |-> read.n, ids |-> read.ids, out |-> acc.out \o more]
  BY Zenon DEF NextContent
<1> HIDE DEF base
<1>4. read \in Numbering(m.role)
  BY <1>2, NumberingTyped
<1> HIDE DEF read
<1>5. read.n \in Int /\ read.ids \in [Functions -> Int] /\ read.parts \in Seq(PartsFrom(m.role))
  BY <1>4 DEF Numbering
<1>6. m.role \in GeminiRoles
  BY MessagesAre DEF GeminiMessages
<1>7. more \in Seq(OpenAIMessages)
  BY <1>5, <1>6, ContentTyped
<1> HIDE DEF more
<1>8. acc.out \o more \in Seq(OpenAIMessages)
  BY <1>1, <1>7
<1> QED
  BY <1>3, <1>5, <1>8 DEF Reading

(* A Gemini body in OpenAI's format.                                       *)
LEMMA FromGemini ==
  ASSUME NEW b, b.system \in Seq(Tokens("system")), b.msgs \in Seq(GeminiMessages)
  PROVE  ConvertGeminiToOpenAI(b, Functions) \in OpenAIBodies
<1> DEFINE base == [n |-> 1, ids |-> [f \in Functions |-> 0], out |-> <<>>]
           all == ContentsTaken(base, b.msgs)
<1>1. base \in Reading
  BY DEF Reading
<1>2. ContentsStay(GeminiMessages, Reading)
  BY NextContentTyped DEF ContentsStay
<1>3. ConvertGeminiToOpenAI(b, Functions) = Body("openai", <<>>, SystemMessage(b) \o all.out)
  BY Zenon DEF ConvertGeminiToOpenAI, ContentsTaken
<1> HIDE DEF base
<1>4. all \in Reading
  <2>1. PICK s : s = b.msgs
    OBVIOUS
  <2>2. s \in Seq(GeminiMessages)
    BY <2>1
  <2>3. PICK t \in [0 .. Len(s) -> Reading] : t[Len(s)] = ContentsTaken(base, s)
    BY <1>1, <1>2, <2>2, ContentsFold
  <2>4. Len(s) \in 0 .. Len(s)
    BY <2>2
  <2> QED
    BY <2>1, <2>3, <2>4
<1> HIDE DEF all
<1>5. all.out \in Seq(OpenAIMessages)
  BY <1>4 DEF Reading
<1> QED
  BY <1>3, <1>5, OpenAIBody

(* Any body, in OpenAI's format.                                           *)
ClaudeBodies == BodiesOf("claude", ClaudeMessages)
GeminiBodies == BodiesOf("gemini", GeminiMessages)
ResponsesBodies == BodiesOf("responses", ResponsesMessages)
ClientBodies == OpenAIBodies \cup ClaudeBodies \cup GeminiBodies \cup ResponsesBodies

(* The fields of a body.                                                   *)
LEMMA BodiesAre ==
  ASSUME NEW f, NEW messages, NEW b \in BodiesOf(f, messages)
  PROVE  b.format = f /\ b.system \in Seq(Tokens("system")) /\ b.msgs \in Seq(messages)
BY DEF BodiesOf

(* ConvertToOpenAI, whatever comes in.                                     *)
LEMMA ToOpenAITyped ==
  ASSUME NEW b \in ClientBodies
  PROVE  ConvertToOpenAI(b, Functions) \in OpenAIBodies
<1>1. CASE b \in OpenAIBodies
  <2>1. b.format = "openai"
    BY <1>1, BodiesAre DEF OpenAIBodies
  <2> QED
    BY <1>1, <2>1 DEF ConvertToOpenAI
<1>2. CASE b \in ClaudeBodies
  <2>1. b.format = "claude" /\ b.system \in Seq(Tokens("system")) /\ b.msgs \in Seq(ClaudeMessages)
    BY <1>2, BodiesAre DEF ClaudeBodies
  <2>2. ConvertToOpenAI(b, Functions) = ConvertClaudeToOpenAI(b)
    BY <2>1 DEF ConvertToOpenAI
  <2> QED
    BY <2>1, <2>2, FromClaude
<1>3. CASE b \in GeminiBodies
  <2>1. b.format = "gemini" /\ b.system \in Seq(Tokens("system")) /\ b.msgs \in Seq(GeminiMessages)
    BY <1>3, BodiesAre DEF GeminiBodies
  <2>2. ConvertToOpenAI(b, Functions) = ConvertGeminiToOpenAI(b, Functions)
    BY <2>1 DEF ConvertToOpenAI
  <2> QED
    BY <2>1, <2>2, FromGemini
<1>4. CASE b \in ResponsesBodies
  <2>1. b.format = "responses" /\ b.system \in Seq(Tokens("system")) /\ b.msgs \in Seq(ResponsesMessages)
    BY <1>4, BodiesAre DEF ResponsesBodies
  <2>2. ConvertToOpenAI(b, Functions) = ConvertResponsesToOpenAI(b)
    BY <2>1 DEF ConvertToOpenAI
  <2> QED
    BY <2>1, <2>2, FromResponses
<1> QED
  BY <1>1, <1>2, <1>3, <1>4 DEF ClientBodies

-----------------------------------------------------------------------------
(* OpenAI's messages on their way to the vendors *)

(* What goes into one of Claude's messages.                                *)
ContentsFrom(role) == [as : Shapes, parts : Seq(PartsFrom(role))]

(* Results are anybody's parts.                                            *)
LEMMA ResultsAnywhere ==
  ASSUME NEW r, NEW role, NEW parts \in Seq(PartsFrom(r))
  PROVE  Of(parts, {"result"}) \in Seq(PartsFrom(role))
<1> DEFINE P == {p \in PartsFrom(r) : p.k \in {"result"}}
<1>1. Of(parts, {"result"}) \in Seq(P)
  BY OfSaid
<1>2. P \subseteq PartsFrom(role)
  BY ResultAnywhere
<1> HIDE DEF P
<1> QED
  BY <1>1, <1>2, SeqWider

(* A content has its fields, and each of the shapes is one.                *)
LEMMA ContentSaid ==
  ASSUME NEW role, NEW parts \in Seq(PartsFrom(role))
  PROVE  /\ Content("string", parts) \in ContentsFrom(role)
         /\ Content("list", parts) \in ContentsFrom(role)
         /\ Content("pointer", parts) \in ContentsFrom(role)
BY DEF Content, ContentsFrom, Shapes

(* The blank that stands for no text.                                      *)
LEMMA SpaceSaid ==
  ASSUME NEW role
  PROVE  Space \in PartsFrom(role) /\ <<Space>> \in Seq(PartsFrom(role))
         /\ Text(<<PointerText>>) \in PartsFrom(role)
<1>1. Space \in PartsFrom(role)
  BY TokensAre, TextSaid DEF Space
<1>2. Text(<<PointerText>>) \in PartsFrom(role)
  BY TokensAre, TextSaid DEF PointerText
<1> QED
  BY <1>1, <1>2

(* Blocks of parts.                                                        *)
LEMMA BlocksTyped ==
  ASSUME NEW role, NEW parts \in Seq(PartsFrom(role))
  PROVE  Blocks(parts) \in ContentsFrom(role)
<1>1. parts = <<>> => ~ OneText(parts)
  BY DEF OneText
<1>2. CASE parts = <<>>
  <2>1. Blocks(parts) = Content("list", <<Space>>)
    BY <1>1, <1>2, Zenon DEF Blocks
  <2> QED
    BY <2>1, SpaceSaid, ContentSaid
<1>3. CASE parts # <<>> /\ OneText(parts)
  <2>1. Blocks(parts) = Content("pointer", parts)
    BY <1>3, Zenon DEF Blocks
  <2> QED
    BY <2>1, ContentSaid
<1>4. CASE parts # <<>> /\ ~ OneText(parts)
  <2>1. Blocks(parts) = Content("list", parts)
    BY <1>4, Zenon DEF Blocks
  <2> QED
    BY <2>1, ContentSaid
<1> QED
  BY <1>2, <1>3, <1>4

(* What a user says, in Claude's format.                                   *)
LEMMA UserContent ==
  ASSUME NEW role, NEW m, m.parts \in Seq(PartsFrom(role))
  PROVE  o2cConvertUserMessage(m) \in ContentsFrom(role)
<1> DEFINE parts == Of(m.parts, {"text"} \cup Images)
<1>1. parts \in Seq(PartsFrom(role))
  BY OfSaid
<1>2. o2cConvertUserMessage(m) \in {Blocks(parts), Content("list", <<Space>>), Content("string", parts)}
  BY Zenon DEF o2cConvertUserMessage
<1> HIDE DEF parts
<1>3. Blocks(parts) \in ContentsFrom(role) /\ Content("string", parts) \in ContentsFrom(role)
  BY <1>1, BlocksTyped, ContentSaid
<1>4. Content("list", <<Space>>) \in ContentsFrom(role)
  BY SpaceSaid, ContentSaid
<1> QED
  BY <1>2, <1>3, <1>4

(* What an assistant says, in Claude's format.                             *)
LEMMA AssistantContent ==
  ASSUME NEW role, NEW m, m.parts \in Seq(PartsFrom(role))
  PROVE  o2cConvertAssistantMessage(m) \in ContentsFrom(role)
<1> DEFINE text == o2cExtractTextContent(m)
           parts == Of(m.parts, {"think"}) \o TextPart(text) \o Of(m.parts, {"call"})
<1>1. text \in Seq(Tokens(WhoSays(role, "text")))
  BY TextOfSaid, TokensAre DEF o2cExtractTextContent, NilText
<1> HIDE DEF text
<1>2. TextPart(text) \in Seq(PartsFrom(role))
  BY <1>1, TextPartSaid
<1>3. Of(m.parts, {"think"}) \in Seq(PartsFrom(role)) /\ Of(m.parts, {"call"}) \in Seq(PartsFrom(role))
  BY OfSaid
<1>4. parts \in Seq(PartsFrom(role))
  BY <1>2, <1>3
<1>5. o2cConvertAssistantMessage(m) = Blocks(parts)
  BY Zenon DEF o2cConvertAssistantMessage, text
<1> HIDE DEF parts
<1> QED
  BY <1>4, <1>5, BlocksTyped

(* Two contents of one speaker.                                            *)
LEMMA MergedTyped ==
  ASSUME NEW role, NEW old, old.parts \in Seq(PartsFrom(role)), NEW new \in ContentsFrom(role)
  PROVE  o2cMergeContents(old, new) \in ContentsFrom(role)
<1> DEFINE merged == o2cContentToBlocks(old) \o o2cContentToBlocks(new)
<1>1. new.parts \in Seq(PartsFrom(role))
  BY DEF ContentsFrom
<1>2. <<Text(<<PointerText>>)>> \in Seq(PartsFrom(role))
  BY SpaceSaid
<1>3. /\ o2cContentToBlocks(old) \in Seq(PartsFrom(role))
      /\ o2cContentToBlocks(new) \in Seq(PartsFrom(role))
  BY <1>1, <1>2 DEF o2cContentToBlocks
<1>4. merged \in Seq(PartsFrom(role))
  BY <1>3
<1>5. o2cMergeContents(old, new) \in {Content("pointer", merged), Content("list", merged)}
  BY Zenon DEF o2cMergeContents
<1> HIDE DEF merged
<1> QED
  BY <1>4, <1>5, ContentSaid

(* The beginning of a sequence.                                            *)
LEMMA Beginning ==
  ASSUME NEW E, NEW s \in Seq(E), NEW n \in 0 .. Len(s)
  PROVE  /\ SubSeq(s, 1, n) \in Seq(E) /\ Len(SubSeq(s, 1, n)) = n
         /\ \A i \in 1 .. n : SubSeq(s, 1, n)[i] = s[i]
OBVIOUS

(* A sequence with another last element.                                   *)
LEMMA LastReplaced ==
  ASSUME NEW E, NEW s \in Seq(E), s # <<>>, NEW x \in E
  PROVE  /\ Append(Front(s), x) \in Seq(E) /\ Len(Append(Front(s), x)) = Len(s)
         /\ Append(Front(s), x)[Len(s)] = x
         /\ \A i \in 1 .. Len(s) - 1 : Append(Front(s), x)[i] = s[i]
         /\ Last(s) = s[Len(s)] /\ Last(s) \in E /\ Len(s) \in Nat \ {0}
<1>1. Len(s) \in Nat \ {0} /\ s[Len(s)] \in E
  OBVIOUS
<1>2. Front(s) \in Seq(E) /\ Len(Front(s)) = Len(s) - 1 /\ \A i \in 1 .. Len(s) - 1 : Front(s)[i] = s[i]
  <2>1. Len(s) - 1 \in 0 .. Len(s)
    BY <1>1
  <2>2. /\ SubSeq(s, 1, Len(s) - 1) \in Seq(E) /\ Len(SubSeq(s, 1, Len(s) - 1)) = Len(s) - 1
        /\ \A i \in 1 .. Len(s) - 1 : SubSeq(s, 1, Len(s) - 1)[i] = s[i]
    BY <2>1, Beginning
  <2> QED
    BY <2>2, Zenon DEF Front
<1>3. Last(s) = s[Len(s)]
  BY <1>1 DEF Last
<1> QED
  BY <1>1, <1>2, <1>3

(* Claude's messages while they are put together: neighbours differ.       *)
Alternating ==
    {msgs \in Seq(ClaudeMessages) : \A i \in 1 .. Len(msgs) - 1 : msgs[i].role # msgs[i + 1].role}

(* A message more, or more in the last one.                                *)
LEMMA AddTyped ==
  ASSUME NEW msgs \in Alternating, NEW role \in ClaudeRoles, NEW c \in ContentsFrom(role)
  PROVE  AddTo(msgs, role, c) \in Alternating
<1>1. msgs \in Seq(ClaudeMessages) /\ \A i \in 1 .. Len(msgs) - 1 : msgs[i].role # msgs[i + 1].role
  BY DEF Alternating
<1>2. \A d \in ContentsFrom(role) : Message(role, d.as, d.parts) \in ClaudeMessages
  BY MessageSaid DEF ContentsFrom, ClaudeMessages
<1>3. CASE msgs # <<>> /\ Last(msgs).role = role
  <2> DEFINE d == o2cMergeContents(Last(msgs), c)
             x == Message(role, d.as, d.parts)
             r == Append(Front(msgs), x)
  <2>1. Last(msgs) \in ClaudeMessages
    BY <1>1, <1>3, LastReplaced
  <2>2. Last(msgs).parts \in Seq(PartsFrom(role))
    BY <1>3, <2>1, MessagesAre DEF ClaudeMessages
  <2>3. d \in ContentsFrom(role)
    BY <2>2, MergedTyped
  <2>4. AddTo(msgs, role, c) = r
    BY <1>3, Zenon DEF AddTo
  <2>5. x.role = role
    BY DEF Message
  <2> HIDE DEF d
  <2>6. x \in ClaudeMessages
    BY <1>2, <2>3
  <2> HIDE DEF x
  <2>7. /\ r \in Seq(ClaudeMessages) /\ Len(r) = Len(msgs) /\ r[Len(msgs)] = x
        /\ \A i \in 1 .. Len(msgs) - 1 : r[i] = msgs[i]
        /\ Last(msgs) = msgs[Len(msgs)]
    <3>1. msgs \in Seq(ClaudeMessages) /\ msgs # <<>>
      BY <1>1, <1>3
    <3> QED
      BY <2>6, <3>1, LastReplaced
  <2> HIDE DEF r
  <2>8. \A i \in 1 .. Len(r) - 1 : r[i].role # r[i + 1].role
    <3> TAKE i \in 1 .. Len(r) - 1
    <3>1. r[i] = msgs[i] /\ msgs[i].role # msgs[i + 1].role
      BY <1>1, <2>7
    <3>2. CASE i + 1 = Len(msgs)
      BY <1>3, <2>5, <2>7, <3>1, <3>2
    <3>3. CASE i + 1 # Len(msgs)
      <4>1. i + 1 \in 1 .. Len(msgs) - 1
        BY <1>1, <2>7, <3>3
      <4> QED
        BY <2>7, <3>1, <4>1
    <3> QED
      BY <3>2, <3>3
  <2> QED
    BY <2>4, <2>7, <2>8 DEF Alternating
<1>4. CASE msgs = <<>> \/ Last(msgs).role # role
  <2> DEFINE x == Message(role, c.as, c.parts)
             r == Append(msgs, x)
  <2>1. AddTo(msgs, role, c) = r
    BY <1>4, Zenon DEF AddTo
  <2>2. x.role = role
    BY DEF Message
  <2>3. x \in ClaudeMessages
    BY <1>2
  <2> HIDE DEF x
  <2>4. r \in Seq(ClaudeMessages) /\ Len(r) = Len(msgs) + 1 /\ Len(msgs) \in Nat
        /\ r[Len(msgs) + 1] = x /\ \A i \in 1 .. Len(msgs) : r[i] = msgs[i]
    BY <1>1, <2>3
  <2> HIDE DEF r
  <2>5. \A i \in 1 .. Len(r) - 1 : r[i].role # r[i + 1].role
    <3> TAKE i \in 1 .. Len(r) - 1
    <3>1. CASE i = Len(msgs)
      <4>1. msgs # <<>> /\ Last(msgs) = msgs[Len(msgs)]
        BY <1>1, <2>4, <3>1, LastReplaced DEF Last
      <4> QED
        BY <1>4, <2>2, <2>4, <3>1, <4>1
    <3>2. CASE i # Len(msgs)
      <4>1. i \in 1 .. Len(msgs) - 1 /\ i + 1 \in 1 .. Len(msgs)
        BY <2>4, <3>2
      <4> QED
        BY <1>1, <2>4, <4>1
    <3> QED
      BY <3>1, <3>2
  <2> QED
    BY <2>1, <2>4, <2>5 DEF Alternating
<1> QED
  BY <1>3, <1>4

(* A message of OpenAI's more.                                             *)
LEMMA ToClaudeTyped ==
  ASSUME NEW msgs \in Alternating, NEW m \in OpenAIMessages
  PROVE  ToClaude(msgs, m) \in Alternating
<1>1. m.role \in OpenAIRoles /\ m.parts \in Seq(PartsFrom(m.role))
  BY MessagesAre DEF OpenAIMessages
<1>2. CASE m.role = "user"
  <2>1. PICK role \in ClaudeRoles : role = "user"
    BY DEF ClaudeRoles
  <2>2. o2cConvertUserMessage(m) \in ContentsFrom(role)
    BY <1>1, <1>2, <2>1, UserContent
  <2>3. AddTo(msgs, role, o2cConvertUserMessage(m)) \in Alternating
    BY <2>2, AddTyped
  <2>4. ToClaude(msgs, m) = AddTo(msgs, role, o2cConvertUserMessage(m))
    BY <1>2, <2>1 DEF ToClaude
  <2> QED
    BY <2>3, <2>4
<1>3. CASE m.role = "assistant"
  <2>1. PICK role \in ClaudeRoles : role = "assistant"
    BY DEF ClaudeRoles
  <2>2. o2cConvertAssistantMessage(m) \in ContentsFrom(role)
    BY <1>1, <1>3, <2>1, AssistantContent
  <2>3. AddTo(msgs, role, o2cConvertAssistantMessage(m)) \in Alternating
    BY <2>2, AddTyped
  <2>4. ToClaude(msgs, m) = AddTo(msgs, role, o2cConvertAssistantMessage(m))
    BY <1>3, <2>1 DEF ToClaude
  <2> QED
    BY <2>3, <2>4
<1>4. CASE m.role = "tool"
  <2>1. PICK role \in ClaudeRoles : role = "user"
    BY DEF ClaudeRoles
  <2> DEFINE answers == Of(m.parts, {"result"})
             c == Content("list", answers)
  <2>2. answers \in Seq(PartsFrom(role))
    BY <1>1, ResultsAnywhere
  <2>3. ToClaude(msgs, m) = AddTo(msgs, role, c)
    BY <1>4, <2>1 DEF ToClaude
  <2> HIDE DEF answers
  <2>4. c \in ContentsFrom(role)
    BY <2>2, ContentSaid
  <2> HIDE DEF c
  <2> QED
    BY <2>3, <2>4, AddTyped
<1>5. CASE m.role = "system"
  BY <1>5 DEF ToClaude
<1> QED
  BY <1>1, <1>2, <1>3, <1>4, <1>5 DEF OpenAIRoles

(* Whose turn it is when the user begins and neighbours differ.            *)
LEMMA SidesAlternate ==
  ASSUME NEW msgs \in Alternating, msgs # <<>> => msgs[1].role = "user"
  PROVE  \A i \in DOMAIN msgs : msgs[i].role = IF i % 2 = 1 THEN "user" ELSE "assistant"
<1> DEFINE n == Len(msgs)
           T == {i \in Nat : i \in 1 .. n => msgs[i].role = IF i % 2 = 1 THEN "user" ELSE "assistant"}
<1>1. /\ msgs \in Seq(ClaudeMessages) /\ n \in Nat /\ DOMAIN msgs = 1 .. n
      /\ \A i \in 1 .. n - 1 : msgs[i].role # msgs[i + 1].role
  BY DEF Alternating
<1>2. \A i \in 1 .. n : msgs[i].role \in {"user", "assistant"}
  BY <1>1, MessagesAre DEF ClaudeMessages, ClaudeRoles
<1>3. 0 \in T
  BY <1>1
<1>4. ASSUME NEW i \in T PROVE i + 1 \in T
  <2>1. i \in Nat /\ (i \in 1 .. n => msgs[i].role = IF i % 2 = 1 THEN "user" ELSE "assistant")
    OBVIOUS
  <2>2. ASSUME i + 1 \in 1 .. n
        PROVE  msgs[i + 1].role = IF (i + 1) % 2 = 1 THEN "user" ELSE "assistant"
    <3>1. i % 2 \in {0, 1} /\ ((i + 1) % 2 = 1 <=> i % 2 = 0)
      BY <2>1
    <3>2. CASE i = 0
      <4>1. msgs # <<>> /\ i + 1 = 1
        BY <1>1, <2>2, <3>2
      <4>2. (i + 1) % 2 = 1
        BY <3>2
      <4> QED
        BY <4>1, <4>2
    <3>3. CASE i # 0
      <4>1. i \in 1 .. n - 1 /\ i \in 1 .. n
        BY <1>1, <2>1, <2>2, <3>3
      <4>2. msgs[i].role # msgs[i + 1].role /\ msgs[i + 1].role \in {"user", "assistant"}
        BY <1>1, <1>2, <2>2, <4>1
      <4> QED
        BY <2>1, <3>1, <4>1, <4>2
    <3> QED
      BY <3>2, <3>3
  <2> QED
    BY <2>1, <2>2
<1> HIDE DEF n
<1>5. T = Nat
  <2>1. T \subseteq Nat /\ \A i \in T : i + 1 \in T
    BY <1>4
  <2> HIDE DEF T
  <2> QED
    BY <1>3, <2>1, AllNaturals
<1> QED
  BY <1>1, <1>5

(* The system's words among OpenAI's messages.                             *)
LEMMA SystemTextTyped ==
  ASSUME NEW msgs \in Seq(OpenAIMessages)
  PROVE  SystemText(msgs) \in Seq(Tokens("system"))
<1> DEFINE f == [i \in DOMAIN msgs |-> IF msgs[i].role = "system" THEN TextOf(msgs[i]) ELSE <<>>]
<1>1. ASSUME NEW i \in DOMAIN msgs, msgs[i].role = "system"
      PROVE  TextOf(msgs[i]) \in Seq(Tokens("system"))
  <2>1. PICK role \in SpeakersRoles : role = "system"
    BY DEF SpeakersRoles
  <2>2. msgs[i].parts \in Seq(PartsFrom(role))
    BY <1>1, <2>1, MessagesAre DEF OpenAIMessages
  <2>3. WhoSays(role, "text") = "system"
    BY <2>1 DEF WhoSays
  <2> QED
    BY <2>2, <2>3, TextOfSaid
<1>2. f \in [DOMAIN msgs -> Seq(Tokens("system"))]
  BY <1>1
<1>3. SystemText(msgs) = FlattenSeq(f)
  BY Zenon DEF SystemText, Map
<1> HIDE DEF f
<1> QED
  BY <1>2, <1>3, FlattenMapped

(* An OpenAI body in Claude's format: the roles alternate, the user's      *)
(* first.                                                                  *)
LEMMA ToClaudeBody ==
  ASSUME NEW b \in OpenAIBodies
  PROVE  /\ ConvertOpenAIToClaude(b) \in ClaudeBodies
         /\ \A i \in DOMAIN ConvertOpenAIToClaude(b).msgs :
               ConvertOpenAIToClaude(b).msgs[i].role = IF i % 2 = 1 THEN "user" ELSE "assistant"
<1> DEFINE said == ToldToClaude(<<>>, Messages(b))
           first == Message("user", "string", <<Space>>)
           msgs == IF said # <<>> /\ said[1].role # "user" THEN <<first>> \o said ELSE said
<1>1. b.format = "openai" /\ b.msgs \in Seq(OpenAIMessages)
  BY BodiesAre DEF OpenAIBodies
<1>2. Messages(b) = b.msgs
  BY <1>1 DEF Messages
<1>3. ConvertOpenAIToClaude(b) = Body("claude", SystemText(b.msgs), msgs)
  BY <1>2, Zenon DEF ConvertOpenAIToClaude, ToldToClaude
<1>4. said \in Alternating
  <2>1. PICK base : base = <<>>
    OBVIOUS
  <2>2. base \in Alternating
    BY <2>1 DEF Alternating
  <2>3. StaysClaude(OpenAIMessages, Alternating)
    BY ToClaudeTyped DEF StaysClaude
  <2>4. PICK s \in Seq(OpenAIMessages) : s = b.msgs
    BY <1>1
  <2>5. PICK t \in [0 .. Len(s) -> Alternating] : t[Len(s)] = ToldToClaude(base, s)
    BY <2>2, <2>3, ToClaudeFolds
  <2>6. Len(s) \in 0 .. Len(s)
    OBVIOUS
  <2> QED
    BY <1>2, <2>1, <2>4, <2>5, <2>6
<1> HIDE DEF said
<1>5. first \in ClaudeMessages /\ first.role = "user"
  <2>1. PICK role \in ClaudeRoles : role = "user"
    BY DEF ClaudeRoles
  <2>2. PICK shape \in Shapes : shape = "string"
    BY DEF Shapes
  <2>3. <<Space>> \in Seq(PartsFrom(role))
    BY SpaceSaid
  <2>4. Message(role, shape, <<Space>>) \in ClaudeMessages
    BY <2>3, MessageSaid DEF ClaudeMessages
  <2>5. first = Message(role, shape, <<Space>>)
    BY <2>1, <2>2, Zenon
  <2>6. first.role = "user"
    BY DEF Message
  <2> QED
    BY <2>4, <2>5, <2>6
<1> HIDE DEF first
<1>6. msgs \in Alternating /\ (msgs # <<>> => msgs[1].role = "user")
  <2>1. CASE said # <<>> /\ said[1].role # "user"
    <3> DEFINE r == <<first>> \o said
    <3>1. /\ said \in Seq(ClaudeMessages) /\ Len(said) \in Nat \ {0}
          /\ \A i \in 1 .. Len(said) - 1 : said[i].role # said[i + 1].role
      BY <1>4, <2>1 DEF Alternating
    <3>2. /\ r \in Seq(ClaudeMessages) /\ Len(r) = Len(said) + 1 /\ r[1] = first
          /\ \A i \in 1 .. Len(said) : r[i + 1] = said[i]
      BY <1>5, <3>1
    <3>3. msgs = r
      BY <2>1
    <3> HIDE DEF r
    <3>4. ASSUME NEW i \in 1 .. Len(r) - 1 PROVE r[i].role # r[i + 1].role
      <4>1. CASE i = 1
        <5>1. 1 \in 1 .. Len(said)
          BY <3>1
        <5>2. r[i + 1] = said[1]
          BY <3>2, <4>1, <5>1
        <5> QED
          BY <1>5, <2>1, <3>2, <4>1, <5>2
      <4>2. CASE i # 1
        <5>1. PICK j \in 1 .. Len(said) - 1 : i = j + 1 /\ j + 1 \in 1 .. Len(said)
          BY <3>1, <3>2, <4>2
        <5>2. r[i] = said[j] /\ r[i + 1] = said[j + 1]
          BY <3>1, <3>2, <5>1
        <5> QED
          BY <3>1, <5>1, <5>2
      <4> QED
        BY <4>1, <4>2
    <3>5. r \in Alternating
      BY <3>2, <3>4 DEF Alternating
    <3> QED
      BY <1>5, <3>2, <3>3, <3>5
  <2>2. CASE said = <<>> \/ said[1].role = "user"
    BY <1>4, <2>2
  <2> QED
    BY <2>1, <2>2
<1> HIDE DEF msgs
<1>7. SystemText(b.msgs) \in Seq(Tokens("system"))
  BY <1>1, SystemTextTyped
<1>8. msgs \in Seq(ClaudeMessages)
  BY <1>6 DEF Alternating
<1>9. ConvertOpenAIToClaude(b) \in ClaudeBodies
  BY <1>3, <1>7, <1>8 DEF Body, ClaudeBodies, BodiesOf
<1>10. ConvertOpenAIToClaude(b).msgs = msgs
  BY <1>3, BodyHas
<1>11. \A i \in DOMAIN msgs : msgs[i].role = IF i % 2 = 1 THEN "user" ELSE "assistant"
  BY <1>6, SidesAlternate
<1> QED
  BY <1>9, <1>10, <1>11

(* What has been put together for Gemini so far, and the calls met.        *)
GeminiSaid == MessagesFrom(GeminiRoles)
ForGemini == [out : Seq(GeminiSaid), calls : Seq(AnyPart)]

(* The function of a call is one of those met.                             *)
LEMMA NameOfTyped ==
  ASSUME NEW called \in Seq(AnyPart), NEW id
  PROVE  NameOf(called, id) \in FunctionNames
<1> DEFINE known == {i \in DOMAIN called : called[i].id = id}
           last == CHOOSE i \in known : \A j \in known : j <= i
<1>1. CASE known = {}
  BY <1>1 DEF NameOf, FunctionNames
<1>2. CASE known # {}
  <2>1. \E i \in known : \A j \in known : j <= i
    <3>1. DOMAIN called = 1 .. Len(called) /\ Len(called) \in Nat
      OBVIOUS
    <3>2. known \in SUBSET (1 .. Len(called))
      BY <3>1
    <3> HIDE DEF known
    <3> QED
      BY <1>2, <3>1, <3>2, LastPosition
  <2>2. last \in known
    <3> HIDE DEF known
    <3> QED
      BY <2>1
  <2>3. called[last] \in AnyPart
    BY <2>2
  <2>4. NameOf(called, id) = called[last].fn
    BY <1>2 DEF NameOf
  <2> HIDE DEF last
  <2> QED
    BY <2>3, <2>4 DEF AnyPart
<1> QED
  BY <1>1, <1>2

(* A part more.                                                            *)
LEMMA UserPartsTyped ==
  ASSUME NEW m, NEW role, m.parts \in Seq(PartsFrom(role))
  PROVE  o2gConvertUserParts(m) \in Seq(PartsFrom(role))
<1> DEFINE f == [i \in DOMAIN m.parts |->
                    IF m.parts[i].k = "image" \/ (m.parts[i].k = "text" /\ m.parts[i].v # <<>>)
                    THEN <<m.parts[i]>> ELSE <<>>]
<1>1. f \in [DOMAIN m.parts -> Seq(PartsFrom(role))]
  OBVIOUS
<1>2. o2gConvertUserParts(m) = FlattenSeq(f)
  BY Zenon DEF o2gConvertUserParts, Filter, Map
<1> HIDE DEF f
<1> QED
  BY <1>1, <1>2, FlattenMapped

(* What an assistant says, in Gemini's format.                             *)
LEMMA AssistantPartsTyped ==
  ASSUME NEW m, NEW role, m.parts \in Seq(PartsFrom(role))
  PROVE  o2gConvertAssistantParts(m) \in Seq(PartsFrom(role))
<1> DEFINE called == Of(m.parts, {"call"})
           f == [i \in DOMAIN called |-> <<[called[i] EXCEPT !.id = 0]>>]
<1>1. called \in Seq(PartsFrom(role)) /\ Of(m.parts, {"think"}) \in Seq(PartsFrom(role))
  BY OfSaid
<1>2. TextPart(TextOf(m)) \in Seq(PartsFrom(role))
  BY TextOfSaid, TextPartSaid
<1>3. o2gConvertAssistantParts(m) = TextPart(TextOf(m)) \o Of(m.parts, {"think"}) \o FlattenSeq(f)
  BY Zenon DEF o2gConvertAssistantParts, Map
<1> HIDE DEF called
<1>4. f \in [DOMAIN called -> Seq(PartsFrom(role))]
  <2>1. \A p \in PartsFrom(role) : [p EXCEPT !.id = 0] \in PartsFrom(role)
    BY NumberGiven
  <2>2. \A i \in DOMAIN called : <<[called[i] EXCEPT !.id = 0]>> \in Seq(PartsFrom(role))
    BY <1>1, <2>1
  <2> QED
    BY <2>2
<1> HIDE DEF f
<1>5. FlattenSeq(f) \in Seq(PartsFrom(role))
  BY <1>1, <1>4, FlattenMapped
<1> QED
  BY <1>1, <1>2, <1>3, <1>5

(* Parts as a message of their own.                                        *)
LEMMA AddContentTyped ==
  ASSUME NEW out \in Seq(GeminiSaid), NEW role \in GeminiRoles, NEW parts \in Seq(PartsFrom(role))
  PROVE  AddContent(out, role, parts) \in Seq(GeminiSaid)
<1>1. PICK shape \in Shapes : shape = "list"
  BY DEF Shapes
<1>2. Message(role, shape, parts) \in GeminiSaid
  BY MessageSaid DEF GeminiSaid
<1>3. AddContent(out, role, parts) \in {out, Append(out, Message(role, shape, parts))}
  BY <1>1, Zenon DEF AddContent
<1> QED
  BY <1>2, <1>3

(* A result for Gemini.                                                    *)
LEMMA ResponseTyped ==
  ASSUME NEW r, NEW p \in PartsFrom(r), p.k = "result", NEW fn \in FunctionNames, NEW role
  PROVE  [p EXCEPT !.id = 0, !.fn = fn] \in PartsFrom(role)
<1> DEFINE q == [p EXCEPT !.id = 0, !.fn = fn]
<1>1. p \in AnyPart
  BY PartsAre
<1>2. q \in AnyPart /\ q.k = p.k /\ q.v = p.v
  <2>1. PICK n \in Int : n = 0
    OBVIOUS
  <2> DEFINE q1 == [p EXCEPT !.id = n]
  <2>2. q1 \in AnyPart /\ q1.k = p.k /\ q1.v = p.v
    BY <1>1 DEF AnyPart
  <2>3. q = [q1 EXCEPT !.fn = fn]
    BY <2>1
  <2> HIDE DEF q1, q
  <2> QED
    BY <2>2, <2>3 DEF AnyPart
<1> HIDE DEF q
<1>3. q \in PartsFrom(r) /\ q.k = "result"
  BY <1>2, PartChanged
<1> QED
  BY <1>3, ResultAnywhere DEF q

(* A message of OpenAI's more.                                             *)
LEMMA ToGeminiTyped ==
  ASSUME NEW acc \in ForGemini, NEW m \in OpenAIMessages
  PROVE  ToGemini(acc, m) \in ForGemini
<1>1. acc.out \in Seq(GeminiSaid) /\ acc.calls \in Seq(AnyPart)
  BY DEF ForGemini
<1>2. m.role \in OpenAIRoles /\ m.parts \in Seq(PartsFrom(m.role))
  BY MessagesAre DEF OpenAIMessages
<1>3. \A out \in Seq(GeminiSaid) : [acc EXCEPT !.out = out] \in ForGemini
  BY DEF ForGemini
<1>4. CASE m.role = "user"
  <2>1. PICK role \in GeminiRoles : role = "user"
    BY DEF GeminiRoles
  <2>2. o2gConvertUserParts(m) \in Seq(PartsFrom(role))
    BY <1>2, <1>4, <2>1, UserPartsTyped
  <2>3. AddContent(acc.out, role, o2gConvertUserParts(m)) \in Seq(GeminiSaid)
    BY <1>1, <2>2, AddContentTyped
  <2>4. ToGemini(acc, m) = [acc EXCEPT !.out = AddContent(acc.out, role, o2gConvertUserParts(m))]
    BY <1>4, <2>1 DEF ToGemini
  <2> QED
    BY <1>3, <2>3, <2>4
<1>5. CASE m.role = "assistant"
  <2>1. PICK role \in GeminiRoles : role = "model"
    BY DEF GeminiRoles
  <2>2. o2gConvertAssistantParts(m) \in Seq(PartsFrom(role))
    BY <1>2, <1>5, <2>1, AssistantPartsTyped, ModelSpeaks
  <2>3. AddContent(acc.out, role, o2gConvertAssistantParts(m)) \in Seq(GeminiSaid)
    BY <1>1, <2>2, AddContentTyped
  <2>4. Of(m.parts, {"call"}) \in Seq(AnyPart)
    BY <1>2, OfSaid, PartsAre
  <2>5. ToGemini(acc, m) = [out |-> AddContent(acc.out, role, o2gConvertAssistantParts(m)),
                            calls |-> acc.calls \o Of(m.parts, {"call"})]
    BY <1>5, <2>1 DEF ToGemini
  <2>6. acc.calls \o Of(m.parts, {"call"}) \in Seq(AnyPart)
    BY <1>1, <2>4
  <2> QED
    BY <2>3, <2>5, <2>6 DEF ForGemini
<1>6. CASE m.role = "tool"
  <2> DEFINE fn == NameOf(acc.calls, m.parts[1].id)
             p == [m.parts[1] EXCEPT !.id = 0, !.fn = fn]
             own == Append(acc.out, Message("user", "list", <<p>>))
             l == [Last(acc.out) EXCEPT !.parts = Append(Last(acc.out).parts, p)]
  <2>1. ToGemini(acc, m) = [acc EXCEPT !.out = AddResult(acc.out, p)]
    BY <1>6 DEF ToGemini
  <2>2. AddResult(acc.out, p) = IF acc.out = <<>> \/ Last(acc.out).role = "model"
                                THEN own ELSE Append(Front(acc.out), l)
    BY Zenon DEF AddResult
  <2>3. m.parts[1] \in PartsFrom(m.role) /\ m.parts[1].k = "result"
    BY <1>2, <1>6 DEF OpenAIMessages, OneResult
  <2>4. fn \in FunctionNames
    BY <1>1, NameOfTyped
  <2> HIDE DEF fn
  <2>5. PICK role \in GeminiRoles : role = "user"
    BY DEF GeminiRoles
  <2>6. p \in PartsFrom(role)
    BY <2>3, <2>4, ResponseTyped
  <2> HIDE DEF p
  <2>7. own \in Seq(GeminiSaid)
    <3>1. PICK shape \in Shapes : shape = "list"
      BY DEF Shapes
    <3>2. <<p>> \in Seq(PartsFrom(role))
      BY <2>6
    <3>3. Message(role, shape, <<p>>) \in GeminiSaid
      BY <3>2, MessageSaid DEF GeminiSaid
    <3>4. Append(acc.out, Message(role, shape, <<p>>)) \in Seq(GeminiSaid)
      BY <1>1, <3>3
    <3> QED
      BY <2>5, <3>1, <3>4, Zenon
  <2> HIDE DEF own
  <2>8. ASSUME acc.out # <<>>, Last(acc.out).role # "model"
        PROVE  Append(Front(acc.out), l) \in Seq(GeminiSaid)
    <3> DEFINE x == Last(acc.out)
    <3>1. x \in GeminiSaid
      <4> HIDE DEF l
      <4> QED
        BY <1>1, <2>8, LastReplaced
    <3>2. x.role \in GeminiRoles /\ x.parts \in Seq(PartsFrom(x.role)) /\ x.as \in Shapes
      BY <3>1, MessagesAre DEF GeminiSaid
    <3>3. x.role = role
      BY <2>5, <2>8, <3>2 DEF GeminiRoles
    <3>4. Append(x.parts, p) \in Seq(PartsFrom(role))
      BY <2>6, <3>2, <3>3
    <3>5. l = Message(role, x.as, Append(x.parts, p))
      <4>1. x \in [role : GeminiRoles, as : Shapes, parts : Seq(AnyPart)]
        BY <3>1 DEF GeminiSaid, MessagesFrom
      <4>2. l = [x EXCEPT !.parts = Append(x.parts, p)]
        OBVIOUS
      <4> HIDE DEF x, l
      <4> QED
        BY <3>3, <4>1, <4>2 DEF Message
    <3> HIDE DEF x
    <3> HIDE DEF l
    <3>6. l \in GeminiSaid
      BY <3>2, <3>4, <3>5, MessageSaid DEF GeminiSaid
    <3> QED
      BY <1>1, <2>8, <3>6, LastReplaced
  <2> HIDE DEF l
  <2> QED
    BY <1>3, <2>1, <2>7, <2>8, <2>2
<1>7. CASE m.role = "system"
  BY <1>7 DEF ToGemini
<1> QED
  BY <1>2, <1>4, <1>5, <1>6, <1>7 DEF OpenAIRoles

(* An OpenAI body in Gemini's format.                                      *)
LEMMA ToGeminiBody ==
  ASSUME NEW b \in OpenAIBodies
  PROVE  ConvertOpenAIToGemini(b) \in BodiesOf("gemini", GeminiSaid)
<1> DEFINE base == [out |-> <<>>, calls |-> <<>>]
           all == ToldToGemini(base, b.msgs)
<1>1. b.format = "openai" /\ b.msgs \in Seq(OpenAIMessages)
  BY BodiesAre DEF OpenAIBodies
<1>2. Messages(b) = b.msgs
  BY <1>1 DEF Messages
<1>3. ConvertOpenAIToGemini(b) = Body("gemini", SystemText(b.msgs), all.out)
  BY <1>2, Zenon DEF ConvertOpenAIToGemini, ToldToGemini
<1>4. base \in ForGemini
  BY DEF ForGemini
<1> HIDE DEF base
<1>5. all \in ForGemini
  <2>1. StaysGemini(OpenAIMessages, ForGemini)
    BY ToGeminiTyped DEF StaysGemini
  <2>2. PICK s \in Seq(OpenAIMessages) : s = b.msgs
    BY <1>1
  <2>3. PICK t \in [0 .. Len(s) -> ForGemini] : t[Len(s)] = ToldToGemini(base, s)
    BY <1>4, <2>1, ToGeminiFolds
  <2>4. Len(s) \in 0 .. Len(s)
    OBVIOUS
  <2> QED
    BY <2>2, <2>3, <2>4
<1> HIDE DEF all
<1>6. all.out \in Seq(GeminiSaid)
  BY <1>5 DEF ForGemini
<1>7. SystemText(b.msgs) \in Seq(Tokens("system"))
  BY <1>1, SystemTextTyped
<1> QED
  BY <1>3, <1>6, <1>7 DEF Body, BodiesOf

(* A message's text and results, with its role.                            *)
LEMMA TextOnlySaid ==
  ASSUME NEW m \in OpenAIMessages
  PROVE  Message(m.role, "string", TextOnly(m)) \in MessagesFrom(OpenAIRoles)
<1>1. m.role \in OpenAIRoles /\ m.parts \in Seq(PartsFrom(m.role))
  BY MessagesAre DEF OpenAIMessages
<1>2. TextOnly(m) \in Seq(PartsFrom(m.role))
  BY <1>1, OfSaid DEF TextOnly
<1>3. PICK shape \in Shapes : shape = "string"
  BY DEF Shapes
<1>4. Message(m.role, shape, TextOnly(m)) \in MessagesFrom(OpenAIRoles)
  BY <1>1, <1>2, MessageSaid
<1> QED
  BY <1>3, <1>4

(* Messages made of texts and results only.                                *)
LEMMA TextsOnlySaid ==
  ASSUME NEW msgs \in Seq(OpenAIMessages)
  PROVE  Map(msgs, LAMBDA m : <<Message(m.role, "string", TextOnly(m))>>) \in Seq(MessagesFrom(OpenAIRoles))
<1> DEFINE f == [i \in DOMAIN msgs |-> <<Message(msgs[i].role, "string", TextOnly(msgs[i]))>>]
<1>1. Map(msgs, LAMBDA m : <<Message(m.role, "string", TextOnly(m))>>) = FlattenSeq(f)
  BY Zenon DEF Map
<1>2. \A i \in DOMAIN msgs : Message(msgs[i].role, "string", TextOnly(msgs[i])) \in MessagesFrom(OpenAIRoles)
  BY TextOnlySaid
<1>3. f \in [DOMAIN msgs -> Seq(MessagesFrom(OpenAIRoles))]
  BY <1>2
<1> HIDE DEF f
<1>4. FlattenSeq(f) \in Seq(MessagesFrom(OpenAIRoles))
  BY <1>3, FlattenMapped
<1> QED
  BY <1>1, <1>4

(* An OpenAI body for Ollama.                                              *)
LEMMA ToOllamaBody ==
  ASSUME NEW b \in OpenAIBodies
  PROVE  convertChatRequest(b) \in BodiesOf("ollama", MessagesFrom(OpenAIRoles))
<1> DEFINE msgs == Map(b.msgs, LAMBDA m : <<Message(m.role, "string", TextOnly(m))>>)
<1>1. b.format = "openai" /\ b.msgs \in Seq(OpenAIMessages)
  BY BodiesAre DEF OpenAIBodies
<1>2. Messages(b) = b.msgs
  BY <1>1 DEF Messages
<1>3. convertChatRequest(b) = Body("ollama", <<>>, msgs)
  BY <1>2, Zenon DEF convertChatRequest
<1>4. msgs \in Seq(MessagesFrom(OpenAIRoles))
  BY <1>1, TextsOnlySaid
<1> HIDE DEF msgs
<1>5. <<>> \in Seq(Tokens("system"))
  OBVIOUS
<1> QED
  BY <1>3, <1>4, <1>5 DEF Body, BodiesOf

(* The messages that have a text are some of them.                         *)
LEMMA SpokenOnly ==
  ASSUME NEW msgs \in Seq(OpenAIMessages)
  PROVE  /\ Filter(msgs, LAMBDA m : Joined(TextOnly(m)) # <<>>) \in Seq(OpenAIMessages)
         /\ Filter(msgs, LAMBDA m : m.role = "user" /\ (m.as = "list" => Of(m.parts, {"text"}) # <<>>))
               \in Seq({m \in OpenAIMessages : m.role = "user"})
<1> DEFINE U == {m \in OpenAIMessages : m.role = "user"}
           f == [i \in DOMAIN msgs |-> IF Joined(TextOnly(msgs[i])) # <<>> THEN <<msgs[i]>> ELSE <<>>]
           g == [i \in DOMAIN msgs |->
                    IF msgs[i].role = "user" /\ (msgs[i].as = "list" => Of(msgs[i].parts, {"text"}) # <<>>)
                    THEN <<msgs[i]>> ELSE <<>>]
<1>1. f \in [DOMAIN msgs -> Seq(OpenAIMessages)] /\ g \in [DOMAIN msgs -> Seq(U)]
  <2>1. ASSUME NEW i \in DOMAIN msgs
        PROVE  /\ f[i] \in Seq(OpenAIMessages)
               /\ g[i] \in Seq(U)
    <3>1. msgs[i] \in OpenAIMessages
      OBVIOUS
    <3>2. f[i] \in {<<>>, <<msgs[i]>>} /\ g[i] \in {<<>>, <<msgs[i]>>}
      BY Zenon
    <3>3. g[i] = <<>> \/ (msgs[i].role = "user" /\ g[i] = <<msgs[i]>>)
      BY Zenon
    <3> HIDE DEF f, g
    <3>4. msgs[i].role = "user" => msgs[i] \in U
      BY <3>1
    <3> HIDE DEF U
    <3>5. /\ <<msgs[i]>> \in Seq(OpenAIMessages) /\ <<>> \in Seq(OpenAIMessages) /\ <<>> \in Seq(U)
          /\ msgs[i] \in U => <<msgs[i]>> \in Seq(U)
      BY <3>1
    <3>6. f[i] \in Seq(OpenAIMessages)
      BY <3>2, <3>5, Zenon
    <3>7. g[i] \in Seq(U)
      BY <3>3, <3>4, <3>5, Zenon
    <3> QED
      BY <3>6, <3>7
  <2>2. f = [i \in DOMAIN msgs |-> f[i]] /\ g = [i \in DOMAIN msgs |-> g[i]]
    OBVIOUS
  <2> HIDE DEF f, g
  <2> QED
    BY <2>1, <2>2
<1>2. Filter(msgs, LAMBDA m : Joined(TextOnly(m)) # <<>>) = FlattenSeq(f)
  BY Zenon DEF Filter, Map
<1>3. Filter(msgs, LAMBDA m : m.role = "user" /\ (m.as = "list" => Of(m.parts, {"text"}) # <<>>))
         = FlattenSeq(g)
  BY Zenon DEF Filter, Map
<1> HIDE DEF f, g, U
<1>4. FlattenSeq(f) \in Seq(OpenAIMessages) /\ FlattenSeq(g) \in Seq(U)
  BY <1>1, FlattenMapped
<1> QED
  BY <1>2, <1>3, <1>4 DEF U

(* An OpenAI body for Dify.                                                *)
LEMMA ToDifyBody ==
  ASSUME NEW b \in OpenAIBodies
  PROVE  convertOpenAIToDify(b) = Refused
         \/ convertOpenAIToDify(b) \in BodiesOf("dify", MessagesFrom(OpenAIRoles))
<1> DEFINE spoken == Filter(b.msgs, LAMBDA m : Joined(TextOnly(m)) # <<>>)
           msgs == Map(spoken, LAMBDA m : <<Message(m.role, "string", TextOnly(m))>>)
<1>1. b.format = "openai" /\ b.msgs \in Seq(OpenAIMessages)
  BY BodiesAre DEF OpenAIBodies
<1>2. Messages(b) = b.msgs
  BY <1>1 DEF Messages
<1>3. convertOpenAIToDify(b) \in {Refused, Body("dify", <<>>, msgs)}
  BY <1>2, Zenon DEF convertOpenAIToDify
<1>4. spoken \in Seq(OpenAIMessages)
  BY <1>1, SpokenOnly
<1> HIDE DEF spoken
<1>5. msgs \in Seq(MessagesFrom(OpenAIRoles))
  BY <1>4, TextsOnlySaid
<1> HIDE DEF msgs
<1>6. <<>> \in Seq(Tokens("system"))
  OBVIOUS
<1>7. Body("dify", <<>>, msgs) \in BodiesOf("dify", MessagesFrom(OpenAIRoles))
  BY <1>5, <1>6 DEF Body, BodiesOf
<1> QED
  BY <1>3, <1>7

(* An OpenAI body for Coze: the user's last words.                         *)
LEMMA ToCozeBody ==
  ASSUME NEW b \in OpenAIBodies
  PROVE  convertOpenAIToCoze(b) = Refused
         \/ convertOpenAIToCoze(b) \in BodiesOf("coze", MessagesFrom(OpenAIRoles))
<1> DEFINE asking == Filter(b.msgs, LAMBDA m :
                         m.role = "user" /\ (m.as = "list" => Of(m.parts, {"text"}) # <<>>))
           p == Of(Last(asking).parts, {"text"})[1]
           U == {m \in OpenAIMessages : m.role = "user"}
<1>1. b.format = "openai" /\ b.msgs \in Seq(OpenAIMessages)
  BY BodiesAre DEF OpenAIBodies
<1>2. Messages(b) = b.msgs
  BY <1>1 DEF Messages
<1>3. convertOpenAIToCoze(b) = IF asking = <<>> \/ TextOf(Last(asking)) = <<>> THEN Refused
                               ELSE Body("coze", <<>>, <<Message("user", "string", <<p>>)>>)
  BY <1>2, Zenon DEF convertOpenAIToCoze
<1>4. asking \in Seq(U)
  BY <1>1, SpokenOnly
<1> HIDE DEF asking
<1>5. ASSUME asking # <<>>, TextOf(Last(asking)) # <<>>
      PROVE  Body("coze", <<>>, <<Message("user", "string", <<p>>)>>)
                \in BodiesOf("coze", MessagesFrom(OpenAIRoles))
  <2>1. Last(asking) \in U
    <3> HIDE DEF U
    <3> QED
      BY <1>4, <1>5, LastReplaced
  <2>2. PICK role \in OpenAIRoles : role = "user"
    BY DEF OpenAIRoles
  <2>3. Last(asking).parts \in Seq(PartsFrom(role))
    BY <2>1, <2>2, MessagesAre DEF OpenAIMessages
  <2> DEFINE texts == Of(Last(asking).parts, {"text"})
  <2>4. texts \in Seq(PartsFrom(role))
    BY <2>3, OfSaid
  <2>5. texts # <<>>
    <3>1. TextOf(Last(asking)) = Joined(texts)
      BY Zenon DEF TextOf
    <3>2. ASSUME texts = <<>> PROVE Joined(texts) = <<>>
      <4>1. [i \in DOMAIN texts |-> texts[i].v] \in [DOMAIN texts -> Seq({})]
        BY <3>2
      <4>2. FlattenSeq([i \in DOMAIN texts |-> texts[i].v]) \in Seq({})
        BY <2>4, <4>1, FlattenMapped
      <4> QED
        BY <4>2 DEF Joined
    <3> QED
      BY <1>5, <3>1, <3>2
  <2>6. p \in PartsFrom(role)
    BY <2>4, <2>5
  <2> HIDE DEF p
  <2>7. PICK shape \in Shapes : shape = "string"
    BY DEF Shapes
  <2>8. Message(role, shape, <<p>>) \in MessagesFrom(OpenAIRoles)
    <3>1. <<p>> \in Seq(PartsFrom(role))
      BY <2>6
    <3> QED
      BY <3>1, MessageSaid
  <2>9. Message("user", "string", <<p>>) \in MessagesFrom(OpenAIRoles)
    BY <2>2, <2>7, <2>8, Zenon
  <2>10. <<>> \in Seq(Tokens("system"))
    OBVIOUS
  <2> QED
    BY <2>9, <2>10 DEF Body, BodiesOf
<1> QED
  BY <1>3, <1>5

-----------------------------------------------------------------------------
(* The conversation and the clients' encodings of it *)

(* What a turn is: its parts are its speaker's.                            *)
SpokenBy(t, p) ==
    /\ p.v \in Seq(Tokens(t.who))
    /\ p.k = "result" <=> t.who = "results"
    /\ NamesItsFunction(p)
AnyTurn == [who : Speakers, as : {"string", "list"}, parts : Seq(SpokenPart)]
SaidTurns == {t \in AnyTurn : \A n \in DOMAIN t.parts : SpokenBy(t, t.parts[n])}

(* The turns of a conversation are; the system's is the first.             *)
LEMMA TurnsAreSaid ==
  ASSUME TurnsAreKnown
  PROVE  turns \in Seq(SaidTurns)
<1>1. turns \in Seq(AnyTurn)
  BY DEF TurnsAreKnown, AnyTurn
<1>2. ASSUME NEW i \in DOMAIN turns, NEW n \in DOMAIN turns[i].parts
      PROVE  SpokenBy(turns[i], turns[i].parts[n])
  <2> DEFINE p == turns[i].parts[n]
  <2>1. turns[i].parts \in Seq(SaidIn(i, turns[i].who))
    BY DEF TurnsAreKnown
  <2>2. p \in SaidIn(i, turns[i].who)
    BY <2>1
  <2> HIDE DEF p
  <2>3. p \in SpokenPart /\ \A l \in DOMAIN p.v : TurnOf(p.v[l]) = i
    BY <2>2 DEF SaidIn
  <2>4. p.v \in Seq(Nat)
    BY <2>3 DEF SpokenPart
  <2>5. \A l \in DOMAIN p.v : p.v[l] \in Tokens(turns[i].who)
    BY <2>3, <2>4 DEF Tokens
  <2>6. p.v \in Seq(Tokens(turns[i].who))
    BY <2>4, <2>5
  <2>7. (p.k = "result" <=> turns[i].who = "results") /\ NamesItsFunction(p)
    BY <2>2 DEF SaidIn, NamesItsFunction
  <2> QED
    BY <2>6, <2>7 DEF SpokenBy, p
<1>3. \A i \in DOMAIN turns : turns[i] \in SaidTurns
  BY <1>1, <1>2 DEF SaidTurns
<1> QED
  BY <1>1, <1>3

(* The system speaks in the first turn only.                               *)
LEMMA SpokenTurns ==
  ASSUME TurnsAreKnown
  PROVE  /\ Spoken(turns) \in Seq({t \in SaidTurns : t.who # "system"})
         /\ SystemOf(turns) \in Seq(Tokens("system"))
<1> DEFINE Others == {t \in SaidTurns : t.who # "system"}
<1>1. turns \in Seq(SaidTurns)
  BY TurnsAreSaid
<1>2. \A i \in DOMAIN turns : turns[i].who = "system" => i = 1
  BY DEF TurnsAreKnown
<1>3. CASE turns # <<>> /\ turns[1].who = "system"
  <2>1. Spoken(turns) = Tail(turns) /\ SystemOf(turns) = Joined(turns[1].parts)
    BY <1>3, Zenon DEF Spoken, SystemOf
  <2>2. /\ Tail(turns) \in Seq(SaidTurns) /\ Len(Tail(turns)) = Len(turns) - 1
        /\ \A i \in 1 .. Len(turns) - 1 : Tail(turns)[i] = turns[i + 1] /\ i + 1 \in DOMAIN turns /\ i + 1 # 1
    BY <1>1, <1>3
  <2>3. \A i \in DOMAIN Tail(turns) : Tail(turns)[i] \in Others
    <3> TAKE i \in DOMAIN Tail(turns)
    <3>1. i \in 1 .. Len(turns) - 1
      BY <2>2
    <3> QED
      BY <1>1, <1>2, <2>2, <3>1
  <2>4. Tail(turns) \in Seq(Others)
    <3> HIDE DEF Others
    <3>1. PICK s \in Seq(SaidTurns) : s = Tail(turns)
      BY <2>2
    <3>2. \A i \in DOMAIN s : s[i] \in Others
      BY <2>3, <3>1
    <3>3. s \in Seq(Others)
      BY <3>2
    <3> QED
      BY <3>1, <3>3
  <2>5. turns[1] \in SaidTurns
    BY <1>1, <1>3
  <2> DEFINE P == {p \in SpokenPart : p.v \in Seq(Tokens("system"))}
  <2>6. turns[1].parts \in Seq(P)
    BY <1>3, <2>5 DEF SaidTurns, AnyTurn, SpokenBy
  <2>7. \A p \in P : p.v \in Seq(Tokens("system"))
    OBVIOUS
  <2> HIDE DEF P
  <2>8. Joined(turns[1].parts) \in Seq(Tokens("system"))
    BY <2>6, <2>7, JoinedTyped
  <2> QED
    BY <2>1, <2>4, <2>8
<1>4. CASE turns = <<>> \/ turns[1].who # "system"
  <2>1. Spoken(turns) = turns /\ SystemOf(turns) = Joined(<<>>)
    BY <1>4, Zenon DEF Spoken, SystemOf
  <2>2. \A i \in DOMAIN turns : turns[i] \in Others
    BY <1>1, <1>2, <1>4
  <2>3. turns \in Seq(Others)
    <3> HIDE DEF Others
    <3> QED
      BY <1>1, <2>2
  <2>4. Joined(<<>>) \in Seq(Tokens("system"))
    <3> DEFINE P == {p \in SpokenPart : p.v \in Seq(Tokens("system"))}
    <3>1. \A p \in P : p.v \in Seq(Tokens("system"))
      OBVIOUS
    <3> HIDE DEF P
    <3>2. <<>> \in Seq(P)
      OBVIOUS
    <3>3. PICK s \in Seq(P) : s = <<>>
      BY <3>2, Zenon
    <3>4. Joined(s) \in Seq(Tokens("system"))
      BY <3>1, JoinedTyped
    <3> QED
      BY <3>3, <3>4
  <2> QED
    BY <2>1, <2>3, <2>4
<1> QED
  BY <1>3, <1>4

(* The parts of a turn, in a message of a role that stands for its speaker. *)
LEMMA TurnSaid ==
  ASSUME NEW t \in SaidTurns, NEW role,
         \A p \in AnyPart : SpokenBy(t, p) => WhoSays(role, p.k) = t.who
  PROVE  /\ t.parts \in Seq(PartsFrom(role))
         /\ \A n \in DOMAIN t.parts : SpokenBy(t, t.parts[n])
<1>1. t.parts \in Seq(SpokenPart) /\ \A n \in DOMAIN t.parts : SpokenBy(t, t.parts[n])
  BY DEF SaidTurns, AnyTurn
<1>2. \A p \in SpokenPart : p \in AnyPart
  <2> TAKE p \in SpokenPart
  <2>1. p.k \in PartKinds /\ p.v \in Seq(Nat) /\ p.id \in Nat /\ p.fn \in FunctionNames
    BY DEF SpokenPart, FunctionNames
  <2>2. p = [k |-> p.k, v |-> p.v, id |-> p.id, fn |-> p.fn]
    BY DEF SpokenPart
  <2>3. p.v \in Seq(Int) /\ p.id \in Int
    BY <2>1
  <2> QED
    BY <2>1, <2>2, <2>3 DEF AnyPart
<1>3. \A p \in SpokenPart : SpokenBy(t, p) => p \in PartsFrom(role)
  BY <1>2 DEF PartsFrom, SpokenBy
<1>4. \A n \in DOMAIN t.parts : t.parts[n] \in PartsFrom(role)
  BY <1>1, <1>3
<1> QED
  BY <1>1, <1>4

(* Roles that stand for speakers.                                          *)
LEMMA RolesSpeak ==
  /\ \A who \in {"system", "user", "assistant"} : \A k : k # "result" => WhoSays(who, k) = who
  /\ \A k : k # "result" => WhoSays("model", k) = "assistant"
  /\ \A k : k # "result" => WhoSays("function_call", k) = "assistant"
  /\ \A k : k # "result" => WhoSays("reasoning", k) = "assistant"
  /\ \A role : WhoSays(role, "result") = "results"
BY DEF WhoSays

(* A turn in OpenAI's format.                                              *)
LEMMA OpenAITurn ==
  ASSUME NEW t \in SaidTurns, t.who # "results"
  PROVE  /\ t.who \in SpeakersRoles /\ t.parts \in Seq(PartsFrom(t.who))
         /\ Message(t.who, t.as, t.parts) \in OpenAIMessages
         /\ t.who = "assistant" => Message("assistant", "null", t.parts) \in OpenAIMessages
<1>1. t.who \in Speakers /\ t.as \in {"string", "list"}
  BY DEF SaidTurns, AnyTurn
<1>2. PICK role \in SpeakersRoles : role = t.who
  BY <1>1 DEF Speakers, SpeakersRoles
<1>3. \A p \in AnyPart : SpokenBy(t, p) => WhoSays(t.who, p.k) = t.who
  <2>1. t.who \in {"system", "user", "assistant"}
    BY <1>1 DEF Speakers
  <2> QED
    BY <2>1, RolesSpeak DEF SpokenBy
<1>4. t.parts \in Seq(PartsFrom(t.who))
  BY <1>3, TurnSaid
<1>5. PICK null \in Shapes : null = "null"
  BY DEF Shapes
<1>6. PICK shape \in Shapes : shape = t.as
  BY <1>1 DEF Shapes
<1>7. Message(role, null, t.parts) \in OpenAIMessages /\ Message(role, shape, t.parts) \in OpenAIMessages
  BY <1>2, <1>4, OpenAIMessage
<1>8. t.who = "assistant" => Message("assistant", "null", t.parts) \in OpenAIMessages
  BY <1>2, <1>5, <1>7, Zenon
<1>9. Message(t.who, t.as, t.parts) \in OpenAIMessages
  BY <1>2, <1>6, <1>7, Zenon
<1> QED
  BY <1>2, <1>4, <1>8, <1>9

(* The results of a turn, each a message.                                  *)
LEMMA ResultTurn ==
  ASSUME NEW t \in SaidTurns, t.who = "results", NEW role
  PROVE  /\ t.parts \in Seq(PartsFrom(role)) /\ \A n \in DOMAIN t.parts : t.parts[n].k = "result"
         /\ Map(t.parts, LAMBDA p : <<Message("tool", "string", <<p>>)>>) \in Seq(OpenAIMessages)
<1> DEFINE f == [n \in DOMAIN t.parts |-> <<Message("tool", "string", <<t.parts[n]>>)>>]
<1>1. \A p \in AnyPart : SpokenBy(t, p) => WhoSays(role, p.k) = t.who
  BY RolesSpeak DEF SpokenBy
<1>2. t.parts \in Seq(PartsFrom(role)) /\ \A n \in DOMAIN t.parts : SpokenBy(t, t.parts[n])
  BY <1>1, TurnSaid
<1>3. \A n \in DOMAIN t.parts : t.parts[n].k = "result" /\ t.parts[n] \in PartsFrom(role)
  BY <1>2 DEF SpokenBy
<1>4. \A n \in DOMAIN t.parts : Message("tool", "string", <<t.parts[n]>>) \in OpenAIMessages
  BY <1>3, ToolMessage
<1>5. f \in [DOMAIN t.parts -> Seq(OpenAIMessages)]
  BY <1>4
<1>6. Map(t.parts, LAMBDA p : <<Message("tool", "string", <<p>>)>>) = FlattenSeq(f)
  BY Zenon DEF Map
<1> HIDE DEF f
<1>7. FlattenSeq(f) \in Seq(OpenAIMessages)
  BY <1>2, <1>5, FlattenMapped
<1> QED
  BY <1>2, <1>3, <1>6, <1>7

(* A conversation encoded by a client of OpenAI's format.                  *)
LEMMA OpenAIEncoded ==
  ASSUME TurnsAreKnown
  PROVE  EncodeOpenAI(turns) \in OpenAIBodies
<1> DEFINE f == [i \in DOMAIN turns |->
                    CASE turns[i].who = "results" ->
                            Map(turns[i].parts, LAMBDA p : <<Message("tool", "string", <<p>>)>>)
                      [] turns[i].who = "assistant" /\ Of(turns[i].parts, {"text"}) = <<>> ->
                            <<Message("assistant", "null", turns[i].parts)>>
                      [] OTHER -> <<Message(turns[i].who, turns[i].as, turns[i].parts)>>]
<1>1. turns \in Seq(SaidTurns)
  BY TurnsAreSaid
<1>2. ASSUME NEW i \in DOMAIN turns PROVE f[i] \in Seq(OpenAIMessages)
  <2> DEFINE t == turns[i]
             answers == Map(t.parts, LAMBDA p : <<Message("tool", "string", <<p>>)>>)
             silent == Message("assistant", "null", t.parts)
             said == Message(t.who, t.as, t.parts)
  <2>1. t \in SaidTurns
    BY <1>1
  <2>2. /\ t.who = "results" => f[i] = answers
        /\ t.who # "results" =>
              (t.who = "assistant" /\ f[i] = <<silent>>) \/ f[i] = <<said>>
    <3>1. f[i] = CASE t.who = "results" -> answers
                   [] t.who = "assistant" /\ Of(t.parts, {"text"}) = <<>> -> <<silent>>
                   [] OTHER -> <<said>>
      BY Zenon
    <3> HIDE DEF f, t, answers, silent, said
    <3> QED
      BY <3>1
  <2> HIDE DEF f, t
  <2>3. CASE t.who = "results"
    BY <2>1, <2>2, <2>3, ResultTurn
  <2>4. CASE t.who # "results"
    <3>1. said \in OpenAIMessages /\ (t.who = "assistant" => silent \in OpenAIMessages)
      BY <2>1, <2>4, OpenAITurn
    <3> HIDE DEF said, silent
    <3>2. \A x \in OpenAIMessages : <<x>> \in Seq(OpenAIMessages)
      OBVIOUS
    <3> QED
      BY <2>2, <2>4, <3>1, <3>2, Zenon
  <2> QED
    BY <2>3, <2>4
<1>3. f \in [DOMAIN turns -> Seq(OpenAIMessages)]
  BY <1>2
<1>4. EncodeOpenAI(turns) = Body("openai", <<>>, FlattenSeq(f))
  BY Zenon DEF EncodeOpenAI, Map
<1> HIDE DEF f
<1>5. FlattenSeq(f) \in Seq(OpenAIMessages)
  BY <1>1, <1>3, FlattenMapped
<1>6. <<>> \in Seq(Tokens("system"))
  OBVIOUS
<1> QED
  BY <1>4, <1>5, <1>6 DEF Body, OpenAIBodies, BodiesOf

(* The turns that are not the system's.                                    *)
OthersTurns == {t \in SaidTurns : t.who # "system"}

(* Each of them is on its side of a Claude conversation.                   *)
LEMMA ClaudeSide ==
  ASSUME NEW t \in OthersTurns
  PROVE  SideOf(t) \in ClaudeRoles /\ t.parts \in Seq(PartsFrom(SideOf(t)))
<1>1. t \in SaidTurns /\ t.who \in {"user", "assistant", "results"}
  BY DEF OthersTurns, SaidTurns, AnyTurn, Speakers
<1>2. SideOf(t) \in {"user", "assistant"} /\ (t.who # "results" => SideOf(t) = t.who)
  BY <1>1 DEF SideOf
<1>3. ASSUME NEW p \in AnyPart, SpokenBy(t, p)
      PROVE  WhoSays(SideOf(t), p.k) = t.who
  <2>1. p.k = "result" <=> t.who = "results"
    BY <1>3 DEF SpokenBy
  <2>2. CASE t.who = "results"
    BY <2>1, <2>2, RolesSpeak
  <2>3. CASE t.who # "results"
    <3>1. t.who \in {"system", "user", "assistant"}
      BY <1>1, <2>3
    <3> QED
      BY <1>2, <2>1, <2>3, <3>1, RolesSpeak
  <2> QED
    BY <2>2, <2>3
<1> QED
  BY <1>1, <1>2, <1>3, TurnSaid DEF ClaudeRoles

(* A turn more, or more in the last message.                               *)
LEMMA ClaudeTurnTyped ==
  ASSUME NEW msgs \in Seq(ClaudeMessages), NEW t \in OthersTurns
  PROVE  ClaudeTurn(msgs, t) \in Seq(ClaudeMessages)
<1> DEFINE side == SideOf(t)
           l == Message(side, Last(msgs).as, Last(msgs).parts \o t.parts)
           shape == IF t.who = "results" THEN t.as ELSE "string"
           x == Message(side, shape, t.parts)
<1>1. side \in ClaudeRoles /\ t.parts \in Seq(PartsFrom(side))
  BY ClaudeSide
<1>2. shape \in Shapes
  BY DEF OthersTurns, SaidTurns, AnyTurn, Shapes
<1>3. ClaudeTurn(msgs, t) = IF msgs # <<>> /\ Last(msgs).role = side
                            THEN Append(Front(msgs), l) ELSE Append(msgs, x)
  BY Zenon DEF ClaudeTurn
<1> HIDE DEF side, shape
<1>4. x \in ClaudeMessages
  BY <1>1, <1>2, MessageSaid DEF ClaudeMessages
<1>5. ASSUME msgs # <<>>, Last(msgs).role = side
      PROVE  Append(Front(msgs), l) \in Seq(ClaudeMessages)
  <2> DEFINE y == Last(msgs)
  <2>1. y \in ClaudeMessages
    <3> HIDE DEF l
    <3> QED
      BY <1>5, LastReplaced
  <2>2. y.as \in Shapes /\ y.parts \in Seq(PartsFrom(side))
    BY <1>5, <2>1, MessagesAre DEF ClaudeMessages
  <2> HIDE DEF y
  <2>3. y.parts \o t.parts \in Seq(PartsFrom(side))
    BY <1>1, <2>2
  <2>4. Message(side, y.as, y.parts \o t.parts) \in ClaudeMessages
    BY <1>1, <2>2, <2>3, MessageSaid DEF ClaudeMessages
  <2>5. l \in ClaudeMessages
    BY <2>4 DEF y
  <2> HIDE DEF l
  <2> QED
    BY <1>5, <2>5, LastReplaced
<1> HIDE DEF x, l
<1>6. Append(msgs, x) \in Seq(ClaudeMessages)
  BY <1>4
<1> QED
  BY <1>3, <1>5, <1>6

(* A conversation encoded by a Claude client.                              *)
LEMMA ClaudeEncoded ==
  ASSUME TurnsAreKnown
  PROVE  EncodeClaude(turns) \in ClaudeBodies
<1>1. Spoken(turns) \in Seq(OthersTurns) /\ SystemOf(turns) \in Seq(Tokens("system"))
  BY SpokenTurns DEF OthersTurns
<1> DEFINE msgs == TurnsMerged(<<>>, Spoken(turns))
<1>2. EncodeClaude(turns) = Body("claude", SystemOf(turns), msgs)
  BY Zenon DEF EncodeClaude, TurnsMerged
<1>3. msgs \in Seq(ClaudeMessages)
  <2> DEFINE V == Seq(ClaudeMessages)
  <2>1. TurnsStay(OthersTurns, V)
    BY ClaudeTurnTyped DEF TurnsStay
  <2>2. <<>> \in V
    OBVIOUS
  <2> HIDE DEF V
  <2>3. PICK base \in V : base = <<>>
    BY <2>2, Zenon
  <2>4. PICK s \in Seq(OthersTurns) : s = Spoken(turns)
    BY <1>1
  <2>5. PICK t \in [0 .. Len(s) -> V] : t[Len(s)] = TurnsMerged(base, s)
    BY <2>1, ClaudeTurnsFold
  <2>6. Len(s) \in 0 .. Len(s)
    OBVIOUS
  <2>7. TurnsMerged(base, s) \in V
    BY <2>5, <2>6
  <2> QED
    BY <2>3, <2>4, <2>7 DEF V
<1> HIDE DEF msgs
<1> QED
  BY <1>1, <1>2, <1>3 DEF Body, ClaudeBodies, BodiesOf

(* A turn on its side of a Gemini conversation, without its calls' ids.    *)
LEMMA GeminiTurn ==
  ASSUME NEW t \in OthersTurns
  PROVE  Message(IF t.who = "assistant" THEN "model" ELSE "user", "list",
                 [i \in DOMAIN t.parts |-> [t.parts[i] EXCEPT !.id = 0]]) \in GeminiMessages
<1> DEFINE parts == [i \in DOMAIN t.parts |-> [t.parts[i] EXCEPT !.id = 0]]
<1>1. PICK side \in ClaudeRoles : side = SideOf(t) /\ t.parts \in Seq(PartsFrom(side))
  BY ClaudeSide
<1>2. PICK role \in GeminiRoles : role = IF t.who = "assistant" THEN "model" ELSE "user"
  BY DEF GeminiRoles
<1>3. PICK shape \in Shapes : shape = "list"
  BY DEF Shapes
<1>4. PartsFrom(role) = PartsFrom(side)
  BY <1>1, <1>2, ModelSpeaks DEF SideOf
<1>5. \A n \in DOMAIN t.parts : SpokenBy(t, t.parts[n])
  BY DEF OthersTurns, SaidTurns
<1>6. ASSUME NEW i \in DOMAIN t.parts
      PROVE  parts[i] \in PartsFrom(role) /\ NamesItsFunction(parts[i])
  <2> DEFINE p == t.parts[i]
             q == [p EXCEPT !.id = 0]
  <2>1. p \in PartsFrom(role) /\ NamesItsFunction(p)
    BY <1>1, <1>4, <1>5 DEF SpokenBy
  <2>2. parts[i] = q
    OBVIOUS
  <2> HIDE DEF p, parts
  <2>3. q \in PartsFrom(role)
    BY <2>1, NumberGiven
  <2>4. p \in AnyPart
    BY <2>1, PartsAre
  <2>5. q.k = p.k /\ q.fn = p.fn
    BY <2>4 DEF AnyPart
  <2> HIDE DEF q
  <2> QED
    BY <2>1, <2>2, <2>3, <2>5 DEF NamesItsFunction
<1>7. parts \in Seq(PartsFrom(role)) /\ DOMAIN parts = DOMAIN t.parts
  <2>1. DOMAIN t.parts = 1 .. Len(t.parts) /\ Len(t.parts) \in Nat
    BY <1>1
  <2>2. parts = [i \in DOMAIN t.parts |-> parts[i]]
    OBVIOUS
  <2> HIDE DEF parts
  <2>3. parts \in [1 .. Len(t.parts) -> PartsFrom(role)]
    BY <1>6, <2>1, <2>2
  <2> QED
    BY <2>1, <2>2, <2>3
<1> HIDE DEF parts
<1>8. Message(role, shape, parts) \in MessagesFrom(GeminiRoles)
  BY <1>7, MessageSaid
<1>9. Message(role, shape, parts).parts = parts
  BY DEF Message
<1>10. Message(role, shape, parts) \in GeminiMessages
  BY <1>6, <1>7, <1>8, <1>9 DEF GeminiMessages
<1> QED
  BY <1>2, <1>3, <1>10, Zenon DEF parts

(* A conversation encoded by a Gemini client.                              *)
LEMMA GeminiEncoded ==
  ASSUME TurnsAreKnown
  PROVE  EncodeGemini(turns) \in GeminiBodies
<1>1. PICK ts \in Seq(OthersTurns) : ts = Spoken(turns)
  BY SpokenTurns DEF OthersTurns
<1> DEFINE m(t) == Message(IF t.who = "assistant" THEN "model" ELSE "user", "list",
                           [i \in DOMAIN t.parts |-> [t.parts[i] EXCEPT !.id = 0]])
           f == [i \in DOMAIN ts |-> <<m(ts[i])>>]
<1>2. EncodeGemini(turns) = Body("gemini", SystemOf(turns), FlattenSeq(f))
  BY <1>1, Zenon DEF EncodeGemini, Map
<1>3. \A t \in OthersTurns : m(t) \in GeminiMessages
  BY GeminiTurn
<1> HIDE DEF m
<1>4. f \in [DOMAIN ts -> Seq(GeminiMessages)]
  BY <1>3
<1> HIDE DEF f
<1>5. FlattenSeq(f) \in Seq(GeminiMessages)
  BY <1>4, FlattenMapped
<1>6. SystemOf(turns) \in Seq(Tokens("system"))
  BY SpokenTurns
<1> QED
  BY <1>2, <1>5, <1>6 DEF Body, GeminiBodies, BodiesOf

(* An item of a Responses conversation.                                    *)
LEMMA ItemTyped ==
  ASSUME NEW t \in OthersTurns, t.who # "user", NEW n \in DOMAIN t.parts
  PROVE  AsItem(t, t.parts[n]) \in Seq(ResponsesMessages)
<1> DEFINE p == t.parts[n]
<1>1. SpokenBy(t, p) /\ p \in SpokenPart /\ t.who \in {"assistant", "results"}
  BY DEF OthersTurns, SaidTurns, AnyTurn, Speakers
<1>2. p \in AnyPart /\ p.v \in Seq(Tokens(t.who)) /\ (p.k = "result" <=> t.who = "results")
  <2>1. p.k \in PartKinds /\ p.v \in Seq(Nat) /\ p.id \in Nat /\ p.fn \in FunctionNames
        /\ p = [k |-> p.k, v |-> p.v, id |-> p.id, fn |-> p.fn]
    BY <1>1 DEF SpokenPart, FunctionNames
  <2> HIDE DEF p
  <2>2. p.v \in Seq(Int) /\ p.id \in Int
    BY <2>1
  <2> QED
    BY <1>1, <2>1, <2>2 DEF AnyPart, SpokenBy
<1> HIDE DEF p
<1>3. p.k \in PartKinds
  BY <1>2 DEF AnyPart
<1>4. PICK string \in Shapes : string = "string"
  BY DEF Shapes
<1>5. PICK list \in Shapes : list = "list"
  BY DEF Shapes
<1>6. ASSUME NEW role \in ResponsesRoles, NEW shape \in Shapes, WhoSays(role, p.k) = t.who,
             role = "function_call_output" => p.k = "result"
      PROVE  <<Message(role, shape, <<p>>)>> \in Seq(ResponsesMessages)
  <2> DEFINE m == Message(role, shape, <<p>>)
  <2>1. p \in PartsFrom(role)
    BY <1>2, <1>6 DEF PartsFrom
  <2>2. <<p>> \in Seq(PartsFrom(role))
    BY <2>1
  <2>3. m \in MessagesFrom(ResponsesRoles)
    BY <2>2, MessageSaid
  <2>4. m.role = role /\ m.parts = <<p>>
    BY DEF Message
  <2>5. Len(<<p>>) = 1 /\ <<p>>[1] = p
    OBVIOUS
  <2>6. m.role = "function_call_output" => OneResult(m)
    <3> HIDE DEF m
    <3> QED
      BY <1>6, <2>4, <2>5, Zenon DEF OneResult
  <2> HIDE DEF m
  <2>7. m \in ResponsesMessages
    BY <2>3, <2>6 DEF ResponsesMessages
  <2>8. <<m>> \in Seq(ResponsesMessages)
    BY <2>7
  <2> QED
    BY <2>8 DEF m
<1>7. CASE p.k = "call"
  <2>1. PICK role \in ResponsesRoles : role = "function_call"
    BY DEF ResponsesRoles
  <2>2. WhoSays(role, p.k) = t.who /\ role # "function_call_output"
    BY <1>1, <1>2, <1>7, <2>1, RolesSpeak
  <2>3. <<Message(role, string, <<p>>)>> \in Seq(ResponsesMessages)
    BY <1>6, <2>2
  <2>4. AsItem(t, p) = <<Message("function_call", "string", <<p>>)>>
    BY <1>7 DEF AsItem
  <2> QED
    BY <1>4, <2>1, <2>3, <2>4, Zenon DEF p
<1>8. CASE p.k = "result"
  <2>1. PICK role \in ResponsesRoles : role = "function_call_output"
    BY DEF ResponsesRoles
  <2>2. WhoSays(role, p.k) = t.who
    BY <1>1, <1>2, <1>8, <2>1, RolesSpeak
  <2>3. <<Message(role, string, <<p>>)>> \in Seq(ResponsesMessages)
    BY <1>6, <1>8, <2>2
  <2>4. AsItem(t, p) = <<Message("function_call_output", "string", <<p>>)>>
    BY <1>8 DEF AsItem
  <2> QED
    BY <1>4, <2>1, <2>3, <2>4, Zenon DEF p
<1>9. CASE p.k = "think"
  <2>1. PICK role \in ResponsesRoles : role = "reasoning"
    BY DEF ResponsesRoles
  <2>2. WhoSays(role, p.k) = t.who /\ role # "function_call_output"
    BY <1>1, <1>2, <1>9, <2>1, RolesSpeak
  <2>3. <<Message(role, string, <<p>>)>> \in Seq(ResponsesMessages)
    BY <1>6, <2>2
  <2>4. AsItem(t, p) = <<Message("reasoning", "string", <<p>>)>>
    BY <1>9 DEF AsItem
  <2> QED
    BY <1>4, <2>1, <2>3, <2>4, Zenon DEF p
<1>10. CASE p.k \notin {"call", "result", "think"}
  <2>1. t.who = "assistant"
    BY <1>1, <1>2, <1>10
  <2>2. PICK role \in ResponsesRoles : role = t.who
    BY <2>1 DEF ResponsesRoles
  <2>3. WhoSays(role, p.k) = t.who /\ role # "function_call_output"
    <3>1. t.who \in {"system", "user", "assistant"}
      BY <2>1
    <3> QED
      BY <1>10, <2>1, <2>2, <3>1, RolesSpeak
  <2>4. <<Message(role, list, <<p>>)>> \in Seq(ResponsesMessages)
    BY <1>6, <2>3
  <2>5. AsItem(t, p) = <<Message(t.who, "list", <<p>>)>>
    BY <1>10 DEF AsItem
  <2> QED
    BY <1>5, <2>2, <2>4, <2>5, Zenon DEF p
<1> QED
  BY <1>7, <1>8, <1>9, <1>10

(* The items of a turn.                                                    *)
LEMMA ItemsTyped ==
  ASSUME NEW t \in OthersTurns
  PROVE  AsItems(t) \in Seq(ResponsesMessages)
<1>1. t.parts \in Seq(SpokenPart) /\ t.as \in {"string", "list"} /\ t \in SaidTurns
  BY DEF OthersTurns, SaidTurns, AnyTurn
<1>2. CASE t.who = "user"
  <2>1. PICK role \in ResponsesRoles : role = "user"
    BY DEF ResponsesRoles
  <2>2. PICK shape \in Shapes : shape = t.as
    BY <1>1 DEF Shapes
  <2>3. t.parts \in Seq(PartsFrom(role))
    BY <1>1, <1>2, <2>1, OpenAITurn
  <2> DEFINE m == Message(role, shape, t.parts)
  <2>4. m \in MessagesFrom(ResponsesRoles)
    BY <2>3, MessageSaid
  <2>5. m.role = "user"
    BY <2>1 DEF Message
  <2>6. AsItems(t) = <<m>>
    BY <1>2, <2>1, <2>2, Zenon DEF AsItems
  <2> HIDE DEF m
  <2>7. m \in ResponsesMessages
    BY <2>4, <2>5 DEF ResponsesMessages
  <2>8. <<m>> \in Seq(ResponsesMessages)
    BY <2>7
  <2> QED
    BY <2>6, <2>8
<1>3. CASE t.who # "user"
  <2> DEFINE f == [n \in DOMAIN t.parts |-> AsItem(t, t.parts[n])]
  <2>1. f \in [DOMAIN t.parts -> Seq(ResponsesMessages)]
    BY <1>3, ItemTyped
  <2>2. AsItems(t) = FlattenSeq(f)
    BY <1>3, Zenon DEF AsItems, Map
  <2> HIDE DEF f
  <2> QED
    BY <1>1, <2>1, <2>2, FlattenMapped
<1> QED
  BY <1>2, <1>3

(* A conversation encoded by a Responses client.                           *)
LEMMA ResponsesEncoded ==
  ASSUME TurnsAreKnown
  PROVE  EncodeResponses(turns) \in ResponsesBodies
<1>1. PICK ts \in Seq(OthersTurns) : ts = Spoken(turns)
  BY SpokenTurns DEF OthersTurns
<1> DEFINE f == [i \in DOMAIN ts |-> AsItems(ts[i])]
<1>2. EncodeResponses(turns) = Body("responses", SystemOf(turns), FlattenSeq(f))
  BY <1>1, Zenon DEF EncodeResponses, Map
<1>3. f \in [DOMAIN ts -> Seq(ResponsesMessages)]
  BY ItemsTyped
<1> HIDE DEF f
<1>4. FlattenSeq(f) \in Seq(ResponsesMessages)
  BY <1>3, FlattenMapped
<1>5. SystemOf(turns) \in Seq(Tokens("system"))
  BY SpokenTurns
<1> QED
  BY <1>2, <1>4, <1>5 DEF Body, ResponsesBodies, BodiesOf

(* Whatever the client's format.                                           *)
LEMMA EncodedTyped ==
  ASSUME TurnsAreKnown, NEW f \in Formats
  PROVE  Encoded(f, turns) \in ClientBodies
<1>1. Encoded(f, turns) \in {EncodeOpenAI(turns), EncodeClaude(turns), EncodeGemini(turns),
                             EncodeResponses(turns)}
  BY DEF Encoded
<1> QED
  BY <1>1, OpenAIEncoded, ClaudeEncoded, GeminiEncoded, ResponsesEncoded DEF ClientBodies

-----------------------------------------------------------------------------
(* What the model is told *)

(* What may be sent: words of the system, and messages of any format.      *)
AllRoles == OpenAIRoles \cup GeminiRoles \cup ResponsesRoles
Faithful(b) == b.system \in Seq(Tokens("system")) /\ b.msgs \in Seq(MessagesFrom(AllRoles))

(* Messages of fewer roles.                                                *)
LEMMA RolesWider ==
  ASSUME NEW roles, roles \subseteq AllRoles
  PROVE  MessagesFrom(roles) \subseteq MessagesFrom(AllRoles)
BY DEF MessagesFrom

(* Bodies of fewer messages.                                               *)
LEMMA BodiesAreFaithful ==
  ASSUME NEW f, NEW messages, messages \subseteq MessagesFrom(AllRoles), NEW b \in BodiesOf(f, messages)
  PROVE  Faithful(b) /\ b.format = f
<1>1. b.format = f /\ b.system \in Seq(Tokens("system")) /\ b.msgs \in Seq(messages)
  BY BodiesAre
<1>2. b.msgs \in Seq(MessagesFrom(AllRoles))
  BY <1>1, SeqWider
<1> QED
  BY <1>1, <1>2 DEF Faithful

(* The bodies of each format.                                              *)
LEMMA FormatsAreFaithful ==
  /\ \A b \in OpenAIBodies : Faithful(b) /\ b.format = "openai"
  /\ \A b \in ClaudeBodies : Faithful(b) /\ b.format = "claude"
  /\ \A b \in GeminiBodies : Faithful(b) /\ b.format = "gemini"
  /\ \A b \in BodiesOf("gemini", GeminiSaid) : Faithful(b) /\ b.format = "gemini"
  /\ \A b \in ResponsesBodies : Faithful(b) /\ b.format = "responses"
  /\ \A f : \A b \in BodiesOf(f, MessagesFrom(OpenAIRoles)) : Faithful(b) /\ b.format = f
<1>1. OpenAIRoles \subseteq AllRoles /\ ClaudeRoles \subseteq AllRoles
      /\ GeminiRoles \subseteq AllRoles /\ ResponsesRoles \subseteq AllRoles
  BY DEF AllRoles, OpenAIRoles, ClaudeRoles
<1>2. /\ MessagesFrom(OpenAIRoles) \subseteq MessagesFrom(AllRoles)
      /\ MessagesFrom(ClaudeRoles) \subseteq MessagesFrom(AllRoles)
      /\ MessagesFrom(GeminiRoles) \subseteq MessagesFrom(AllRoles)
      /\ MessagesFrom(ResponsesRoles) \subseteq MessagesFrom(AllRoles)
  BY <1>1, RolesWider
<1>3. /\ OpenAIMessages \subseteq MessagesFrom(AllRoles)
      /\ ClaudeMessages \subseteq MessagesFrom(AllRoles)
      /\ GeminiMessages \subseteq MessagesFrom(AllRoles)
      /\ GeminiSaid \subseteq MessagesFrom(AllRoles)
      /\ ResponsesMessages \subseteq MessagesFrom(AllRoles)
  BY <1>2 DEF OpenAIMessages, ClaudeMessages, GeminiMessages, GeminiSaid, ResponsesMessages
<1>4. \A b \in OpenAIBodies : Faithful(b) /\ b.format = "openai"
  BY <1>3, BodiesAreFaithful DEF OpenAIBodies
<1>5. \A b \in ClaudeBodies : Faithful(b) /\ b.format = "claude"
  BY <1>3, BodiesAreFaithful DEF ClaudeBodies
<1>6. \A b \in GeminiBodies : Faithful(b) /\ b.format = "gemini"
  BY <1>3, BodiesAreFaithful DEF GeminiBodies
<1>7. \A b \in BodiesOf("gemini", GeminiSaid) : Faithful(b) /\ b.format = "gemini"
  BY <1>3, BodiesAreFaithful
<1>8. \A b \in ResponsesBodies : Faithful(b) /\ b.format = "responses"
  BY <1>3, BodiesAreFaithful DEF ResponsesBodies
<1>9. \A f : \A b \in BodiesOf(f, MessagesFrom(OpenAIRoles)) : Faithful(b) /\ b.format = f
  BY <1>2, BodiesAreFaithful
<1> QED
  BY <1>4, <1>5, <1>6, <1>7, <1>8, <1>9

(* Whatever an adaptor makes of a client's body, if it makes one; and if   *)
(* it makes it Claude's, the turns alternate.                              *)
LEMMA ConvertedTyped ==
  ASSUME NEW a, NEW b \in ClientBodies
  PROVE  LET c == ConvertRequest(a, b, Functions)
         IN  /\ c = Refused \/ Faithful(c)
             /\ b.format \notin a.passes /\ c # Refused /\ c.format = "claude" =>
                   \A i \in DOMAIN c.msgs : c.msgs[i].role = IF i % 2 = 1 THEN "user" ELSE "assistant"
<1> DEFINE c == ConvertRequest(a, b, Functions)
           o == ConvertToOpenAI(b, Functions)
<1>1. o \in OpenAIBodies
  BY ToOpenAITyped
<1>2. CASE b.format \in a.passes
  <2>1. c = b
    BY <1>2, Zenon DEF ConvertRequest
  <2>2. Faithful(b)
    BY FormatsAreFaithful DEF ClientBodies
  <2> QED
    BY <1>2, <2>1, <2>2
<1>3. CASE b.format \notin a.passes
  <2>1. c = CASE a.wire = "openai" -> o
              [] a.wire = "claude" -> ConvertOpenAIToClaude(o)
              [] a.wire = "gemini" -> ConvertOpenAIToGemini(o)
              [] a.wire = "ollama" -> convertChatRequest(o)
              [] a.wire = "coze" -> convertOpenAIToCoze(o)
              [] a.wire = "dify" -> convertOpenAIToDify(o)
              [] OTHER -> Refused
    BY <1>3, Zenon DEF ConvertRequest, ConvertToClaude, ConvertToGemini
  <2> DEFINE claude == ConvertOpenAIToClaude(o)
  <2>2. c \in {o, claude, ConvertOpenAIToGemini(o), convertChatRequest(o),
               convertOpenAIToCoze(o), convertOpenAIToDify(o), Refused}
    <3> HIDE DEF c, o, claude
    <3> QED
      BY <2>1 DEF claude
  <2>3. Faithful(o) /\ o.format = "openai"
    BY <1>1, FormatsAreFaithful
  <2>4. /\ Faithful(claude)
        /\ \A i \in DOMAIN claude.msgs : claude.msgs[i].role = IF i % 2 = 1 THEN "user" ELSE "assistant"
    <3>1. claude \in ClaudeBodies
      BY <1>1, ToClaudeBody
    <3>2. Faithful(claude)
      BY <3>1, FormatsAreFaithful
    <3> QED
      BY <1>1, <3>2, ToClaudeBody
  <2>5. Faithful(ConvertOpenAIToGemini(o)) /\ ConvertOpenAIToGemini(o).format = "gemini"
    BY <1>1, ToGeminiBody, FormatsAreFaithful
  <2>6. Faithful(convertChatRequest(o)) /\ convertChatRequest(o).format = "ollama"
    BY <1>1, ToOllamaBody, FormatsAreFaithful
  <2>7. convertOpenAIToCoze(o) # Refused =>
           Faithful(convertOpenAIToCoze(o)) /\ convertOpenAIToCoze(o).format = "coze"
    BY <1>1, ToCozeBody, FormatsAreFaithful
  <2>8. convertOpenAIToDify(o) # Refused =>
           Faithful(convertOpenAIToDify(o)) /\ convertOpenAIToDify(o).format = "dify"
    BY <1>1, ToDifyBody, FormatsAreFaithful
  <2> HIDE DEF c, o, claude
  <2>9. c = Refused \/ Faithful(c)
    BY <2>2, <2>3, <2>4, <2>5, <2>6, <2>7, <2>8
  <2>10. c # Refused /\ c.format = "claude" => c = claude
    <3>1. "openai" # "claude" /\ "gemini" # "claude" /\ "ollama" # "claude" /\ "coze" # "claude"
          /\ "dify" # "claude"
      OBVIOUS
    <3> QED
      BY <2>2, <2>3, <2>5, <2>6, <2>7, <2>8, <3>1, Zenon
  <2> QED
    BY <2>4, <2>9, <2>10 DEF c
<1> QED
  BY <1>2, <1>3

(* A word told to the model is its speaker's.                              *)
Tellers == {"results"} \cup AllRoles
Words ==
    {w \in Tellers \X Int \X PartKinds :
        w[2] > 0 => TurnOf(w[2]) \in DOMAIN turns /\ w[1] = turns[TurnOf(w[2])].who}

(* A token of a speaker's is told as the speaker's.                        *)
LEMMA WordTold ==
  ASSUME NEW who \in Tellers, NEW v \in Tokens(who), NEW k \in PartKinds
  PROVE  <<who, v, k>> \in Words
<1> DEFINE w == <<who, v, k>>
<1>1. w[1] = who /\ w[2] = v /\ w \in Tellers \X Int \X PartKinds
  BY DEF Tokens
<1>2. v > 0 => TurnOf(v) \in DOMAIN turns /\ turns[TurnOf(v)].who = who
  BY DEF Tokens
<1> HIDE DEF w
<1> QED
  BY <1>1, <1>2 DEF Words, w

(* So are the parts of a message.                                          *)
LEMMA MessageTold ==
  ASSUME NEW m \in MessagesFrom(AllRoles)
  PROVE  ToldIn(m) \in Seq(Words)
<1> DEFINE line(p) == [i \in DOMAIN p.v |-> <<WhoSays(m.role, p.k), p.v[i], p.k>>]
           f == [n \in DOMAIN m.parts |-> line(m.parts[n])]
<1>1. m.role \in AllRoles /\ m.parts \in Seq(PartsFrom(m.role))
  BY MessagesAre
<1>2. ASSUME NEW p \in PartsFrom(m.role) PROVE line(p) \in Seq(Words)
  <2> DEFINE who == WhoSays(m.role, p.k)
             l == [i \in DOMAIN p.v |-> <<who, p.v[i], p.k>>]
  <2>1. p.k \in PartKinds /\ p.v \in Seq(Tokens(who))
    BY PartsAre DEF AnyPart
  <2>2. who \in Tellers
    BY <1>1 DEF WhoSays, Tellers, AllRoles, OpenAIRoles
  <2> HIDE DEF who
  <2>3. \A i \in DOMAIN p.v : <<who, p.v[i], p.k>> \in Words
    BY <2>1, <2>2, WordTold
  <2>4. l \in Seq(Words)
    <3>1. DOMAIN p.v = 1 .. Len(p.v) /\ Len(p.v) \in Nat
      BY <2>1
    <3>2. l \in [1 .. Len(p.v) -> Words]
      BY <2>3, <3>1
    <3> HIDE DEF l
    <3> QED
      BY <3>1, <3>2
  <2> QED
    BY <2>4 DEF who
<1> HIDE DEF line
<1>3. f \in [DOMAIN m.parts -> Seq(Words)]
  BY <1>1, <1>2
<1>4. ToldIn(m) = FlattenSeq(f)
  BY Zenon DEF ToldIn, Map, f, line
<1> HIDE DEF f
<1> QED
  BY <1>1, <1>3, <1>4, FlattenMapped

(* And a whole body.                                                       *)
LEMMA BodyTold ==
  ASSUME NEW b, Faithful(b)
  PROVE  Told(b) \in Seq(Words)
<1> DEFINE f == [n \in DOMAIN b.msgs |-> ToldIn(b.msgs[n])]
           s == [i \in DOMAIN b.system |-> <<"system", b.system[i], "text">>]
<1>1. b.system \in Seq(Tokens("system")) /\ b.msgs \in Seq(MessagesFrom(AllRoles))
  BY DEF Faithful
<1>2. PICK who \in Tellers : who = "system"
  BY DEF Tellers, AllRoles, OpenAIRoles
<1>3. PICK k \in PartKinds : k = "text"
  BY DEF PartKinds
<1>4. \A i \in DOMAIN b.system : <<who, b.system[i], k>> \in Words
  <2> TAKE i \in DOMAIN b.system
  <2>1. b.system[i] \in Tokens("system")
    BY <1>1
  <2>2. b.system[i] \in Tokens(who)
    BY <1>2, <2>1, Zenon
  <2> QED
    BY <2>2, WordTold
<1>5. s \in Seq(Words)
  <2> DEFINE l == [i \in DOMAIN b.system |-> <<who, b.system[i], k>>]
  <2>1. l \in Seq(Words)
    <3>1. DOMAIN b.system = 1 .. Len(b.system) /\ Len(b.system) \in Nat
      BY <1>1
    <3>2. l \in [1 .. Len(b.system) -> Words]
      BY <1>4, <3>1
    <3> HIDE DEF l
    <3> QED
      BY <3>1, <3>2
  <2>2. l = s
    BY <1>2, <1>3, Zenon
  <2> QED
    BY <2>1, <2>2
<1>6. f \in [DOMAIN b.msgs -> Seq(Words)]
  BY <1>1, MessageTold
<1>7. Told(b) = s \o FlattenSeq(f)
  BY Zenon DEF Told, Map
<1> HIDE DEF f, s
<1>8. FlattenSeq(f) \in Seq(Words)
  BY <1>1, <1>6, FlattenMapped
<1> QED
  BY <1>5, <1>7, <1>8

(* The formats a conversation is encoded in.                               *)
LEMMA EncodedFormat ==
  ASSUME TurnsAreKnown, NEW f \in Formats
  PROVE  Encoded(f, turns).format = f
<1>1. /\ EncodeOpenAI(turns).format = "openai" /\ EncodeClaude(turns).format = "claude"
      /\ EncodeGemini(turns).format = "gemini" /\ EncodeResponses(turns).format = "responses"
  BY OpenAIEncoded, ClaudeEncoded, GeminiEncoded, ResponsesEncoded, FormatsAreFaithful
<1> QED
  BY <1>1 DEF Encoded, Formats

(* What is sent is faithful, and its turns alternate where they have to.   *)
LEMMA SentIsFaithful ==
  ASSUME SentIsConverted, TurnsAreKnown
  PROVE  /\ IsSent => Faithful(sent)
         /\ TurnsAlternate
<1>1. SUFFICES ASSUME IsSent
               PROVE  Faithful(sent) /\ TurnsAlternate
  BY DEF TurnsAlternate
<1> DEFINE b == Encoded(client, turns)
<1>2. client \in Formats
  BY ClientsAssumption DEF SentIsConverted
<1>3. b \in ClientBodies /\ b.format = client
  BY <1>2, EncodedTyped, EncodedFormat
<1>4. sent = ConvertRequest(Via, b, Functions) /\ sent # Refused
  BY <1>1 DEF SentIsConverted
<1> HIDE DEF b
<1>5. /\ sent = Refused \/ Faithful(sent)
      /\ b.format \notin Via.passes /\ sent # Refused /\ sent.format = "claude" =>
            \A i \in DOMAIN sent.msgs : sent.msgs[i].role = IF i % 2 = 1 THEN "user" ELSE "assistant"
  BY <1>3, <1>4, ConvertedTyped
<1> QED
  BY <1>3, <1>4, <1>5 DEF TurnsAlternate, Passed

(* Nobody's words are put in another's mouth.                              *)
LEMMA FaithfulKeepsSpeakers ==
  ASSUME SentIsConverted, TurnsAreKnown
  PROVE  SpeakersAreKept
<1>1. SUFFICES ASSUME IsSent, NEW w \in Range(Told(sent)), w[2] > 0
               PROVE  w[1] = turns[TurnOf(w[2])].who
  BY DEF SpeakersAreKept
<1>2. Told(sent) \in Seq(Words)
  BY <1>1, SentIsFaithful, BodyTold
<1>3. w \in Words
  BY <1>1, <1>2 DEF Range
<1> QED
  BY <1>1, <1>3 DEF Words

-----------------------------------------------------------------------------
(* What may be said next *)

(* A turn that may come next.                                              *)
MayBeSaid(i, t) ==
    /\ t \in AnyTurn
    /\ t.who = "system" => i = 1
    /\ t.parts \in Seq(SaidIn(i, t.who)) /\ Len(t.parts) <= 2

(* Tokens of a turn name it.                                               *)
LEMMA TokensOfTurn ==
  ASSUME NEW i \in Nat
  PROVE  \A d \in 0 .. 9 : 10 * i + d \in Nat /\ TurnOf(10 * i + d) = i
BY DEF TurnOf

(* What is said in a turn, the answers of tools aside.                     *)
LEMMA SpokeSaid ==
  ASSUME NEW i \in Nat, NEW d \in 0 .. 9, NEW k \in PartKinds \ {"result"}, NEW fn \in FunctionNames,
         k = "call" => fn \in Functions, NEW who, who # "results"
  PROVE  Spoke(k, 10 * i + d, fn) \in SaidIn(i, who)
<1> DEFINE n == 10 * i + d
           id == IF k = "call" THEN n ELSE 0
           p == Part(k, <<n>>, id, fn)
<1>1. n \in Nat /\ TurnOf(n) = i
  BY TokensOfTurn
<1>2. Spoke(k, n, fn) = p
  BY Zenon DEF Spoke
<1> HIDE DEF n
<1>3. p \in SpokenPart /\ p.k = k /\ p.v = <<n>> /\ p.fn = fn
  <2>1. id \in Nat /\ <<n>> \in Seq(Nat)
    BY <1>1
  <2> DEFINE v == <<n>>
  <2> HIDE DEF id, v
  <2>2. Part(k, v, id, fn) \in SpokenPart
    BY <2>1 DEF Part, SpokenPart, FunctionNames, v
  <2> QED
    BY <2>2 DEF Part, v
<1> HIDE DEF p
<1>4. \A l \in DOMAIN p.v : TurnOf(p.v[l]) = i
  BY <1>1, <1>3
<1>5. p \in SaidIn(i, who)
  BY <1>3, <1>4 DEF SaidIn
<1> QED
  BY <1>2, <1>5 DEF n

(* A turn of one part or two.                                              *)
LEMMA ShortTurn ==
  ASSUME NEW i \in Nat, NEW who \in Speakers, NEW shape \in {"string", "list"}, who = "system" => i = 1,
         NEW p \in SaidIn(i, who), NEW q \in SaidIn(i, who)
  PROVE  MayBeSaid(i, Turn(who, shape, <<p>>)) /\ MayBeSaid(i, Turn(who, shape, <<p, q>>))
<1>1. SaidIn(i, who) \subseteq SpokenPart
  BY DEF SaidIn
<1>2. <<p>> \in Seq(SpokenPart) /\ <<p, q>> \in Seq(SpokenPart)
      /\ <<p>> \in Seq(SaidIn(i, who)) /\ <<p, q>> \in Seq(SaidIn(i, who))
  BY <1>1
<1>3. Len(<<p>>) = 1 /\ Len(<<p, q>>) = 2
  OBVIOUS
<1> QED
  BY <1>2, <1>3 DEF MayBeSaid, Turn, AnyTurn

(* What a user says.                                                       *)
LEMMA UserMaySay ==
  ASSUME NEW i \in Nat, NEW t \in UserTurns(10 * i)
  PROVE  MayBeSaid(i, t)
<1> DEFINE n == 10 * i
<1>1. PICK who \in Speakers : who = "user"
  BY DEF Speakers
<1>2. who # "results" /\ who # "system"
  BY <1>1
<1>3. PICK text \in PartKinds \ {"result"} : text = "text" /\ text # "call"
  BY DEF PartKinds
<1>4. PICK none \in FunctionNames : none = ""
  BY DEF FunctionNames
<1>5. 0 \in 0 .. 9 /\ 1 \in 0 .. 9 /\ n = 10 * i + 0 /\ n + 1 = 10 * i + 1
  OBVIOUS
<1>6. ASSUME NEW d \in 0 .. 9, NEW k \in PartKinds \ {"result"}, k # "call"
      PROVE  Spoke(k, 10 * i + d, none) \in SaidIn(i, who)
  BY <1>2, <1>6, SpokeSaid
<1>7. Spoke(text, n, none) \in SaidIn(i, who)
  BY <1>3, <1>5, <1>6
<1>8. CASE \E shape \in {"string", "list"} : t = Turn("user", shape, <<Spoke("text", n, "")>>)
  <2>1. PICK shape \in {"string", "list"} : t = Turn("user", shape, <<Spoke("text", n, "")>>)
    BY <1>8
  <2>2. MayBeSaid(i, Turn(who, shape, <<Spoke(text, n, none)>>))
    BY <1>2, <1>7, ShortTurn
  <2> QED
    BY <1>1, <1>3, <1>4, <2>1, <2>2, Zenon
<1>9. CASE \E k \in Images : t = Turn("user", "list", <<Spoke("text", n, ""), Spoke(k, n + 1, "")>>)
  <2>1. PICK k \in Images : t = Turn("user", "list", <<Spoke("text", n, ""), Spoke(k, n + 1, "")>>)
    BY <1>9
  <2>2. k \in PartKinds \ {"result"} /\ k # "call"
    BY DEF PartKinds, Images
  <2>3. Spoke(k, n + 1, none) \in SaidIn(i, who)
    BY <1>5, <1>6, <2>2
  <2>4. PICK shape \in {"string", "list"} : shape = "list"
    OBVIOUS
  <2>5. MayBeSaid(i, Turn(who, shape, <<Spoke(text, n, none), Spoke(k, n + 1, none)>>))
    BY <1>2, <1>7, <2>3, ShortTurn
  <2> QED
    BY <1>1, <1>3, <1>4, <2>1, <2>4, <2>5, Zenon
<1> QED
  BY <1>8, <1>9, Zenon DEF UserTurns

(* The parts an assistant's turn may have.                                 *)
LEMMA AssistantPartsAre ==
  ASSUME NEW n
  PROVE  \A parts \in AssistantParts(n) :
            \/ parts = <<Spoke("text", n, "")>>
            \/ parts = <<Spoke("think", n, ""), Spoke("text", n + 1, "")>>
            \/ \E f \in Functions : parts = <<Spoke("call", n, f)>>
            \/ \E f \in Functions : parts = <<Spoke("text", n, ""), Spoke("call", n + 1, f)>>
            \/ \E f, g \in Functions : parts = <<Spoke("call", n, f), Spoke("call", n + 1, g)>>
<1> DEFINE A == {<<Spoke("text", n, "")>>, <<Spoke("think", n, ""), Spoke("text", n + 1, "")>>}
           B == {<<Spoke("call", n, f)>> : f \in Functions}
           C == {<<Spoke("text", n, ""), Spoke("call", n + 1, f)>> : f \in Functions}
           D == {<<Spoke("call", n, f), Spoke("call", n + 1, g)>> : f, g \in Functions}
<1>1. AssistantParts(n) = A \cup B \cup C \cup D
  BY SMT DEF AssistantParts
<1> TAKE parts \in AssistantParts(n)
<1>2. parts \in A \/ parts \in B \/ parts \in C \/ parts \in D
  <2> HIDE DEF A, B, C, D
  <2> QED
    BY <1>1
<1>3. parts \in A => parts = <<Spoke("text", n, "")>>
                    \/ parts = <<Spoke("think", n, ""), Spoke("text", n + 1, "")>>
  <2>1. \A x, y : parts \in {x, y} => parts = x \/ parts = y
    OBVIOUS
  <2> QED
    BY <2>1, Zenon
<1>4. parts \in B => \E f \in Functions : parts = <<Spoke("call", n, f)>>
  BY Zenon
<1>5. parts \in C => \E f \in Functions : parts = <<Spoke("text", n, ""), Spoke("call", n + 1, f)>>
  BY Zenon
<1>6. parts \in D => \E f, g \in Functions : parts = <<Spoke("call", n, f), Spoke("call", n + 1, g)>>
  OBVIOUS
<1> HIDE DEF A, B, C, D
<1> QED
  BY <1>2, <1>3, <1>4, <1>5, <1>6

(* What an assistant says: its calls name functions.                       *)
LEMMA AssistantMaySay ==
  ASSUME NEW i \in Nat, NEW t \in AssistantTurns(10 * i)
  PROVE  MayBeSaid(i, t)
<1> DEFINE n == 10 * i
<1>1. PICK who \in Speakers : who = "assistant"
  BY DEF Speakers
<1>2. who # "results" /\ who # "system"
  BY <1>1
<1>3. PICK text \in PartKinds \ {"result"} : text = "text" /\ text # "call"
  BY DEF PartKinds
<1>4. PICK think \in PartKinds \ {"result"} : think = "think" /\ think # "call"
  BY DEF PartKinds
<1>5. PICK call \in PartKinds \ {"result"} : call = "call"
  BY DEF PartKinds
<1>6. PICK none \in FunctionNames : none = ""
  BY DEF FunctionNames
<1>7. PICK shape \in {"string", "list"} : shape = "string"
  OBVIOUS
<1>8. 0 \in 0 .. 9 /\ 1 \in 0 .. 9 /\ n = 10 * i + 0 /\ n + 1 = 10 * i + 1
  OBVIOUS
<1>9. ASSUME NEW d \in 0 .. 9, NEW k \in PartKinds \ {"result"}, k # "call"
      PROVE  Spoke(k, 10 * i + d, none) \in SaidIn(i, who)
  BY <1>2, <1>9, SpokeSaid
<1>10. ASSUME NEW d \in 0 .. 9, NEW f \in Functions
       PROVE  Spoke(call, 10 * i + d, f) \in SaidIn(i, who)
  <2>1. f \in FunctionNames
    BY DEF FunctionNames
  <2> QED
    BY <1>2, <2>1, SpokeSaid
<1>11. /\ Spoke(text, n, none) \in SaidIn(i, who) /\ Spoke(text, n + 1, none) \in SaidIn(i, who)
       /\ Spoke(think, n, none) \in SaidIn(i, who)
  BY <1>3, <1>4, <1>8, <1>9
<1>12. \A f \in Functions : Spoke(call, n, f) \in SaidIn(i, who) /\ Spoke(call, n + 1, f) \in SaidIn(i, who)
  BY <1>8, <1>10
<1>13. PICK parts \in AssistantParts(n) : t = Turn("assistant", "string", parts)
  BY Zenon DEF AssistantTurns
<1>14. CASE parts = <<Spoke("text", n, "")>>
  <2>1. MayBeSaid(i, Turn(who, shape, <<Spoke(text, n, none)>>))
    BY <1>2, <1>11, ShortTurn
  <2> QED
    BY <1>1, <1>3, <1>6, <1>7, <1>13, <1>14, <2>1, Zenon
<1>15. CASE parts = <<Spoke("think", n, ""), Spoke("text", n + 1, "")>>
  <2>1. MayBeSaid(i, Turn(who, shape, <<Spoke(think, n, none), Spoke(text, n + 1, none)>>))
    BY <1>2, <1>11, ShortTurn
  <2> QED
    BY <1>1, <1>3, <1>4, <1>6, <1>7, <1>13, <1>15, <2>1, Zenon
<1>16. ASSUME NEW f \in Functions, parts = <<Spoke("call", n, f)>>
       PROVE  MayBeSaid(i, t)
  <2>1. MayBeSaid(i, Turn(who, shape, <<Spoke(call, n, f)>>))
    BY <1>2, <1>12, ShortTurn
  <2> QED
    BY <1>1, <1>5, <1>7, <1>13, <1>16, <2>1, Zenon
<1>17. ASSUME NEW f \in Functions, parts = <<Spoke("text", n, ""), Spoke("call", n + 1, f)>>
       PROVE  MayBeSaid(i, t)
  <2>1. MayBeSaid(i, Turn(who, shape, <<Spoke(text, n, none), Spoke(call, n + 1, f)>>))
    BY <1>2, <1>11, <1>12, ShortTurn
  <2> QED
    BY <1>1, <1>3, <1>5, <1>6, <1>7, <1>13, <1>17, <2>1, Zenon
<1>18. ASSUME NEW f \in Functions, NEW g \in Functions,
              parts = <<Spoke("call", n, f), Spoke("call", n + 1, g)>>
       PROVE  MayBeSaid(i, t)
  <2>1. MayBeSaid(i, Turn(who, shape, <<Spoke(call, n, f), Spoke(call, n + 1, g)>>))
    BY <1>2, <1>12, ShortTurn
  <2> QED
    BY <1>1, <1>5, <1>7, <1>13, <1>18, <2>1, Zenon
<1> QED
  BY <1>13, <1>14, <1>15, <1>16, <1>17, <1>18, AssistantPartsAre

(* What the tools answer: as many results as there were calls.             *)
LEMMA ResultsMayBeSaid ==
  ASSUME NEW i \in Nat, NEW j, NEW who, NEW parts \in Seq(SaidIn(j, who)), Len(parts) <= 2,
         NEW t \in ResultTurns(10 * i, Of(parts, {"call"}))
  PROVE  MayBeSaid(i, t)
<1> DEFINE called == Of(parts, {"call"})
           n == 10 * i
           rs == [l \in DOMAIN called |-> Part("result", <<n + l>>, called[l].id, called[l].fn)]
           C == {p \in SaidIn(j, who) : p.k \in {"call"}}
<1>1. called \in Seq(C) /\ Len(called) \in 0 .. 2
  <2>1. called \in Seq(C) /\ Len(called) <= Len(parts)
    BY OfTyped
  <2> HIDE DEF called, C, rs
  <2>2. PICK m \in Nat : m = Len(called)
    BY <2>1
  <2>3. PICK l \in Nat : l = Len(parts)
    OBVIOUS
  <2>4. m <= l
    BY <2>1, <2>2, <2>3
  <2>5. l <= 2
    BY <2>3
  <2>6. m \in 0 .. 2
    BY <2>4, <2>5
  <2> QED
    BY <2>1, <2>2, <2>6, Zenon
<1>2. \A p \in C : p.id \in Nat /\ p.fn \in Functions
  BY DEF SaidIn, SpokenPart
<1>3. PICK shape \in {"string", "list"} : t = Turn("results", shape, rs)
  BY Zenon DEF ResultTurns
<1>4. PICK k \in PartKinds : k = "result"
  BY DEF PartKinds
<1>5. PICK said \in Speakers : said = "results"
  BY DEF Speakers
<1> HIDE DEF called, C
<1>6. ASSUME NEW l \in DOMAIN called
      PROVE  Part(k, <<n + l>>, called[l].id, called[l].fn) \in SaidIn(i, said)
  <2> DEFINE v == <<n + l>>
             p == Part(k, v, called[l].id, called[l].fn)
  <2>1. l \in 0 .. 9 /\ called[l] \in C
    BY <1>1
  <2>2. n + l \in Nat /\ TurnOf(n + l) = i
    BY <2>1, TokensOfTurn
  <2>3. v \in Seq(Nat) /\ \A x \in DOMAIN v : TurnOf(v[x]) = i
    BY <2>2
  <2>4. called[l].id \in Nat /\ called[l].fn \in Functions
    BY <1>2, <2>1
  <2> HIDE DEF v
  <2>5. p \in SpokenPart /\ p.k = k /\ p.v = v /\ p.fn = called[l].fn
    BY <2>3, <2>4 DEF Part, SpokenPart
  <2> HIDE DEF p
  <2>6. p \in SaidIn(i, said)
    BY <1>4, <1>5, <2>3, <2>4, <2>5 DEF SaidIn
  <2> QED
    BY <2>6 DEF p, v
<1> DEFINE ps == [l \in DOMAIN called |-> Part(k, <<n + l>>, called[l].id, called[l].fn)]
<1>7. ps \in Seq(SaidIn(i, said)) /\ Len(ps) <= 2
  <2>1. DOMAIN called = 1 .. Len(called)
    BY <1>1
  <2>2. ps \in [1 .. Len(called) -> SaidIn(i, said)]
    BY <1>6, <2>1
  <2> HIDE DEF ps
  <2>3. PICK m \in 0 .. 2 : m = Len(called)
    BY <1>1
  <2>4. ps \in [1 .. m -> SaidIn(i, said)]
    BY <2>2, <2>3
  <2> QED
    BY <2>4
<1>8. ps = rs
  BY <1>4, Zenon
<1> HIDE DEF ps, rs
<1>9. SaidIn(i, said) \subseteq SpokenPart
  BY DEF SaidIn
<1>10. ps \in Seq(SpokenPart)
  BY <1>7, <1>9, SeqWider
<1>11. t = Turn(said, shape, ps)
  BY <1>3, <1>5, <1>8, Zenon
<1>12. said # "system"
  BY <1>5
<1> QED
  BY <1>7, <1>10, <1>11, <1>12 DEF MayBeSaid, Turn, AnyTurn

(* Whatever comes next.                                                    *)
LEMMA NextMayBeSaid ==
  ASSUME TurnsAreKnown, NEW t \in NextTurns
  PROVE  MayBeSaid(Len(turns) + 1, t)
<1> DEFINE i == Len(turns) + 1
           n == 10 * i
           system == Turn("system", "string", <<Spoke("text", n, "")>>)
<1>1. turns \in Seq(AnyTurn) /\ i \in Nat
  BY DEF TurnsAreKnown, AnyTurn
<1>2. \/ t \in UserTurns(n) \/ t \in AssistantTurns(n)
      \/ turns = <<>> /\ t = system
      \/ turns # <<>> /\ t \in ResultTurns(n, CallsOf(Last(turns)))
  <2> HIDE DEF n
  <2> QED
    BY Zenon DEF NextTurns, n, i
<1>3. CASE t \in UserTurns(n)
  BY <1>1, <1>3, UserMaySay
<1>4. CASE t \in AssistantTurns(n)
  BY <1>1, <1>4, AssistantMaySay
<1>5. CASE turns = <<>> /\ t = system
  <2>1. i = 1
    <3>1. Len(turns) = 0
      <4> HIDE DEF n, system
      <4> QED
        BY <1>1, <1>5
    <3> QED
      BY <3>1
  <2>2. PICK who \in Speakers : who = "system"
    BY DEF Speakers
  <2>3. PICK text \in PartKinds \ {"result"} : text = "text" /\ text # "call"
    BY DEF PartKinds
  <2>4. PICK none \in FunctionNames : none = ""
    BY DEF FunctionNames
  <2>5. PICK shape \in {"string", "list"} : shape = "string"
    OBVIOUS
  <2>6. who # "results" /\ 0 \in 0 .. 9 /\ n = 10 * i + 0
    BY <1>1, <2>2
  <2>7. Spoke(text, n, none) \in SaidIn(i, who)
    BY <1>1, <2>3, <2>6, SpokeSaid
  <2> HIDE DEF n, i
  <2>8. MayBeSaid(i, Turn(who, shape, <<Spoke(text, n, none)>>))
    BY <1>1, <2>1, <2>7, ShortTurn
  <2>9. t = Turn(who, shape, <<Spoke(text, n, none)>>)
    BY <1>5, <2>2, <2>3, <2>4, <2>5, Zenon
  <2> QED
    BY <2>8, <2>9 DEF i
<1>6. CASE turns # <<>> /\ t \in ResultTurns(n, CallsOf(Last(turns)))
  <2> DEFINE l == Len(turns)
  <2>1. l \in DOMAIN turns /\ Last(turns) = turns[l]
    BY <1>1, <1>6 DEF Last
  <2>2. turns[l].parts \in Seq(SaidIn(l, turns[l].who)) /\ Len(turns[l].parts) <= 2
    BY <2>1 DEF TurnsAreKnown
  <2>3. t \in ResultTurns(n, Of(turns[l].parts, {"call"}))
    BY <1>6, <2>1, Zenon DEF CallsOf
  <2> HIDE DEF l, i
  <2> QED
    BY <1>1, <2>2, <2>3, ResultsMayBeSaid DEF i
<1> QED
  BY <1>2, <1>3, <1>4, <1>5, <1>6

(* A turn more.                                                            *)
LEMMA SaidIsKnown ==
  ASSUME TurnsAreKnown, NEW t, MayBeSaid(Len(turns) + 1, t), turns' = Append(turns, t)
  PROVE  TurnsAreKnown'
<1>1. turns \in Seq(AnyTurn)
  BY DEF TurnsAreKnown, AnyTurn
<1>2. turns \in Seq(AnyTurn) /\ t \in AnyTurn
  BY <1>1 DEF MayBeSaid
<1>3. /\ turns' \in Seq(AnyTurn) /\ DOMAIN turns' = 1 .. Len(turns) + 1
      /\ \A i \in DOMAIN turns : turns'[i] = turns[i]
      /\ turns'[Len(turns) + 1] = t
  BY <1>2
<1>4. ASSUME NEW i \in DOMAIN turns'
      PROVE  /\ turns'[i].who = "system" => i = 1
             /\ turns'[i].parts \in Seq(SaidIn(i, turns'[i].who)) /\ Len(turns'[i].parts) <= 2
  <2>1. CASE i \in DOMAIN turns
    BY <1>3, <2>1 DEF TurnsAreKnown
  <2>2. CASE i = Len(turns) + 1
    BY <1>3, <2>2 DEF MayBeSaid
  <2>3. i \in DOMAIN turns \/ i = Len(turns) + 1
    BY <1>2, <1>3
  <2> QED
    BY <2>1, <2>2, <2>3
<1> QED
  BY <1>3, <1>4 DEF TurnsAreKnown, AnyTurn, SaidIn, SpokenPart, PartKinds, Images, Speakers, TurnOf

(* Conversations stay known.                                               *)
LEMMA TurnsStayKnown == TurnsAreKnown /\ [PathNext]_pathVars => TurnsAreKnown'
<1> SUFFICES ASSUME TurnsAreKnown, [PathNext]_pathVars PROVE TurnsAreKnown'
  OBVIOUS
<1>1. CASE Say
  <2>1. PICK t \in NextTurns : turns' = Append(turns, t)
    BY <1>1 DEF Say
  <2>2. MayBeSaid(Len(turns) + 1, t)
    BY NextMayBeSaid
  <2> QED
    BY <2>1, <2>2, SaidIsKnown
<1>2. ASSUME turns' = turns PROVE TurnsAreKnown'
  BY <1>2 DEF TurnsAreKnown, SaidIn, SpokenPart, PartKinds, Images, Speakers, TurnOf
<1>3. CASE \E v \in Vendors, shape \in KeyShapes : DoRequest(v, shape)
  BY <1>2, <1>3 DEF DoRequest
<1>4. CASE DoResponse
  BY <1>2, <1>4 DEF DoResponse
<1>5. CASE UNCHANGED pathVars
  BY <1>2, <1>5 DEF pathVars
<1> QED
  BY <1>1, <1>3, <1>4, <1>5 DEF PathNext

(* What a conversation is made of (NextTurns): tokens name their turns,    *)
(* results name the function called, and the system only begins.           *)
THEOREM ConversationsAreKnown == PathSpec => []TurnsAreKnown
<1>1. PathInit => TurnsAreKnown
  <2> SUFFICES ASSUME turns = <<>> PROVE TurnsAreKnown
    BY DEF PathInit
  <2>1. turns \in Seq(AnyTurn) /\ DOMAIN turns = {}
    OBVIOUS
  <2> QED
    BY <2>1 DEF TurnsAreKnown, AnyTurn
<1> QED
  BY <1>1, TurnsStayKnown, PTL DEF PathSpec

(* Whatever was said and whichever channel it goes through, the vendor is  *)
(* told every word as said by whoever said it: no conversion (relay/       *)
(* channel, ConvertRequest) swaps speakers.                                *)
THEOREM SpeakersAreKeptAlways == PathSpec => []SpeakersAreKept
BY SentIsConvertedAlways, ConversationsAreKnown, FaithfulKeepsSpeakers, PTL

(* And Claude's turns alternate, the user's first, as o2cMergeContents and *)
(* the placeholder before an assistant's first turn want them.             *)
THEOREM TurnsAlternateAlways == PathSpec => []TurnsAlternate
<1>1. SentIsConverted /\ TurnsAreKnown => TurnsAlternate
  BY SentIsFaithful
<1> QED
  BY <1>1, SentIsConvertedAlways, ConversationsAreKnown, PTL
=============================================================================
