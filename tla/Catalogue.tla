------------------------------ MODULE Catalogue ------------------------------
(***************************************************************************)
(* What the platform sells: upstream channels, model specs, the keys that  *)
(* providers bring and the bindings of a key to a model (logic/llm:        *)
(* channel.go, model.go, key.go, behind controller/api/llm/provider.go and *)
(* controller/api/admin/llm.go).  Reviews read a row and update it in a    *)
(* second statement; a test of a binding waits for the upstream between    *)
(* its reads and its update.  Listing changes nothing and is left out.     *)
(***************************************************************************)
EXTENDS Scheduler, FiniteSets

CONSTANTS
    Channel, ModelSpec,   \* rows of llm_channels and llm_model_specs
    Key,             \* rows of llm_model_keys
    KeyOwner,        \* the provider of each key
    Provider,
    Reviewer,        \* administrator requests that review
    Tester,          \* requests that run TriggerKeyModelTest
    Protocols,       \* the protocol sets channels are created with
    SeedProtocols,   \* protocols and home channels of the rows that a
    SeedHome,        \* database in service starts with
    MaxOps           \* bound: operations and tests of a behaviour

Item == Channel \cup ModelSpec
Binding == Key \X ModelSpec
None == "none"
NoBinding == <<None, None>>

ASSUME CatalogueAssumption ==
    /\ Channel \cap ModelSpec = {}
    /\ KeyOwner \in [Key -> Provider]
    /\ \A p \in Protocols : p \subseteq AllowedProtocolKeys /\ p # {}
    /\ SeedProtocols \in [Channel -> Protocols] /\ SeedHome \in [Key -> Channel]
    /\ MaxOps \in Nat
    /\ None \notin Item \cup Key

VARIABLES
    item,      \* status of each channel and spec; "deleted" rows are gone
    proto,     \* protocols_json of each channel
    key,       \* status of each key
    home,      \* channel_id of each key
    bind,      \* status of each binding
    fails,     \* consecutive_failures
    spent,     \* keys whose quota is used up
    review,    \* the row each reviewer has read, and what it will write
    test,      \* the binding each tester waits for
    results,   \* history: results applied to each binding, oldest first
    approved,  \* history: rows some reviewer has made active
    ops        \* operations so far

catalogue == <<item, proto, key, home, bind, fails, spent, review, test,
               results, approved, ops>>

Decision == {"active", "disabled", "rejected"}
ItemStatus == {"absent", "pending", "deleted"} \cup Decision
BindStatus == {"absent", "pending_model_review", "pending_test", "active"}
NoReview == [item |-> None, to |-> "rejected"]

CatalogueTypeOK ==
    /\ item \in [Item -> ItemStatus]
    /\ proto \in [Channel -> Protocols \cup {{}}]
    /\ key \in [Key -> {"absent", "pending", "active", "disabled"}]
    /\ home \in [Key -> Channel \cup {None}]
    /\ bind \in [Binding -> BindStatus]
    /\ fails \in [Binding -> Nat]
    /\ spent \in SUBSET Key
    /\ review \in [Reviewer -> [item : Item \cup {None}, to : Decision]]
    /\ test \in [Tester -> Binding \cup {NoBinding}]
    /\ results \in [Binding -> Seq(BOOLEAN)]
    /\ approved \in SUBSET Item
    /\ ops \in 0 .. MaxOps

SeedBind(status) == IF status = "pending" THEN {"absent", "pending_model_review"} ELSE {status}

(* An empty database; one whose keys await the review of their model; or   *)
(* one in service, as smoke-llm.sh leaves it.                              *)
CatalogueInit ==
    /\ \E stage \in {"absent", "pending", "active"} :
          /\ item = [i \in Item |-> IF i \in Channel /\ stage = "pending" THEN "active" ELSE stage]
          /\ key \in [Key -> IF stage = "pending" THEN {"absent", stage} ELSE {stage}]
          /\ bind \in {f \in [Binding -> BindStatus] : \A b \in Binding : f[b] \in SeedBind(key[b[1]])}
          /\ proto = IF stage = "absent" THEN [c \in Channel |-> {}] ELSE SeedProtocols
          /\ home = [k \in Key |-> IF key[k] = "absent" THEN None ELSE SeedHome[k]]
    /\ fails = [b \in Binding |-> 0]
    /\ spent = {}
    /\ review = [v \in Reviewer |-> NoReview]
    /\ test = [t \in Tester |-> NoBinding]
    /\ results = [b \in Binding |-> <<>>]
    /\ approved = {i \in Item : item[i] = "active"}
    /\ ops = 0

Operation == ops < MaxOps /\ ops' = ops + 1

(* Mutant: every channel starts active. *)
CreateActive(c, source, protocols) ==
    /\ Operation
    /\ item[c] = "absent"
    /\ item' = [item EXCEPT ![c] = "active"]
    /\ proto' = [proto EXCEPT ![c] = protocols]
    /\ approved' = IF source = "admin" THEN approved \cup {c} ELSE approved
    /\ UNCHANGED <<key, home, bind, fails, spent, review, test, results>>

(* A provider's channel awaits review, the administrator's does not. *)
CreateChannel(c, source, protocols) ==
    /\ Operation
    /\ item[c] = "absent"
    /\ item' = [item EXCEPT ![c] = IF source = "provider" THEN "pending" ELSE "active"]
    /\ proto' = [proto EXCEPT ![c] = protocols]
    /\ approved' = IF source = "admin" THEN approved \cup {c} ELSE approved
    /\ UNCHANGED <<key, home, bind, fails, spent, review, test, results>>

CreateModelSpec(s) ==
    /\ Operation
    /\ item[s] = "absent"
    /\ item' = [item EXCEPT ![s] = "pending"]
    /\ UNCHANGED <<proto, key, home, bind, fails, spent, review, test, results, approved>>

(* ReviewChannel, ReviewModelSpec: the row is read and must be pending ... *)
BeginReview(v, i, to) ==
    /\ Operation
    /\ review[v] = NoReview
    /\ item[i] = "pending"
    /\ review' = [review EXCEPT ![v] = [item |-> i, to |-> to]]
    /\ UNCHANGED <<item, proto, key, home, bind, fails, spent, test, results, approved>>

(* ... and is then updated whatever it has become, unless it is gone.      *)
EndReview(v) ==
    LET i == review[v].item IN
    /\ i # None
    /\ IF item[i] = "deleted" THEN UNCHANGED <<item, approved>>
       ELSE /\ item' = [item EXCEPT ![i] = review[v].to]
            /\ approved' = IF review[v].to = "active" THEN approved \cup {i} ELSE approved
    /\ review' = [review EXCEPT ![v] = NoReview]
    /\ UNCHANGED <<proto, key, home, bind, fails, spent, test, results, ops>>

(* DeleteChannel, DeleteModelSpec: keys and bindings keep the dead id. *)
Delete(i) ==
    /\ Operation
    /\ item[i] \notin {"absent", "deleted"}
    /\ item' = [item EXCEPT ![i] = "deleted"]
    /\ UNCHANGED <<proto, key, home, bind, fails, spent, review, test, results, approved>>

BindStatusFor(s) == IF item[s] = "active" THEN "pending_test" ELSE "pending_model_review"
Found(i) == item[i] \notin {"absent", "deleted"}

(* One transaction inserts the key and a binding for each model asked for. *)
(* The channel is read before it; a channel deleted in between leaves the  *)
(* same rows as one deleted right after.                                   *)
CreateModelKey(k, c, specs) ==
    /\ Operation
    /\ key[k] = "absent"
    /\ item[c] = "active"
    /\ \A s \in specs : Found(s)
    /\ key' = [key EXCEPT ![k] = "pending"]
    /\ home' = [home EXCEPT ![k] = c]
    /\ bind' = [b \in Binding |->
                  IF b[1] = k /\ b[2] \in specs THEN BindStatusFor(b[2]) ELSE bind[b]]
    /\ UNCHANGED <<item, proto, fails, spent, review, test, results, approved>>

BindKeyModel(p, k, s) ==
    /\ Operation
    /\ key[k] \in {"active", "pending"}
    /\ KeyOwner[k] = p
    /\ Found(s)
    /\ bind[<<k, s>>] = "absent"
    /\ bind' = [bind EXCEPT ![<<k, s>>] = BindStatusFor(s)]
    /\ UNCHANGED <<item, proto, key, home, fails, spent, review, test, results, approved>>

DisableModelKey(p, k) ==
    /\ Operation
    /\ key[k] # "absent"
    /\ KeyOwner[k] = p
    /\ key' = [key EXCEPT ![k] = "disabled"]
    /\ UNCHANGED <<item, proto, home, bind, fails, spent, review, test, results, approved>>

(* No code makes a key or a binding active; the operator does it by SQL.   *)
OperatorActivates(k) ==
    /\ Operation
    /\ key[k] = "pending"
    /\ key' = [key EXCEPT ![k] = "active"]
    /\ bind' = [b \in Binding |-> IF b[1] = k /\ bind[b] # "absent" THEN "active" ELSE bind[b]]
    /\ UNCHANGED <<item, proto, home, fails, spent, review, test, results, approved>>

(* Settlement counts the quota of a key up to its limit. *)
QuotaUsedUp(k) ==
    /\ Operation
    /\ key[k] = "active"
    /\ spent' = spent \cup {k}
    /\ UNCHANGED <<item, proto, key, home, bind, fails, review, test, results, approved>>

(* TriggerKeyModelTest reads binding, key and channel, whatever their      *)
(* status, and calls the upstream.                                         *)
BeginTest(t, b) ==
    /\ Operation
    /\ test[t] = NoBinding
    /\ bind[b] # "absent"
    /\ home[b[1]] # None /\ Found(home[b[1]])
    /\ test' = [test EXCEPT ![t] = b]
    /\ UNCHANGED <<item, proto, key, home, bind, fails, spent, review, results, approved>>

(* Mutant: a success leaves consecutive_failures as it is. *)
EndTestKeepsFailures(t, succeeds) ==
    LET b == test[t] IN
    /\ b # NoBinding
    /\ fails' = [fails EXCEPT ![b] = IF succeeds THEN @ ELSE @ + 1]
    /\ results' = [results EXCEPT ![b] = Append(@, succeeds)]
    /\ test' = [test EXCEPT ![t] = NoBinding]
    /\ UNCHANGED <<item, proto, key, home, bind, spent, review, approved, ops>>

EndTest(t, succeeds) ==
    LET b == test[t] IN
    /\ b # NoBinding
    /\ fails' = [fails EXCEPT ![b] = IF succeeds THEN 0 ELSE @ + 1]
    /\ results' = [results EXCEPT ![b] = Append(@, succeeds)]
    /\ test' = [test EXCEPT ![t] = NoBinding]
    /\ UNCHANGED <<item, proto, key, home, bind, spent, review, approved, ops>>

(* The error of the update is not looked at. *)
TestResultLost(t) ==
    /\ test[t] # NoBinding
    /\ test' = [test EXCEPT ![t] = NoBinding]
    /\ UNCHANGED <<item, proto, key, home, bind, fails, spent, review, results, approved, ops>>

-----------------------------------------------------------------------------
(* The routes: requireProvider lets in the provider's role only; the       *)
(* administrator may name either source.  A review or a deletion is the    *)
(* administrator's; a test of any binding is anybody's with one of the two *)
(* roles.                                                                  *)
ProviderCreateChannel(c, protocols) == CreateChannel(c, "provider", protocols)
AdminCreateChannel(c, protocols) ==
    \E source \in {"admin", "provider"} : CreateChannel(c, source, protocols)

ProviderCreateModelKey(k) ==
    \E c \in Channel, specs \in SUBSET ModelSpec : CreateModelKey(k, c, specs)
ProviderBindKeyModel(p, k) == \E s \in ModelSpec : BindKeyModel(p, k, s)
ProviderTriggerKeyModelTest(t) == \E b \in Binding : BeginTest(t, b)

AdminReview(v) == \E i \in Item, to \in Decision : BeginReview(v, i, to)

CatalogueNext ==
    \/ \E c \in Channel, protocols \in Protocols :
          AdminCreateChannel(c, protocols) \/ ProviderCreateChannel(c, protocols)
    \/ \E s \in ModelSpec : CreateModelSpec(s)
    \/ \E i \in Item : Delete(i)
    \/ \E v \in Reviewer : AdminReview(v) \/ EndReview(v)
    \/ \E k \in Key : ProviderCreateModelKey(k) \/ OperatorActivates(k) \/ QuotaUsedUp(k)
    \/ \E p \in Provider, k \in Key : ProviderBindKeyModel(p, k) \/ DisableModelKey(p, k)
    \/ \E t \in Tester : ProviderTriggerKeyModelTest(t) \/ TestResultLost(t)
    \/ \E t \in Tester, succeeds \in BOOLEAN : EndTest(t, succeeds)

(* A binding in service: loadActiveCandidates of handler.go.  The inner    *)
(* joins drop a key whose channel is gone.                                 *)
Servable ==
    {b \in Binding : /\ bind[b] = "active"
                     /\ key[b[1]] = "active"
                     /\ b[1] \notin spent
                     /\ home[b[1]] \in Channel /\ item[home[b[1]]] = "active"}

-----------------------------------------------------------------------------
(* Trailing failures of a sequence of results. *)
Streak(rs) == Cardinality({i \in 1 .. Len(rs) : \A j \in i .. Len(rs) : ~rs[j]})

(* However many tests of a binding overlap, consecutive_failures is the    *)
(* number of failures since the last success that was applied: the         *)
(* increment is evaluated by the database, so none is lost (key.go:556).   *)
FailuresAreCounted == \A b \in Binding : fails[b] = Streak(results[b])

(* A channel or a model is in service only after an administrator created  *)
(* or approved it, whatever reviews, deletions and creations overlap       *)
(* (channel.go:99, channel.go:187, model.go:110).                          *)
OnlyApprovedItemsServe ==
    \A i \in Item : item[i] = "active" => i \in approved
=============================================================================
