------------------------------- MODULE Gateway -------------------------------
(***************************************************************************)
(* The request pipeline of relay/handler/handler.go over the catalogue:    *)
(* Handle and HandleStream from relayProxy (controller/gateway/relay.go)   *)
(* to the answer, with the affinity map and the retries of                 *)
(* relay/scheduler.  Requests run concurrently with each other and with    *)
(* the catalogue's operations; the candidates a request has loaded may be  *)
(* out of date when it uses them.                                          *)
(***************************************************************************)
EXTENDS Catalogue

CONSTANTS
    Request,       \* requests, each handled by a goroutine of its own
    User, UserOf,  \* who sends each
    SpecOf,        \* the model each asks for
    Stream,        \* the requests with "stream": true
    Path,          \* the routes registered in boot.go
    Priority,      \* llm_channels.priority and weight, set by the operator
    Weight,
    MaxRetries     \* gateway.max_retries, or its default

ASSUME GatewayAssumption ==
    /\ UserOf \in [Request -> User] /\ SpecOf \in [Request -> ModelSpec]
    /\ Stream \subseteq Request
    /\ Priority \in [Channel -> Int] /\ Weight \in [Channel -> Int]
    /\ MaxRetries \in Nat \ {0}   \* GetMaxRetries turns n <= 0 into 3
    /\ \A p \in Path : DetectFormatFromPath(p) \in Format

VARIABLES
    at,        \* where each request is
    format,    \* the inbound format it was given
    cands,     \* the candidates it has loaded: binding, health, protocol
    picked,    \* the candidate it uses
    calls,     \* upstream calls it has made
    affinity,  \* user and model -> channel
    reply,     \* what the client has received
    billed,    \* the binding its settlement task names
    answered,  \* history: <<user, model, channel>> with an upstream answer
    seen       \* history: bindings in service at some time since it arrived

gateway == <<at, format, cands, picked, calls, affinity, reply, billed, answered>>
vars == <<catalogue, gateway, seen>>

Candidate == [binding : Binding, priority : Int, weight : Int, health : Nat,
              protocol : AllowedProtocolKeys]
NoCandidate == [binding |-> NoBinding]
Place == {"new", "resolve", "load", "pick", "send", "respond", "done"}

TypeOK ==
    /\ CatalogueTypeOK
    /\ at \in [Request -> Place]
    /\ format \in [Request -> Format \cup {None}]
    /\ cands \in [Request -> SUBSET Candidate]
    /\ picked \in [Request -> Candidate \cup {NoCandidate}]
    /\ calls \in [Request -> 0 .. MaxRetries + 1]
    /\ affinity \in [User \X ModelSpec -> Channel \cup {None}]
    /\ reply \in [Request -> {"none", "error", "ok", "chunks then error"}]
    /\ billed \in [Request -> Binding \cup {NoBinding}]
    /\ seen \in [Request -> SUBSET Binding]

Init ==
    /\ CatalogueInit
    /\ at = [r \in Request |-> "new"]
    /\ format = [r \in Request |-> None]
    /\ cands = [r \in Request |-> {}]
    /\ picked = [r \in Request |-> NoCandidate]
    /\ calls = [r \in Request |-> 0]
    /\ affinity = [us \in User \X ModelSpec |-> None]
    /\ reply = [r \in Request |-> "none"]
    /\ billed = [r \in Request |-> NoBinding]
    /\ answered = {}
    /\ seen = [r \in Request |-> {}]

Goto(r, place) == at' = [at EXCEPT ![r] = place]
Subject(r) == <<UserOf[r], SpecOf[r]>>

(* The handler returns: its locals are gone, the client has its answer.    *)
Return(r, what) ==
    /\ at' = [at EXCEPT ![r] = "done"]
    /\ reply' = [reply EXCEPT ![r] = what]
    /\ format' = [format EXCEPT ![r] = None]
    /\ cands' = [cands EXCEPT ![r] = {}]
    /\ picked' = [picked EXCEPT ![r] = NoCandidate]
    /\ calls' = [calls EXCEPT ![r] = 0]

(* Every return with an error ends in relayProxy's WriteStatusExit(500). *)
Refuse(r) == Return(r, "error") /\ UNCHANGED <<affinity, billed, answered>>

(* relayProxy, detectStream, extractModel, detectInboundFormat and         *)
(* checkBalance; a request without a model or without credits is refused.  *)
Bodies == [keys : {{"model", "messages"}, {"model", "messages", "system"}}, messages : {1}, blocks : BOOLEAN]

Arrive(r, path) ==
    /\ at[r] = "new"
    /\ \E body \in Bodies : format' = [format EXCEPT ![r] = InboundFormat(body, path)]
    /\ Goto(r, "resolve")
    /\ UNCHANGED <<cands, picked, calls, affinity, reply, billed, answered>>

Rejected(r) == at[r] = "new" /\ Refuse(r)

ResolveModelSpec(r) ==
    /\ at[r] = "resolve"
    /\ item[SpecOf[r]] = "active"
    /\ Goto(r, "load")
    /\ UNCHANGED <<format, cands, picked, calls, affinity, reply, billed, answered>>

ModelNotFound(r) == at[r] = "resolve" /\ item[SpecOf[r]] # "active" /\ Refuse(r)

(* loadActiveCandidates and buildChannelCandidates; protocol is the choice *)
(* of BestProtocolMatch for each channel.                                  *)
CandidateOf(b, protocol) ==
    [binding |-> b, priority |-> Priority[home[b[1]]], weight |-> Weight[home[b[1]]],
     health |-> HealthScore(fails[b]), protocol |-> protocol[home[b[1]]]]

Matches(r) ==
    {protocol \in [Channel -> AllowedProtocolKeys] :
        \A c \in Channel : \/ protocol[c] \in BestProtocolMatch(proto[c], format[r])
                           \/ proto[c] = {} /\ protocol[c] = "openai-compatible"}

ActiveCandidates(r) == {b \in Servable : b[2] = SpecOf[r]}

LoadCandidates(r) ==
    /\ at[r] = "load"
    /\ ActiveCandidates(r) # {}
    /\ \E protocol \in Matches(r) :
          cands' = [cands EXCEPT ![r] = {CandidateOf(b, protocol) : b \in ActiveCandidates(r)}]
    /\ Goto(r, "pick")
    /\ UNCHANGED <<format, picked, calls, affinity, reply, billed, answered>>

(* Mutant: the request waits for a candidate. *)
WaitForCandidates(r) == FALSE

NoCandidates(r) == at[r] = "load" /\ ActiveCandidates(r) = {} /\ Refuse(r)

(* Mutant: the affinity's channel is used without asking the candidates. *)
PreferredUnchecked(r) ==
    LET same == {CandidateOf(b, [c \in Channel |-> "openai-compatible"]) :
                    b \in {x \in Binding : x[2] = SpecOf[r] /\ home[x[1]] = affinity[Subject(r)]}}
    IN  IF affinity[Subject(r)] = None THEN cands[r] ELSE same

(* The affinity of the user and the model narrows the candidates, if it    *)
(* names one of them.                                                      *)
Preferred(r) ==
    LET same == {c \in cands[r] : home[c.binding[1]] = affinity[Subject(r)]}
    IN  IF same = {} THEN cands[r] ELSE same

MayPick(r) == Select(Preferred(r))

Pick(r) ==
    /\ at[r] = "pick"
    /\ \E c \in MayPick(r) :
          /\ GetByProtocol(c.protocol) # "none"
          /\ picked' = [picked EXCEPT ![r] = c]
    /\ cands' = [cands EXCEPT ![r] = {}]
    /\ Goto(r, "send")
    /\ UNCHANGED <<format, calls, affinity, reply, billed, answered>>

(* No adaptor for the protocol, a key that cannot be decrypted, or a       *)
(* request that cannot be converted.                                       *)
PickFails(r) == at[r] = "pick" /\ Refuse(r)

(* adp.DoRequest: the upstream answers ... *)
RequestAnswered(r) ==
    /\ at[r] = "send"
    /\ calls' = [calls EXCEPT ![r] = @ + 1]
    /\ answered' = answered \cup {<<UserOf[r], SpecOf[r], home[picked[r].binding[1]]>>}
    /\ Goto(r, "respond")
    /\ UNCHANGED <<format, cands, picked, affinity, reply, billed>>

ShouldRetry(r) == calls[r] < MaxRetries

(* ... or fails in a way ShouldRetry accepts, and the same candidate is    *)
(* called again ...                                                        *)
Retry(r) ==
    /\ at[r] = "send"
    /\ ShouldRetry(r)
    /\ calls' = [calls EXCEPT ![r] = @ + 1]
    /\ affinity' = [affinity EXCEPT ![Subject(r)] = None]
    /\ UNCHANGED <<at, format, cands, picked, reply, billed, answered>>

SetAffinity(r) == affinity' = [affinity EXCEPT ![Subject(r)] = home[picked[r].binding[1]]]
EnqueueSettlement(r) == billed' = [billed EXCEPT ![r] = picked[r].binding]

(* Mutant: the settlement task is enqueued before the error is looked at. *)
RequestFailsBilled(r) ==
    at[r] = "send" /\ EnqueueSettlement(r) /\ Return(r, "error") /\ UNCHANGED <<affinity, answered>>

(* ... or fails for good, which leaves the affinity as it is. *)
RequestFails(r) == at[r] = "send" /\ Refuse(r)

(* Handle: DoResponse fills a buffer; a task is enqueued only with usage   *)
(* and status 200, and an error is returned only with an empty body.       *)
BufferedResponse(r) ==
    /\ at[r] = "respond" /\ r \notin Stream
    /\ SetAffinity(r)
    /\ \/ EnqueueSettlement(r) /\ Return(r, "ok")
       \/ UNCHANGED billed /\ \E what \in {"ok", "error"} : Return(r, what)
    /\ UNCHANGED answered

(* HandleStream: DoResponse writes to the client as the chunks come, the   *)
(* task is always enqueued, and an error is returned even after chunks.    *)
StreamResponse(r) ==
    /\ at[r] = "respond" /\ r \in Stream
    /\ SetAffinity(r)
    /\ EnqueueSettlement(r)
    /\ \E what \in {"ok", "error", "chunks then error"} : Return(r, what)
    /\ UNCHANGED answered

(* AffinityTTL: an entry older than 30 minutes counts as absent. *)
AffinityExpires(us) ==
    /\ affinity[us] # None
    /\ affinity' = [affinity EXCEPT ![us] = None]
    /\ UNCHANGED <<at, format, cands, picked, calls, reply, billed, answered>>

(* Steps that wait for nobody, and those that take an upstream and, for a  *)
(* stream, the client.                                                     *)
OwnStep(r) ==
    \/ ResolveModelSpec(r) \/ ModelNotFound(r)
    \/ LoadCandidates(r) \/ NoCandidates(r)
    \/ Pick(r) \/ PickFails(r)

PeerStep(r) ==
    \/ RequestAnswered(r) \/ Retry(r) \/ RequestFails(r)
    \/ BufferedResponse(r) \/ StreamResponse(r)

Step(r) ==
    \/ \E path \in Path : Arrive(r, path)
    \/ Rejected(r)
    \/ OwnStep(r)
    \/ PeerStep(r)

GatewayNext ==
    \/ \E r \in Request : Step(r)
    \/ \E us \in User \X ModelSpec : AffinityExpires(us)

Observe ==
    seen' = [r \in Request |-> IF at'[r] \in {"new", "done"} THEN {} ELSE seen[r] \cup Servable']

Next == \/ CatalogueNext /\ UNCHANGED gateway /\ Observe
        \/ GatewayNext /\ UNCHANGED catalogue /\ Observe

Goes(r) == OwnStep(r) /\ UNCHANGED catalogue /\ Observe
IsServed(r) == PeerStep(r) /\ UNCHANGED catalogue /\ Observe

(* A goroutine that handles a request goes on.  An upstream call ends by   *)
(* the Timeout of the HTTP client (http_client.go:29), but the client for  *)
(* streams has none, and most handlers read a stream, and all write it,    *)
(* without a deadline of their own.                                        *)
Spec ==
    /\ Init /\ [][Next]_vars
    /\ \A r \in Request : WF_vars(Goes(r))
    /\ \A r \in Request \ Stream : WF_vars(IsServed(r))

-----------------------------------------------------------------------------
(* A request is sent only to a binding that has been in service, with its  *)
(* key and its channel, at some moment since the request arrived: neither  *)
(* the affinity map nor a retry brings back a channel that was closed      *)
(* before (handler.go:144, handler.go:228).                                *)
PickedWasServable ==
    \A r \in Request : at[r] \in {"send", "respond"} => picked[r].binding \in seen[r]

(* A settlement task names a binding on a channel that has answered this   *)
(* user for this model: whoever is paid has served, also when candidates,  *)
(* affinity and retries change between the choice and the answer           *)
(* (handler.go:209, handler.go:260, handler.go:464).                       *)
BilledIsAnswered ==
    \A r \in Request : billed[r] # NoBinding =>
        <<UserOf[r], SpecOf[r], home[billed[r][1]]>> \in answered

AwaitsPeers(r) == r \in Stream /\ at[r] \in {"send", "respond"}
PeersGoOn == \A r \in Stream : WF_vars(IsServed(r))

(* Every request is answered, whatever the catalogue does meanwhile, only  *)
(* a stream may wait for its upstream or its client; and so is every       *)
(* stream whose upstream sends or closes and whose client reads            *)
(* (handler.go:212, handler.go:418).                                       *)
EveryRequestEnds ==
    /\ \A r \in Request : at[r] # "new" ~> at[r] = "done" \/ AwaitsPeers(r)
    /\ PeersGoOn => \A r \in Request : at[r] # "new" ~> at[r] = "done"

(* relay.go:52: an error is written to the client only before the first    *)
(* byte of the stream.                                                     *)
ErrorBeforeFirstByte == \A r \in Request : reply[r] # "chunks then error"

(* channel.go:184: only pending channels can be reviewed. *)
OnlyPendingIsReviewed ==
    [][\A i \in Item : item'[i] # item[i] /\ item'[i] # "deleted" => item[i] \in {"absent", "pending"}]_vars
-----------------------------------------------------------------------------
(* Why a request may trust what it has loaded: candidates come from what   *)
(* it has seen in service, a key once created keeps its channel, and an    *)
(* answer that is being handled has been given.                            *)
SeenThenUsed(r) ==
    /\ \A b \in seen[r] : key[b[1]] # "absent"
    /\ at[r] = "pick" => \A c \in cands[r] : c.binding \in seen[r]
    /\ at[r] = "respond" => <<UserOf[r], SpecOf[r], home[picked[r].binding[1]]>> \in answered
    /\ billed[r] # NoBinding => key[billed[r][1]] # "absent"

(* Before the candidate is called the last time, a call is left. *)
CallsAreBounded(r) ==
    /\ at[r] = "send" => calls[r] <= MaxRetries
    /\ at[r] \notin {"send", "respond"} => calls[r] = 0

(* The inductive invariant of the gateway over its catalogue. *)
GatewayInv ==
    /\ TypeOK /\ OnlyApprovedItemsServe /\ FailuresAreCounted
    /\ PickedWasServable /\ BilledIsAnswered
    /\ \A r \in Request : SeenThenUsed(r) /\ CallsAreBounded(r)
=============================================================================
