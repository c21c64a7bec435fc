# Token Flux: a TLA+ development

Token Flux (`src/server`) resells LLM capacity: consumers call an
OpenAI/Anthropic-compatible gateway with prepaid credits, providers contribute
upstream API keys, the platform takes a commission. One Go process (GoFrame)
serves the user API (:8080), the gateway (:8081) and the admin API (:8082) over
one PostgreSQL database (READ COMMITTED) and a Redis list that carries
settlement tasks from requests to background workers. Several such processes may
share the database.

This directory holds TLA+ modules translated from that code, the TLC
configurations that check them on small instances, and TLAPS proofs of the
properties that matter most.

## 1. Inventory

| Component | Source (under `src/server`) | State | Operations | What is hard |
|---|---|---|---|---|
| Ledger | `internal/logic/billing/billing.go`, `internal/logic/settlement/ledger.go` | `accounts` (balance, version), `transactions`, `transaction_entries` | EnsureAccount, CreditAccount, DebitAccount, postLedger | concurrent read-modify-write under optimistic locking; several rows per transaction, locked in caller order |
| Settlement records | `internal/logic/settlement/settlement.go` | `settlement_records` (pending, settled, failed; UNIQUE(ref_type, ref_id)) | CreateRecharge, RestoreOverdraftKeys; Submit, Settle, SubmitAndSettle without a live caller | lookup outside the transaction that inserts |
| Settlement queue | `internal/relay/handler/queue.go`, `queue_redis.go` | Redis list, retry count of a task, usage records, pending records with `settle_at` | EnqueueSettlement, worker loop, processSettlement, disableOverdraftKeys, ProcessSettlements | crash between pop and commit, retries, debit outside the transaction, payout scan by several callers |
| Payment orders | `internal/logic/payment/payment.go` | `payment_orders` (pending, paid, credited) | CreateRecharge, notify handlers, confirmOrder | duplicated and concurrent notifications, crash between two updates |
| Gateway request | `internal/controller/gateway/relay.go`, `internal/relay/handler/handler.go` | per request; quota counters of keys and bindings | checkBalance, resolveModelSpec, loadActiveCandidates, retry loop, enqueueSettlement, updateQuotaSync | what was read at the start is used after the upstream's answer; retry on one channel; check and use of the quota are far apart |
| Scheduler | `internal/relay/scheduler` | affinity map with a TTL | Select, Get, Set, Delete, ShouldRetry | health bands and weights; a map shared by all requests |
| Catalogue | `internal/logic/llm` | channels, model specs, keys, bindings, their statuses and failure counts | create, review, bind, test, disable, delete | reviews and tests read, wait and write |
| Request conversion | `internal/relay/channel`, `registry.go` | none | 24 adaptors: convert a request, build a URL, read an answer; six conversions between OpenAI, Claude, Gemini and Responses | order and speakers of a conversation; three places that must agree on a format |
| Streams | `internal/relay/channel/*/…response.go`, `openai/converter.go` | the local variables of a handler | eleven translations of a stream while it arrives | any order of texts, thoughts and calls; a stream that ends anywhere |
| Stream scanner | `internal/relay/helper/stream_scanner.go`, `internal/relay/common/stream_status.go` | channels, timer, end reason | scanner, data handler, ping, shutdown | four goroutines, one stop channel, timeouts |
| Pricing | `handler.go` (computeCost), `queue.go` (calcRevenue) | none | cost, revenue, commission | remainders; cached tokens, which are a part of the prompt or beside it |
| Identity | `internal/logic/identity`, `internal/middleware`, `internal/controller/api/admin/user.go` | users, verification codes, applications, shares, tokens, API keys | register, verify, log in, review, change status, role and share | several statements without a transaction |
| Provider node | `cmd/node` | key pool of the router, tunnel | Register, Pick, Connect, readLoop, ExecuteStream | a lock given up between read and write, slices that share arrays, two channels closed in turn |
| Wallet, invoices, developer, system configuration | `internal/logic/{wallet,invoice,developer,systemconfig}` | requests and settings | create, update status | little |
| Overrides, helpers, proxied clients | `internal/relay/override`, `internal/relay/helper`, `http_client.go` | a cache of clients | rewriting of requests, sanitizing, system prompts | nothing calls them but their tests |

Interactions: a gateway request checks the balance (ledger), takes its
candidates from the catalogue and one of them from the scheduler, converts its
body with the channel's adaptor, calls the provider, translates the answer
(streams, on the stream scanner or in a loop of their own), prices the usage and
pushes a task on the queue; a worker turns the task into a usage record and a
pending settlement record, debits the consumer (ledger) and disables the
consumer's API keys when the debit fails; seven days later ProcessSettlements
credits the provider (ledger). A payment notification credits the consumer
through CreateRecharge (settlement records, ledger) and restores the disabled
keys. Who may create channels and keys, and earns by them, is a matter of
identity. The provider's node stands on the other side: it takes requests from
local programs and, by a websocket, from the platform.

What makes each correct: balances are explained by entries and no update is lost
(ledger); a recharge credits once (settlement records, payments); every request
that was served is charged once, and every provider is paid (queue); a request
goes to what is in service, its answer is billed to who gave it, and it ends
(gateway, scheduler, catalogue); a conversation keeps its order and its speakers
(conversion); the client hears all of an answer, once, in well-formed blocks,
and pays for it as for the unstreamed one (streams); every goroutine ends and
the client sees one ending (stream scanner, node); nobody has a standing without
a reason, and success is complete (identity).

## 2. Plan

Done: all of the components above but the last two lines.

Open, in this order:

1. Of `RequestPath`, proofs for any number of turns of the four invariants about
   what a conversion keeps that are model-checked only (section 6).
2. API keys in `Identity`: creation and deletion, single statements each, as the
   third party to the disabling and restoring in `SettlementQueue`.
3. `Submit` and `Settle`, as soon as anything calls them.

Abstract specifications: `AtomicLedger` (what the ledger promises) and `Delivery`
(what every relay of a stream promises); the second is implemented by
`StreamConverters` and by `Node`.

## 3. Modules and how they correspond to the code

| Module | Models | Composition |
|---|---|---|
| `AtomicLedger` | what the ledger promises: an operation posts all its entries at once, on the balances of one moment, if it is admissible and covered | abstract specification |
| `Ledger`, `LedgerProofs` | `billing.go`, `ledger.go`, statement by statement, over PostgreSQL row locks at READ COMMITTED | EXTENDS `AtomicLedger`, implements it with the identity mapping on `acct` |
| `SettlementQueue`, `SettlementProofs` | the end of a request (`handler.go`), the Redis list, the workers (`queue.go`), quota counters, overdraft keys and their restoration by a recharge | the ledger's operations are atomic here |
| `Recharge` | `payment.go` orders and notifications, `RechargeCredits`, `CreateRecharge`; its theorems are in `LedgerProofs` | `postLedger` is one step of `PostRecharge` |
| `Payout`, `PayoutProofs` | `ProcessSettlements`, its ticker and the pass at shutdown | `CreditAccount` is one step of `PayProvider` |
| `StreamScanner` | `stream_scanner.go`, `stream_status.go`, `stream_result.go`, the end of `openai/stream.go`; its theorems are in `StreamProofs` | the number of handled chunks stands for the usage that `SettlementQueue` receives |
| `Scheduler` | `scheduler.go`, `healthScore`, `detect_format.go`, the protocol part of `registry.go`, as operators | used by `Catalogue` |
| `Catalogue` | `logic/llm` and the handlers that call it | EXTENDS `Scheduler` |
| `Gateway`, `GatewayProofs` | a request from `relayProxy` to its answer, the affinity map, retries | EXTENDS `Catalogue`: requests and administration interleave |
| `Conversions` | the conversions of a request between four formats, as operators on messages of parts | used by `Adaptors` |
| `Adaptors` | the adaptors of the registry: which format each sends, to which endpoint, and how it reads the answer | EXTENDS `Conversions` |
| `RequestPath` | a conversation that grows turn by turn and is sent through one adaptor; its theorems are in `GatewayProofs` | EXTENDS `Adaptors` |
| `Pricing` | `computeCost`, `calcRevenue`, the commission; its theorems are in `PayoutProofs` and `StreamProofs` | used by `StreamConverters` |
| `Delivery` | the upstream says pieces, the client hears them in order and is told at most once that it is over | abstract specification |
| `StreamConverters`, `StreamProofs` | eleven stream handlers, the unstreamed one beside each, the finish reasons of `reasonmap.go` | EXTENDS `Pricing`, implements `Delivery` |
| `Node`, `NodeProofs` | `cmd/node`: router, server, tunnel, provider | implements `Delivery` for each request |
| `Identity`, `IdentityProofs` | `logic/identity/user.go`, tokens, `SetProviderShareBps`, `requireProvider` | |
| `FoldLemmas` | lemmas about the folds of the community modules | used by `LedgerProofs`, `SettlementProofs`, `StreamProofs` and `GatewayProofs` |
| `MCLedger`, `MCSettlementQueue`, `MCRecharge`, `MCPayout`, `MCGateway`, `MCStreamConverters`, `MCIdentity` | the instances TLC checks | |

**Ledger.** `acct` holds the committed rows: balance, version and, as `log`, the
entries that refer to the account. A goroutine is between two SQL statements:
`QueryAccount` (SELECT, sees committed rows and its own), `InsertAccount` and
`InsertConflict` (EnsureAccount and the INSERT of `postLedger`),
`UpdateAccount` (UPDATE with the version predicate and the INSERT of the entry),
`VersionConflict`, `Insufficient`, `Commit`, `Rollback`. `draft` and `held` are
the transaction's own view and its row locks; `Blocked`, `WaitsFor` and
`DeadlockVictim` are PostgreSQL's.

**SettlementQueue.** A request is admitted on a balance check, served, turned into
a task and metered (`Admit`, `EnqueueSettlement`, `UpdateQuotaSync`,
`SyncQuota`). A worker goes from `Dequeue` through `CountTokens`, `RecordUsage`,
`Debit`, `DisableOverdraftKeys`, `MeterLazy` and `SaveChatLog`, with a failure
action for each statement that can fail; `doubt` counts commits whose worker was
told they failed, the one way in which a request is recorded twice; `lost` notes
the tasks that went with a failing Redis or the process. A task is
its request and its retry count; amounts are small numbers.

**Recharge.** A ref is a `(ref_type, ref_id)`, an order's own or any other, and
nothing keeps them apart: the endpoints pass on what they are given, an order's
ref included, and recharges that give none share one. `given`, a history of the
calls of CreateRecharge, tells whether a call was the only one to give its ref.
`pend` is the uncommitted row that makes a second INSERT of the ref wait. A
concurrent duplicate ends in an error: the lookup after the failed INSERT runs
in a transaction that PostgreSQL has aborted.

**Payout.** `rows` is what one pass has read; the rows have no ORDER BY and are
taken in any order. `due` stands for `settle_at <= now`.

**StreamScanner.** One action for each statement at which a goroutine can be held
up. A channel is the number of its elements. `resetChan` and the timer are one
guard: the idle timeout fires only while the scanner reads nothing. Closing
`dataChan`, `wg.Done` and the token of an exiting goroutine are one step; no
other goroutine can tell them apart except by taking steps that commute with
them.


**Scheduler, Catalogue, Gateway.** An item (a channel or a model spec), a key and
a binding have the statuses the code writes. Reviews are two statements
(`BeginReview`, `EndReview`): the status is asked for once and overwritten later.
A test (`BeginTest`, `EndTest`) waits for the upstream in between. `Servable` is
the join of `loadActiveCandidates`; nothing but an operator's SQL makes a key or
a binding active (`OperatorActivates`). `Select` yields the set of candidates that
a random draw, the order of a map or the order of rows may choose. A request goes
through `Arrive`, `ResolveModelSpec`, `LoadCandidates`, `Pick`, `RequestAnswered`,
`Retry` or `RequestFails`, and `BufferedResponse` or `StreamResponse`; retries go
to the candidate that was picked. `seen` and `answered` are histories: what was in
service since the request arrived, and who has answered whom. The protocol
`azure-openai`, with which a channel may be created (`dto/llm.go:12`), is unknown
to `GetByProtocol` (`registry.go:112`); `PickFails` stands for that, too.

**Conversions, Adaptors, RequestPath.** A conversation is a sequence of turns, a
turn's parts are texts, images (data or links), thoughts, calls and results. A
client encodes it in its format (the encoders are external: clients are not in
the repository); `DoRequest` takes a vendor's adaptor, which passes or converts the
body, and `DoResponse` writes the answer. `Told` reads the sent body as the vendor does. What the converters are known
to leave out is named in `KnownLoss`; everything else must arrive. The handler
always asks for the chat mode (`handler.go:187`, `:393`), and the gateway routes
only OpenAI's paths and `/v1/messages`; bodies of Gemini and Responses clients
reach the converters, which handle them, but no route brings them. The adaptors
of coze, dify, jimeng, codex and submodel are found by provider type only, which
nothing looks up. `ThinkingEnabled`, `ReasoningEffort` and `UseResponsesAPI` are
set by no code and are left out here.

**StreamConverters.** A handler reads a line (`kind` and what it carries), writes
the events it makes of it (`todo`, then `out`), and reads the next; the upstream's
protocol says which line may follow, and the stream may be cut, broken, failed or
abandoned anywhere. Beside each handler stands the unstreamed one of the same
vendor and client, with which `StreamAgreesWithWhole` compares the bill and the
finish reason. Tokens are small numbers. `responses to openai` runs only with
`UseResponsesAPI`, which nothing sets; its stream keys arguments by item id and
calls by call id, so the arguments arrive on a nameless call, and
`response.incomplete` is unknown to it. Not modelled: the pings, which are written
beside the events without a lock (`helper/stream.go:85`).

**Delivery** is what `StreamConverters` and `Node` implement: `heard` is a prefix of
`said`, and `over` is counted once, behind everything that was said. In `Node` the
mapping is made for each request.

**Pricing.** `ComputeCost` and `CalcRevenue` are operators on naturals; every
division drops its remainder.

**Node.** The router's lock is a set of readers and a set of writers that wait
(writers go first, as in Go). A slice is a window on an array in `mem`; `AppendKey`
extends it in place when there is room and moves it otherwise, which is what makes
`Pick`, which reads under one lock and writes back under another, worth checking:
it may drop a key that was registered in between. `ExecuteStream`'s goroutine and
its two channels are the `producer`; its deferred calls close `errs` first. The
read loop serves one request at a time; `Connect` registers the bindings that
`main` has registered already (a failed query of them counts as none, and the
tunnel is up at once), and a failed or lost connection is final.

**Identity.** Each statement is an action, `Fail` may come before any of them, and
handlers overlap. `proved`, `granted`, `acted`, `was` and `told` are histories. There is no way
to get a second code: a registrant whose code was not stored or has expired is
stranded, and only an administrator can activate the account. A half-failed
review cannot be repeated, since the application is no longer pending; two
reviewers may both decide. `SetProviderShareBps` takes any error of its INSERT
for an existing row, and the UPDATE that follows succeeds on zero rows: success
without a share, which is why `SuccessIsComplete` says nothing of shares. The
share that is then assumed is 70% where it is shown (`GetProviderShareBps`) and
80% where it is paid (`calcRevenue`).

## 4. Runs

`pass` runs (the bounds in brackets):

| Run | Shows |
|---|---|
| `ledger` (two goroutines, two users and the platform, nine operations, none starts once a version exceeds `MaxVersion` = 1) | `StatementsAddUp`, `DebitsAreCovered`, `CreditsAreConserved`, that the code implements `AtomicLedger`, and `EveryCallReturns` |
| `queue` (two requests, two workers, one retry, every fault) | `RecordedOnce`, `ChargedOnce`, `MeteredOnce`, `NoTaskForgotten`, `EveryTaskLeaves` |
| `recharge` (three handlers, one order, two different recharges, every fault; the order's ref is the only one, and whoever recharges may give it) | `CreditedOnce`, `OrderMatchesLedger`, `SuccessIsCredited`, `EveryHandlerEnds` |
| `payout` (three records, one without revenue, two scanners, two faults) | `SettledIsPaid`, `RepeatsAreBounded`, `DueIsSettled` |
| `stream` (three lines, a data channel of one, every event) | `DoneIsComplete`, `OneWriter`, `EveryStreamReturns`, `AllGoroutinesEnd` |
| `gateway` (two channels, two keys, one model, one user with two requests, one of them a stream, one reviewer, two testers; `MaxOps` = 2, `MaxRetries` = 1) | `PickedWasServable`, `BilledIsAnswered`, `FailuresAreCounted`, `OnlyApprovedItemsServe`, `EveryRequestEnds` (a stream only while its upstream and its client go on) |
| `streams` (eleven handlers, every stream of up to `MaxLines` = 6 lines, two `Prices`, one of them with cached tokens above the others) | `BlocksAreBracketed`, `EndsAsReported`, `StreamAgreesWithWhole`, that each handler implements `Delivery` |
| `requests` (`MaxTurns` = 4, clients of four formats, 27 values for the vendor, two functions) | `SpeakersAreKept`, `TurnsAlternate`, `ConversationArrives` (`NothingElseIsLost` and `OrderIsKept`), `CallsAndResultsPair` (`ResultsAnswerTheirCalls` and `CallsAreAnsweredAtOnce`), `HopsSpeakOneFormat` |
| `node` (a local and a remote request, one key, `MaxChunks` = 2, `ChunkCap` = 1) | `PoolServes`, that each request is served as `Delivery` says, `EveryRequestEnds` (what it writes, only while its peers read) |
| `identity` (one address, two applications, two handlers) | `StandingIsEarned`, `SuccessIsComplete` |

`TypeOK` states the types of a module's variables where they are more than sets of
locals; those of the modules with proofs are theorems. Runs
with liveness use no symmetry; `identity` has none and permutes its applications
and handlers, which the specification never tells apart.

Why the bounds are enough to be interesting. Ledger: a lost update, a stale
sufficiency check and a lock cycle need two transactions on one row, and a
balance to spend needs one that commits before them; the theorems of section 6
cover any number of goroutines and versions. Queue: one retry distinguishes a first,
a repeated and a last attempt; two workers and two requests give every overlap
of a retry with another task. Recharge: a waiting, a posting and a late handler
are three; a handler has one ref, and refs meet nowhere else, so that one is enough, which is the
order's own, is given by the endpoints before and after the order exists, and by two recharges. Payout: overlap needs two scanners, and three rows distinguish
the first, a middle and the last of a pass. Stream: with a channel of one, three
lines are what it takes to have one chunk with the data handler, one in the
channel and the scanner blocked on the third. Gateway: the catalogue starts
empty, under review or in service, so that two operations are enough to close
or replace what a request has chosen, and the two channels differ in weight and
protocols; a second request of the same user meets the affinity of the first.
Streams: six lines let every block kind be opened, changed and reopened before
the end. Requests: in four turns a system text, a question, a call and its result follow
each other, and two turns of one side are neighbours. Node: a channel of one
fills with two chunks; two requests contend for one slice while a binding and
the connection register. Identity: two applications of one user and two
handlers make two reviewers, and a registration beside a verification.
`CHECK_DEADLOCK FALSE` stands where the system really stops: everything is
settled, answered or sent, the stream has ended, or the node has died.

`violation` runs state what a comment or document says and show a behaviour of
the code that does otherwise; the findings in `PROJECT.json` quote the line.

| Run | Claim | What happens |
|---|---|---|
| `recharge_ack` | orders that are acknowledged are credited | a failed recharge leaves the order paid, the repetition is answered by success |
| `streams_billed` | Claude's cached tokens are counted beside the prompt (`relay/common/usage.go:29`) | `computeCost` takes them for a part of it, and bills none of them when they outnumber it |

Statements that are known not to hold; their formulas stay in the modules, for
whoever changes that code:

| Formula | Statement | What happens |
|---|---|---|
| `SettlementQueue!AcceptedTasksAreKept` | tasks survive a restart | BRPOP has removed the task a worker holds |
| `SettlementQueue!OverdraftMeansOverdrawn` | `overdraft` means overdraft | any error of the debit disables the keys |
| `SettlementQueue!RechargeRestoresKeys` | a recharge restores the keys | it may come between the refused debit and the disabling |
| `Recharge!EverySuccessIsCredited` | a recharge answered by success adds its credits (`billing.go:410`) | a second recharge of the same ref, or without one, is answered with the first one's transaction (`settlement.go:284`) |
| `Payout!PaidOnce` | a usage record is settled once | two passes pay the same row |
| `StreamScanner!StopReachesMain` | a stop reaches the main goroutine | the ping goroutine takes the token |
| `StreamScanner!BilledAfterStream` | settlement follows the end of the stream | the data handler outlives the shutdown and writes behind `[DONE]` |
| `Gateway!ErrorBeforeFirstByte` | an error is written before the first byte | an interrupted stream returns its error behind the chunks |
| `Gateway!OnlyPendingIsReviewed` | only what is pending is reviewed | two reviews that have read the pending row both write, the second over the first |
| `RequestPath!NothingIsMadeUp` | a converted request says what the client said | `<nil>` for a message without content (`claude/converter.go:280`) and a printed pointer for a text (`:256`) |
| `RequestPath!AllowedChannelsAreServed` | a channel of an allowed protocol is served | `azure-openai` has no adaptor |
| `Node!StreamsAreForwarded` | a stream that ended in order is forwarded | `errs` is closed first, the handler takes its nil and panics (`provider.go:59`); in the read loop this ends the process |

Also seen while modelling, without a formula of their own: an increment of quota that
does not fit the limit is dropped (`handler.go:780`); the paid mark of a slower
notification may put a credited order back to paid, which the ref then keeps
from being credited again (`payment.go:461`); a callback
that panics leaves `writeMutex` locked, which `AllGoroutinesEnd` has to except
(`stream_scanner.go:167`); a cancelled context may be reported as `eof`
(`stream_scanner.go:149`); an error of `DoRequest` is wrapped, so that the type
assertions of `IsRetryable` do not see what it was (`retry.go:46`); a request
converted for a channel without a mapped model carries an empty model; the
cached tokens of an OpenAI stream are dropped where it is translated for a Claude
client (`openai/claude_response.go:333`), and where the body of that stream ends without
`[DONE]`, the client gets no `message_delta` and hears no reason (`:319`,
`TellsNoReason`); nothing bounds the price of a cached token by that of another
(`model/dto/llm.go:171`), so that a stream which forgets the cached tokens may be the cheaper
one; a `function_call_output` given as a list is dropped with its whole item
(`openai/converter.go:701`); an unstreamed answer whose usage has no
details is dereferenced (`openai/claude_response.go:423`, `openai/responses.go:146`); the node's client has no timeout
(`http.DefaultClient`), and nothing calls `Unregister`.

## 5. Fairness

No fairness is assumed of callers, consumers, providers' upstreams or faults.
`FairLSpec`: a goroutine inside an operation keeps running, and PostgreSQL, which
queues the waiters of a row, serves one whose row is free again and again
(strong fairness). `SettlementQueue!FairSpec`: workers loop while the process
runs, and BRPOP serves them; whether a step succeeds or fails is not assumed.
`Recharge!FairRechargeSpec`: handlers go on; an INSERT that waits for transactions which
end again and again is let through (strong fairness, the same reason); no failure
is forced to happen. `Payout!FairSpec`: the ticker fires every five minutes for
as long as a process runs and a pass goes on; faults are bounded by `MaxFaults`.
`StreamScanner!FairScanSpec`: the goroutines are scheduled and the two timers fire;
writes to the client may block for ever in `EveryStreamReturns`, and are assumed
to end (`ClientReads`) in `AllGoroutinesEnd`. `Gateway!Spec`: a request's
goroutine goes on where it waits for nobody (`OwnStep`). An unstreamed call ends, by an
answer or by the 300 seconds of its HTTP client (`http_client.go:29`), and its answer goes to a
buffer. The client for streams has no such limit (`:33`), most handlers read the
upstream with a bare scanner, and all write to the client as they read: a stream's
upstream steps are not fair. `EveryRequestEnds` says that nothing but such
a step holds a request back, and that under `PeersGoOn` every request ends.
`Node!Fairness`: goroutines that can run do; the
upstream, the clients and the platform promise nothing, so that the steps of an upstream
and the writes to a client or the websocket (no WriteTimeout in `server.go:38`, no deadline in
`tunnel.go:132`) are not fair. A request that waits for an upstream is at rest; that one
which is writing comes to rest is claimed under `PeersRead` only. `StreamConverters`, `RequestPath` and
`Identity` state no liveness: they are loops over their input, or statements any
of which may be the last.

## 6. Proofs

The proofs about specifications are of the form `Init => Inv`,
`Inv /\ [Next]_vars => Inv'`, `Inv => property`, one step for each action.

- `LedgerProofs` (`LedgerInv`; for any accounts, goroutines and operations):
  `NoLostUpdate`, `NoOverdraft`, `AppendOnlyHistory`, `LedgerTypeCorrect`,
  `CreditsConserved` and `LedgerIsAtomic`, the refinement of `AtomicLedger`. The
  balances alone are not inductive. The invariant adds that row locks exclude
  each other, that a draft continues what is committed, and the point of
  optimistic locking: a row that still has the version that was read still has
  the balance that was read (`SameVersionSameBalance`). For the refinement,
  `WritesFollow` says what a transaction has written so far: each entry it has left
  behind stands in the draft of the account it names, at its place among that account's
  entries (`Named`, `Follows`), and no other row is held. `Commit` is then `Post` or
  `Open`, or stutters where an account was found; every other step stutters. An account
  that a settlement names twice is where the places matter. Conservation is
  about all accounts at once: `DraftsMoveCredits` says what the drafts of a
  goroutine will have moved when it commits, and a `Commit` adds exactly this to the sum
  over the accounts. Assumptions: what
  `OpAssumption` says of operations (their kinds; their entries name accounts and
  amounts; all but settlements and recharges have one entry), and that the
  accounts are finite in number (`AccountAssumption`; a sum runs over them).
- `LedgerProofs`, of `Recharge` (`RechargeInv`; any callers, credits, refs, orders, faults):
  `RechargeIsIdempotent`, `OrdersAgreeWithLedger`, `SuccessMeansCredited`,
  `RechargeTypeCorrect`. It adds that who is between INSERT and COMMIT holds the
  ref and the ref has no record (`PosterHoldsRef`), that who is about to
  mark an order credited has seen its record, and that every record is that of a
  call which gave its ref (`RecordsAreCalls`, `OrdersGiven`). No ref is assumed to be
  an order's alone: where another recharge gave it, the theorems promise a credit
  to one of the two.
- `SettlementProofs` (`QueueInv`; any requests, finitely many workers, any faults,
  limits and retry count): `RequestsAreRecordedOnce`, `RequestsAreChargedOnce`,
  `AcceptedTasksStay`, `QuotasAreKept`,
  `RequestsAreMeteredOnce`. None of them is inductive: a task that is
  put back could be debited again. The invariant balances rights against uses. A
  usage record that was confirmed entitles to one debit and, of a lazy request,
  to one count on each meter; a worker at the debit still holds the right to it, one
  beyond it does not (`WorkOK`). Before a request is settled nothing of it is recorded,
  and a request that is not lazy is metered by the request path only (`PathOK`).
  That a counter is the sum of what it counted (`CountersAddUp`) needs the requests to
  be finite in number (`RequestAssumption`) and each to be counted at most once.
- `PayoutProofs` (`PayoutInv`; any records, scanners, number of faults):
  `NoRevenueLost`, `DisputeWindowKept`, `RepeatedPayoutsAreBounded`,
  `PayoutTypeCorrect`. It adds that a scanner holds due rows only and that the row
  between credit and mark is paid. For the bound on repeated payouts it counts: each
  credit beyond the first of a record is owed to a scanner that had read the row
  before it was marked, or to a fault (`RepeatsAreCounted`, for finitely many scanners).
  Of `Pricing`, for all naturals: `RevenueIsAPart`, a provider's revenue and
  the platform's commission are parts of the cost as long as the share is at most
  10000 basis points.
- `StreamProofs`, of `StreamScanner` (`StreamInv`; any number of lines, any channel
  sizes, any events): `DoneStreamsAreComplete`, `WritersExclude`, `StreamTypeCorrect`. The
  core is a count: every line that was read is skipped, handled, in `dataChan`
  or in the hands of the scanner or the data handler until one of them gives up
  (`NoLineLost`), and the data handler ends only on an empty, closed channel.
- `StreamProofs`, of `StreamConverters` (any of the eleven handlers, any stream of any
  length). `ConverterInv` gives `BlocksBracketed` and `ConvertersDeliver`, the
  refinement of `Delivery`. It relates what a handler has in its locals to what it
  has made so far, written or still to be written (`Made`): the call it names is known
  (`CallIsKnown`), what the upstream said is what was made (`SaidIsMade`), the end is
  the last event (`EndIsLast`), and the block it believes open is the one that is
  (`BlockIsOpen`). To read a line is then `Say`, to write a piece is `Hear`, to write
  the end is `Close`. `EndInv` gives
  `AnswersEndAsReported` and `StreamsAgreeWithWhole`: which usage and which reason
  were reported (`UpstreamIsKnown`), that the locals still hold them
  (`UsageIsKept`, `ReasonIsKept`, `PartsAreKept`), what of them a client may have been
  told (`ReasonIsSaid`), by when it has been told a reason, and where it never is
  (`ReasonIsTold`), and what was billed (`ReturnsTheBill`). A stream is never
  cheaper than the whole answer by `ForgettingCacheNeverSaves`, a lemma on
  `ComputeCost`: a usage whose cached tokens are not known never costs less than the
  same usage with them, as long as a cached token costs no more than another. No code
  sees to that, so it is no assumption on the constants but a premise inside
  `StreamAgreesWithWhole`, for each price.
- `GatewayProofs` (`GatewayInv`; any catalogue, any requests, any outcome of the
  calls): `RequestsGoToServedBindings`, `ThePaidHaveAnswered`, `FailuresAreExact`,
  `ServiceIsApproved`. A step of a request and a step of an administrator or a tester may
  come in any order; the invariant says which of the things a request has read cannot be
  taken back. What was seen in service names a key that exists, a key never
  changes its channel, and the candidate that is called was seen (`SeenThenUsed`); the
  retries are counted (`CallsAreBounded`). That the failures of a binding are the streak
  of its results is a lemma on sequences and cardinalities.
- `GatewayProofs`, of `RequestPath` (conversations of any length, any tools, any
  vendor): `EveryHopSpeaksOneFormat`, `SpeakersAreKeptAlways`, `TurnsAlternateAlways`.
  All three rest on `SentIsConverted`, which says that what the vendor has is the
  conversation converted by the adaptor that will write the answer. The vendors have ten
  different adaptors; each is looked at once. The other two rest on `TurnsAreKnown`, too
  (a token names the turn it was said in). The argument about speakers types every
  format: `PartsFrom(role)` are the parts that a message of a role may have, their tokens said
  by whom the vendor takes that role for. Each encoder makes messages of such parts
  (`EncodedTyped`), each converter to OpenAI's format keeps them (`ToOpenAITyped`), and so
  does each converter from it (`ConvertedTyped`); a result may be in a message of either
  side, because its kind says whose it is. Claude's roles alternate because `AddTo` never puts
  a message next to one of its role (`Alternating`).
- `FoldLemmas`: a sum over a finite set does not depend on the order
  (`SumSplits`, `SumChanges`, `SumsAdd`), a fold from the left goes through the
  elements one by one (`LeftFoldScans`), a concatenation has what its parts have
  (`FlattenMapped`), and what a test selects is a subsequence (`KeptInOrder`). What is folded is a function there, not an
  operator, and an induction is the search for a least counterexample; this is what brings
  folds over data within the provers' reach.
- `NodeProofs` (`NodeInv`; any requests and keys, any number of chunks, any channel
  capacity): `ThePoolServes` and `NodeDelivers`, the refinement of `Delivery` for every
  request. `PoolInv` is about arrays that several slices share: every slice, the pool's
  and those a `Pick` has read, lies inside its array and shows bound keys only; what is
  written in place lies behind every key that is shown, or puts a bound key in the place
  of another; an array is given up only when no slice shows it. `StreamInv` counts what
  is said against what is heard, in the hands of the handler, in the channel and in the
  hands of the goroutine, in order, for as long as answers arrive. One step of the
  refinement is `Say` (`UpstreamSays`), `Hear` or `Close` (`Answer`); every other step
  stutters.
- `IdentityProofs` (`IdentityInv`; any addresses, applications and handlers):
  `StandingNeedsAReason`, `SuccessMeansComplete`. It says what a handler between two of
  its statements knows, whatever the others have done meanwhile (`HandlerKnows`): the
  account it looked up is still there, the code it used up was entered, the application
  it approved is granted; and that one registration at most is between the
  account and its code.

Constants are sets of any size, with what the modules assume of them by name: workers
and scanners are finite in number (they are counted), names of different kinds are
different (an address is no application, a request no key), and bounds are naturals.

Proved only, and checked by no run: `AppendOnlyHistory`, `DisputeWindowKept`,
`QuotasAreKept` and the type theorems. Only model-checked: all liveness properties
(fairness and ENABLED are out of the prover's reach), and of `RequestPath`
`ConversationArrives` and `CallsAndResultsPair`: unlike who said a token, where it stands among the others is no
property of the message it is in, and each of the converters would have to be shown to keep it.

## 7. Not modelled

The components with status `not_modelled` in `PROJECT.json`, each with its reason.
In groups:

- Code that nothing calls: `ProxyChatCompletions` of the legacy proxy and with it
  `Submit`, `Settle` and `SubmitAndSettle`; overrides, sanitizing, system prompts,
  `ParamOverride`, `ParseThinkingSuffix`, `Path2RelayMode`;
  `ConvertOpenAIToResponses`; the clients with a proxy (a channel's `Settings` are
  never filled).
- Operations of one statement without a rule: wallet, invoices, API keys
  (creation and deletion), system configuration.
- Queries that change nothing; start-up and migrations; payment providers' pages
  and signatures; user interfaces; generated code.

Within the modelled components: the modes no route asks for, headers and sampling
parameters, the text of logs and errors, list queries, the amounts in fiat money,
passwords and the encryption of keys.
