-------------------------------- MODULE Node --------------------------------
(***************************************************************************)
(* The provider's node, cmd/node: requests come from local programs        *)
(* (server.go handleChat, a goroutine each) and from the platform through  *)
(* a websocket (tunnel.go readLoop, one at a time).  Each picks a key from *)
(* the router's pool, router.go Pick, and is forwarded to the upstream; a  *)
(* streamed answer is handed over through two channels by the goroutine of *)
(* provider.go ExecuteStream.  Keys join the pool when they are bound and  *)
(* again when the tunnel connects.  One model code; JSON is left out.      *)
(***************************************************************************)
EXTENDS Integers, Sequences

CONSTANTS
    Local,       \* requests of local programs
    Remote,      \* requests of the platform
    Keys,        \* the keys that are bound to the model, before or while it runs
    MaxChunks,   \* bound on the chunks of one answer
    ChunkCap     \* capacity of chunks (64 in the code)

Requests == Local \cup Remote
Connecting == "connect"   \* the goroutine of Connect

ASSUME NodeAssumption ==
    /\ Local \cap Remote = {} /\ Keys # {}
    /\ Requests \cap (Keys \cup {Connecting}) = {} /\ Connecting \notin Keys
    /\ "none" \notin Keys
    /\ MaxChunks \in Nat /\ ChunkCap \in Nat \ {0}

VARIABLES
    \* router.go
    mem,        \* the arrays behind the pool's slices
    keys,       \* the slice keys[modelCode]
    readers,    \* who holds mu for reading
    waiting,    \* who has called mu.Lock and not got it yet
    list,       \* the slice a Pick has read
    first,      \* the key at its head
    \* the requests
    pc,         \* where its handler is
    outcome,    \* how it ended
    said,       \* the chunks the upstream has sent
    heard,      \* the chunks the client has received
    over,       \* how often the client was told that the answer is over
    held,       \* the chunk the handler is writing
    \* ExecuteStream
    producer,   \* where its goroutine is
    chunks, chunksClosed, errs, errsClosed,
    \* the tunnel
    tunnel,     \* "connecting", "registering", "up", "lost" or "off"
    todo,       \* the bindings Connect has still to register
    bind,       \* where the goroutine of a binding or of Connect is
    inbox,      \* the requests the platform has sent
    down        \* whether the process has died of a panic

router == <<mem, keys, readers, waiting, list, first>>
handler == <<pc, outcome, said, heard, over, held>>
channels == <<producer, chunks, chunksClosed, errs, errsClosed>>
link == <<tunnel, todo, bind, inbox, down>>
vars == <<router, handler, channels, link>>

---------------------------------------------------------------------------
(* Go's slices: a window on an array, extended in place while the array    *)
(* has room, moved to a larger array otherwise.                            *)

Slice(arr, off, len) == [arr |-> arr, off |-> off, len |-> len]
NilSlice == Slice(0, 0, 0)
Room(s) == IF s.arr = 0 THEN 0 ELSE Len(mem[s.arr]) - s.off
At(s, i) == mem[s.arr][s.off + i]
TailOf(s) == Slice(s.arr, s.off + 1, s.len - 1)
Grown(s) == IF Room(s) = 0 THEN 1 ELSE 2 * Room(s)

(* keys[modelCode] = append(s, k); r has done with what it read.  Arrays   *)
(* that no slice shows any more are dropped and their place is used again. *)
AppendKey(s, k, r) ==
    LET read == {list[q].arr : q \in Requests \ {r}} \cup {s.arr}
        free == CHOOSE i \in 1 .. Len(mem) + 1 : i \notin read
        array == [i \in 1 .. Grown(s) |->
                    IF i <= s.len THEN At(s, i) ELSE IF i = s.len + 1 THEN k ELSE "unused"]
        moved == IF free > Len(mem) THEN Append(mem, array) ELSE [mem EXCEPT ![free] = array]
        fits == s.len < Room(s)
        arr == IF fits THEN s.arr ELSE free
        shown == {list[q].arr : q \in Requests \ {r}} \cup {arr}
        all == IF fits THEN [mem EXCEPT ![arr][s.off + s.len + 1] = k] ELSE moved
    IN  /\ keys' = IF fits THEN [s EXCEPT !.len = @ + 1] ELSE Slice(arr, 0, s.len + 1)
        /\ mem' = [i \in DOMAIN all |-> IF i \in shown THEN all[i] ELSE <<>>]

(* main has registered the bindings it found and started the server. *)
Init ==
    /\ \E known \in {{}, {CHOOSE k \in Keys : TRUE}} :
          /\ mem = [i \in 1 .. 1 |-> IF known = {} THEN <<>> ELSE <<CHOOSE k \in known : TRUE>>]
          /\ keys = IF known = {} THEN NilSlice ELSE Slice(1, 0, 1)
          /\ bind = [b \in Keys \cup {Connecting} |-> IF b \in known THEN "end" ELSE "idle"]
    /\ readers = {} /\ waiting = {}
    /\ list = [r \in Requests |-> NilSlice]
    /\ first = [r \in Requests |-> "none"]
    /\ pc = [r \in Requests |-> "idle"]
    /\ outcome = [r \in Requests |-> "none"]
    /\ said = [r \in Requests |-> <<>>] /\ heard = [r \in Requests |-> <<>>]
    /\ over = [r \in Requests |-> 0] /\ held = [r \in Requests |-> <<>>]
    /\ producer = [r \in Requests |-> "off"]
    /\ chunks = [r \in Requests |-> <<>>] /\ chunksClosed = [r \in Requests |-> FALSE]
    /\ errs = [r \in Requests |-> 0] /\ errsClosed = [r \in Requests |-> FALSE]
    /\ tunnel \in {"connecting", "off"}
    /\ todo = {}
    /\ inbox = <<>>
    /\ down = FALSE

Goto(r, where) == pc' = [pc EXCEPT ![r] = where]

---------------------------------------------------------------------------
(* Router.Pick *)

RLock(r) ==
    /\ pc[r] = "pick" /\ waiting = {}
    /\ readers' = readers \cup {r}
    /\ list' = [list EXCEPT ![r] = keys]
    /\ IF keys.len = 0
       THEN Goto(r, "empty") /\ UNCHANGED first
       ELSE Goto(r, "found") /\ first' = [first EXCEPT ![r] = At(keys, 1)]
    /\ UNCHANGED <<mem, keys, waiting, outcome, said, heard, over, held, channels, link>>

KeepLock(r) ==
    /\ pc[r] \in {"empty", "found"}
    /\ Goto(r, IF pc[r] = "found" THEN "lock" ELSE "noKey")
    /\ UNCHANGED <<router, outcome, said, heard, over, held, channels, link>>

RUnlock(r) ==
    /\ pc[r] \in {"empty", "found"}
    /\ readers' = readers \ {r}
    /\ Goto(r, IF pc[r] = "found" THEN "lock" ELSE "noKey")
    /\ UNCHANGED <<mem, keys, waiting, list, first>>
    /\ UNCHANGED <<outcome, said, heard, over, held, channels, link>>

Lock(r) ==
    /\ pc[r] = "lock"
    /\ waiting' = waiting \cup {r}
    /\ Goto(r, "rotate")
    /\ UNCHANGED <<mem, keys, readers, list, first>>
    /\ UNCHANGED <<outcome, said, heard, over, held, channels, link>>

DropFirst(r) ==
    /\ pc[r] = "rotate" /\ readers = {}
    /\ keys' = TailOf(list[r])
    /\ waiting' = waiting \ {r}
    /\ Goto(r, "relock")
    /\ UNCHANGED <<mem, readers, list, first>>
    /\ UNCHANGED <<outcome, said, heard, over, held, channels, link>>

(* r.keys[modelCode] = append(list[1:], first), and Unlock. *)
Rotate(r) ==
    /\ pc[r] = "rotate" /\ readers = {}
    /\ AppendKey(TailOf(list[r]), first[r], r)
    /\ list' = [list EXCEPT ![r] = NilSlice]
    /\ waiting' = waiting \ {r}
    /\ Goto(r, "relock")
    /\ UNCHANGED <<readers, first>>
    /\ UNCHANGED <<outcome, said, heard, over, held, channels, link>>

(* The last RLock, undone at once by the deferred RUnlock. *)
Picked(r) ==
    /\ pc[r] = "relock" /\ waiting = {}
    /\ Goto(r, "execute")
    /\ first' = [first EXCEPT ![r] = "none"]
    /\ UNCHANGED <<mem, keys, readers, waiting, list>>
    /\ UNCHANGED <<outcome, said, heard, over, held, channels, link>>

Pick(r) == RLock(r) \/ RUnlock(r) \/ Lock(r) \/ Rotate(r) \/ Picked(r)

---------------------------------------------------------------------------
(* Register, called by handleBindModel and by Connect. *)

RegisterLock(b) ==
    /\ bind[b] = "lock"
    /\ waiting' = waiting \cup {b}
    /\ bind' = [bind EXCEPT ![b] = "append"]
    /\ UNCHANGED <<mem, keys, readers, list, first, handler, channels>>
    /\ UNCHANGED <<tunnel, todo, inbox, down>>

RegisterKey(b, k) ==
    /\ bind[b] = "append" /\ readers = {}
    /\ AppendKey(keys, k, b)
    /\ waiting' = waiting \ {b}
    /\ UNCHANGED <<readers, list, first, handler, channels, inbox, down>>

(* handleBindModel: AddBinding, then Register. *)
BindModel(k) ==
    /\ bind[k] = "idle"
    /\ bind' = [bind EXCEPT ![k] = "lock"]
    /\ UNCHANGED <<router, handler, channels, tunnel, todo, inbox, down>>

BindRegisters(k) ==
    /\ RegisterKey(k, k)
    /\ bind' = [bind EXCEPT ![k] = "end"]
    /\ UNCHANGED <<tunnel, todo>>

(* Connect dials, authenticates and reads the bindings the node has now,   *)
(* of which an error of the query leaves none; another failure is final,   *)
(* nothing dials again.                                                    *)
NextBinding ==
    /\ bind' = [bind EXCEPT ![Connecting] = IF todo' = {} THEN "end" ELSE "lock"]
    /\ tunnel' = IF todo' = {} THEN "up" ELSE "registering"

Connect ==
    /\ tunnel = "connecting"
    /\ \/ tunnel' = "off" /\ UNCHANGED <<todo, bind>>
       \/ todo' \in {{k \in Keys : bind[k] # "idle"}, {}} /\ NextBinding
    /\ UNCHANGED <<router, handler, channels, inbox, down>>

ConnectRegisters ==
    \E k \in todo :
        /\ RegisterKey(Connecting, k)
        /\ todo' = todo \ {k}
        /\ NextBinding

Register ==
    \/ \E b \in Keys \cup {Connecting} : RegisterLock(b)
    \/ \E k \in Keys : BindRegisters(k)
    \/ ConnectRegisters

---------------------------------------------------------------------------
(* Requests come in *)

Arrive(r) ==
    /\ r \in Local /\ pc[r] = "idle"
    /\ Goto(r, "pick")
    /\ UNCHANGED <<router, outcome, said, heard, over, held, channels, link>>

PlatformSends(r) ==
    /\ r \in Remote /\ pc[r] = "idle" /\ tunnel = "up"
    /\ inbox' = Append(inbox, r)
    /\ Goto(r, "sent")
    /\ UNCHANGED <<router, outcome, said, heard, over, held, channels>>
    /\ UNCHANGED <<tunnel, todo, bind, down>>

(* readLoop calls handleRequest itself: the next message waits for it. *)
Serving == {r \in Remote : pc[r] \notin {"idle", "sent", "end"}}
ReadJSON ==
    /\ tunnel = "up" /\ inbox # <<>> /\ Serving = {}
    /\ Goto(Head(inbox), "pick")
    /\ inbox' = Tail(inbox)
    /\ UNCHANGED <<router, outcome, said, heard, over, held, channels>>
    /\ UNCHANGED <<tunnel, todo, bind, down>>

ConnectionLost ==
    /\ tunnel = "up"
    /\ tunnel' = "lost"
    /\ UNCHANGED <<router, handler, channels, todo, bind, inbox, down>>

---------------------------------------------------------------------------
(* provider.go *)

(* Route: the whole answer in one message, or an error.  Whether a request *)
(* asks for a stream is not looked at before.                              *)
Execute(r) ==
    /\ pc[r] = "execute"
    /\ Goto(r, "reply") \/ Goto(r, "fail")
    /\ UNCHANGED <<router, outcome, said, heard, over, held, channels, link>>

ExecuteStream(r) ==
    /\ pc[r] = "execute"
    /\ producer' = [producer EXCEPT ![r] = "open"]
    /\ Goto(r, "relay")
    /\ UNCHANGED <<router, outcome, said, heard, over, held, link>>
    /\ UNCHANGED <<chunks, chunksClosed, errs, errsClosed>>

(* The request's context ends with the handler of a local program; the     *)
(* tunnel's is the background context and never ends.                      *)
Cancelled(r) == r \in Local /\ pc[r] = "end"

UpstreamSays(r) ==
    /\ producer[r] = "open" /\ Len(said[r]) < MaxChunks
    /\ said' = [said EXCEPT ![r] = Append(@, Len(@) + 1)]
    /\ producer' = [producer EXCEPT ![r] = "sending"]
    /\ UNCHANGED <<router, pc, outcome, heard, over, held, link>>
    /\ UNCHANGED <<chunks, chunksClosed, errs, errsClosed>>

(* No key for the hash, no connection, a status other than 200. *)
UpstreamFails(r) ==
    /\ producer[r] = "open" /\ said[r] = <<>>
    /\ errs' = [errs EXCEPT ![r] = 1]
    /\ producer' = [producer EXCEPT ![r] = "closeErrs"]
    /\ UNCHANGED <<router, handler, link, chunks, chunksClosed, errsClosed>>

(* [DONE], the end of the body, or a read error: Scan tells no difference. *)
UpstreamEnds(r) ==
    /\ producer[r] = "open"
    /\ producer' = [producer EXCEPT ![r] = "closeErrs"]
    /\ UNCHANGED <<router, handler, link, chunks, chunksClosed, errs, errsClosed>>

ReadCancelled(r) == Cancelled(r) /\ UpstreamEnds(r)

SendOrDrop(r) ==
    /\ producer[r] = "sending"
    /\ chunks' = [chunks EXCEPT ![r] = IF Len(@) < ChunkCap THEN Append(@, Len(said[r])) ELSE @]
    /\ producer' = [producer EXCEPT ![r] = "open"]
    /\ UNCHANGED <<router, handler, link, chunksClosed, errs, errsClosed>>

SendChunk(r) ==
    /\ producer[r] = "sending" /\ Len(chunks[r]) < ChunkCap
    /\ chunks' = [chunks EXCEPT ![r] = Append(@, Len(said[r]))]
    /\ producer' = [producer EXCEPT ![r] = "open"]
    /\ UNCHANGED <<router, handler, link, chunksClosed, errs, errsClosed>>

SendCancelled(r) ==
    /\ producer[r] = "sending" /\ Cancelled(r)
    /\ errs' = [errs EXCEPT ![r] = 1]
    /\ producer' = [producer EXCEPT ![r] = "closeErrs"]
    /\ UNCHANGED <<router, handler, link, chunks, chunksClosed, errsClosed>>

(* The deferred calls run last in, first out: errs is closed before chunks. *)
CloseErrs(r) ==
    /\ producer[r] = "closeErrs"
    /\ errsClosed' = [errsClosed EXCEPT ![r] = TRUE]
    /\ producer' = [producer EXCEPT ![r] = "closeChunks"]
    /\ UNCHANGED <<router, handler, link, chunks, chunksClosed, errs>>

CloseChunks(r) ==
    /\ producer[r] = "closeChunks"
    /\ chunksClosed' = [chunksClosed EXCEPT ![r] = TRUE]
    /\ producer' = [producer EXCEPT ![r] = "gone"]
    /\ UNCHANGED <<router, handler, link, chunks, errs, errsClosed>>

Produce(r) ==
    SendChunk(r) \/ SendCancelled(r) \/ ReadCancelled(r) \/ CloseErrs(r) \/ CloseChunks(r)

---------------------------------------------------------------------------
(* The select of handleChat and handleRequest: whichever is ready. *)

TakeChunk(r) ==
    /\ pc[r] = "relay" /\ chunks[r] # <<>>
    /\ held' = [held EXCEPT ![r] = <<Head(chunks[r])>>]
    /\ chunks' = [chunks EXCEPT ![r] = Tail(@)]
    /\ Goto(r, "chunk")
    /\ UNCHANGED <<router, outcome, said, heard, over, link>>
    /\ UNCHANGED <<producer, chunksClosed, errs, errsClosed>>

SeeClosed(r) ==
    /\ pc[r] = "relay" /\ chunks[r] = <<>> /\ chunksClosed[r]
    /\ Goto(r, "reply")
    /\ UNCHANGED <<router, outcome, said, heard, over, held, channels, link>>

TakeErr(r) ==
    /\ pc[r] = "relay" /\ errs[r] = 1
    /\ errs' = [errs EXCEPT ![r] = 0]
    /\ Goto(r, "fail")
    /\ UNCHANGED <<router, outcome, said, heard, over, held, link>>
    /\ UNCHANGED <<producer, chunks, chunksClosed, errsClosed>>

NoKey(r) ==
    /\ pc[r] = "noKey"
    /\ Goto(r, "fail")
    /\ UNCHANGED <<router, outcome, said, heard, over, held, channels, link>>

End(r, how) ==
    /\ Goto(r, "end")
    /\ outcome' = [outcome EXCEPT ![r] = how]

(* A closed errs gives nil, and err.Error() panics: net/http recovers for  *)
(* a local request, in readLoop it is the end of the process.              *)
TakeNilErr(r) ==
    /\ pc[r] = "relay" /\ errs[r] = 0 /\ errsClosed[r]
    /\ End(r, "panic")
    /\ down' = (r \in Remote)
    /\ UNCHANGED <<router, said, heard, over, held, channels>>
    /\ UNCHANGED <<tunnel, todo, bind, inbox>>

ClientLeaves(r) ==
    /\ r \in Local /\ pc[r] = "relay"
    /\ End(r, "left")
    /\ UNCHANGED <<router, said, heard, over, held, channels, link>>

---------------------------------------------------------------------------
(* Answers.  Those of the tunnel go out by WriteJSON, during which a       *)
(* heartbeat must not be written: mu is held by the heartbeat only, and    *)
(* the library panics when it sees two writers.  A heartbeat at another    *)
(* time changes nothing here.                                              *)

Writes == {"chunk", "reply", "fail"}

Answer(r) ==
    LET what == pc[r]
        reaches == r \in Local \/ tunnel = "up"
    IN  /\ what \in Writes
        /\ heard' = [heard EXCEPT ![r] = IF reaches THEN @ \o held[r] ELSE @]
        /\ over' = [over EXCEPT ![r] = IF reaches /\ what = "reply" THEN @ + 1 ELSE @]
        /\ held' = [held EXCEPT ![r] = <<>>]
        /\ IF what = "chunk" THEN Goto(r, "relay") /\ UNCHANGED outcome
           ELSE End(r, IF what = "reply" THEN "done" ELSE "error")
        /\ UNCHANGED <<router, said, channels, link>>

Heartbeat ==
    /\ tunnel \in {"up", "lost"}
    /\ \E r \in Remote : pc[r] \in Writes
    /\ down' = TRUE
    /\ UNCHANGED <<router, handler, channels, tunnel, todo, bind, inbox>>

---------------------------------------------------------------------------
(* The steps of a handler that take nobody else, and its answers, which    *)
(* take a client or a platform that reads: server.go:38 sets no            *)
(* WriteTimeout, tunnel.go no deadline on the websocket.                   *)
Proceed(r) ==
    \/ Pick(r)
    \/ ExecuteStream(r)
    \/ TakeChunk(r) \/ SeeClosed(r) \/ TakeErr(r) \/ NoKey(r) \/ TakeNilErr(r)

Handle(r) == Proceed(r) \/ Answer(r)

Upstream(r) == UpstreamSays(r) \/ UpstreamFails(r) \/ UpstreamEnds(r) \/ Execute(r)

Running ==
    \/ \E r \in Requests :
          Arrive(r) \/ PlatformSends(r) \/ ClientLeaves(r) \/ Upstream(r) \/ Handle(r) \/ Produce(r)
    \/ \E k \in Keys : BindModel(k)
    \/ Connect \/ Register \/ ReadJSON \/ ConnectionLost
    \/ Heartbeat

Next == ~down /\ Running

(* Goroutines that can run do; upstream, clients and platform promise      *)
(* nothing, so that a write of theirs may never return.                    *)
Fairness ==
    /\ \A r \in Requests : WF_vars(~down /\ Proceed(r)) /\ WF_vars(~down /\ Produce(r))
    /\ WF_vars(~down /\ Register)

Spec == Init /\ [][Next]_vars /\ Fairness

---------------------------------------------------------------------------
(* What the pool is for (router.go:20, "adds a key_hash to the pool for a  *)
(* given model"): however Register and the three critical sections of Pick *)
(* interleave and whatever the slices share, once a Register has returned  *)
(* the pool is never empty again, and what it holds and what a request     *)
(* picks are keys that were bound.                                         *)
Bound(k) == k \in Keys /\ bind[k] # "idle"
PoolServes ==
    /\ (\E k \in Keys : bind[k] = "end") => keys.len > 0
    /\ \A i \in 1 .. keys.len : Bound(At(keys, i))
    /\ \A r \in Requests : first[r] # "none" => Bound(first[r])

(* Each client is served as Delivery promises: the chunks in the order of  *)
(* the upstream, none twice, none skipped, and the end of the answer only  *)
(* once and behind all of them, although the two channels are closed one   *)
(* after the other and the handler takes whichever is ready.               *)
Client(r) == INSTANCE Delivery
    WITH Piece <- 1 .. MaxChunks, said <- said[r], heard <- heard[r], over <- over[r]
ImplementsDelivery ==
    /\ \A r \in Requests : Client(r)!Init
    /\ [][\A r \in Requests :
            Client(r)!Next \/ UNCHANGED <<said[r], heard[r], over[r]>>]_<<said, heard, over>>

(* No lock, channel or deferred call keeps a request or its goroutines for *)
(* good: again and again each request is at rest, that is not yet handled, *)
(* ended with the goroutine behind it, or with an upstream that has not    *)
(* ended; or it writes to a peer that may never read; or the process has   *)
(* died.  If the peers read what is written to them (PeersRead), each      *)
(* request is at rest again and again.                                     *)
WithUpstream(r) == pc[r] = "execute" \/ (pc[r] = "relay" /\ producer[r] = "open")
AtRest(r) ==
    \/ pc[r] \in {"idle", "sent"} \/ WithUpstream(r) \/ down
    \/ pc[r] = "end" /\ producer[r] \in {"off", "gone"}
PeersRead == \A r \in Requests : WF_vars(~down /\ Answer(r))
EveryRequestEnds ==
    /\ \A r \in Requests : []<>(AtRest(r) \/ pc[r] \in Writes)
    /\ PeersRead => \A r \in Requests : []<>AtRest(r)

(* provider.go:53, "ExecuteStream forwards a chat request and returns a    *)
(* channel of SSE chunks": a stream that the upstream has ended in order   *)
(* is not broken off by the node.                                          *)
StreamsAreForwarded == \A r \in Requests : outcome[r] # "panic"

---------------------------------------------------------------------------
(* A slice lies inside its array, and what it shows are bound keys.        *)
SliceOK(s) ==
    /\ s \in [arr : Nat, off : Nat, len : Nat]
    /\ IF s.arr = 0 THEN s.len = 0
       ELSE s.arr \in 1 .. Len(mem) /\ s.off + s.len <= Len(mem[s.arr])
    /\ \A i \in 1 .. s.len : Bound(At(s, i))

(* The slices that overlap in one array stay sound: nothing but bound keys *)
(* is ever written into it, and an array is given up only when no slice    *)
(* shows it.                                                               *)
PoolInv ==
    /\ mem \in Seq(Seq(Keys \cup {"unused"}))
    /\ bind \in [Keys \cup {Connecting} -> {"idle", "lock", "append", "end"}]
    /\ list \in [Requests -> [arr : Nat, off : Nat, len : Nat]]
    /\ first \in [Requests -> Keys \cup {"none"}]
    /\ todo \subseteq {k \in Keys : Bound(k)}
    /\ SliceOK(keys)
    /\ \A r \in Requests :
          /\ SliceOK(list[r])
          /\ pc[r] \in {"found", "lock", "rotate"} => list[r].len > 0 /\ first[r] # "none"
    /\ PoolServes

(* Nothing is lost between the goroutine of ExecuteStream and the client   *)
(* while the handler runs and its answers arrive.                          *)
Arrives(r) == r \in Local \/ tunnel = "up"
Sending(r) == IF producer[r] = "sending" THEN 1 ELSE 0
StreamOK(r) ==
    /\ Len(said[r]) <= MaxChunks
    /\ \A i \in 1 .. Len(said[r]) : said[r][i] = i
    /\ \A i \in 1 .. Len(heard[r]) : heard[r][i] = i
    /\ over[r] \in {0, 1} /\ (over[r] = 1 => pc[r] = "end")
    /\ held[r] # <<>> => pc[r] = "chunk" /\ Len(held[r]) = 1
    /\ producer[r] = "off" => said[r] = <<>> /\ heard[r] = <<>> /\ chunks[r] = <<>>
    /\ producer[r] # "off" => pc[r] \in {"relay", "chunk", "reply", "fail", "end"}
    /\ chunksClosed[r] => producer[r] = "gone"
    /\ pc[r] \in {"relay", "chunk"} => producer[r] # "off"
    /\ pc[r] = "reply" => chunks[r] = <<>> /\ producer[r] \in {"off", "gone"}
    /\ Arrives(r) /\ pc[r] # "end" =>
          /\ Len(heard[r]) + Len(held[r]) + Len(chunks[r]) + Sending(r) = Len(said[r])
          /\ held[r] # <<>> => held[r][1] = Len(heard[r]) + 1
          /\ \A i \in 1 .. Len(chunks[r]) : chunks[r][i] = Len(heard[r]) + Len(held[r]) + i

Streams == [Requests -> Seq(Nat)]
StreamTypes ==
    /\ said \in Streams /\ heard \in Streams /\ held \in Streams /\ chunks \in Streams
    /\ over \in [Requests -> Nat]
    /\ pc \in [Requests -> {"idle", "sent", "pick", "empty", "found", "lock", "rotate", "relock",
                            "execute", "noKey", "relay", "chunk", "reply", "fail", "end"}]
    /\ producer \in [Requests -> {"off", "open", "sending", "closeErrs", "closeChunks", "gone"}]
    /\ chunksClosed \in [Requests -> BOOLEAN]

(* Requests of the platform exist only since the tunnel has been up, and   *)
(* each that has not been read yet waits once.                             *)
LinkOK ==
    /\ todo # {} => tunnel = "registering"
    /\ tunnel \notin {"up", "lost"} => \A r \in Remote : pc[r] = "idle"
    /\ inbox \in Seq(Remote)
    /\ \A i \in 1 .. Len(inbox) : pc[inbox[i]] = "sent"
    /\ \A i, j \in 1 .. Len(inbox) : inbox[i] = inbox[j] => i = j

StreamInv == StreamTypes /\ LinkOK /\ \A r \in Requests : StreamOK(r)

(* The inductive invariant of the node. *)
NodeInv == PoolInv /\ StreamInv
=============================================================================
