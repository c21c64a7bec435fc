---------------------------- MODULE RequestPath ----------------------------
(***************************************************************************)
(* A client holds a conversation with a model and sends the whole of it,   *)
(* in its own format, to the gateway (handler.go doRelay); the channel's   *)
(* adaptor rewrites it for the vendor's endpoint and the vendor's answer   *)
(* for the client.  What is checked is what the model is told: that it is  *)
(* what was said, by whom, in what order, and which result answers which   *)
(* call.                                                                   *)
(*                                                                         *)
(* The clients' encoders are not in the repository; they follow the public *)
(* formats the converters of this repository parse.                        *)
(***************************************************************************)
EXTENDS Adaptors

CONSTANTS
    MaxTurns,    \* turns of a conversation
    Clients,     \* the clients' formats
    Vendors,     \* the channels, by protocol or provider type
    Functions    \* the tools' names

ASSUME ClientsAssumption == MaxTurns \in Nat /\ Clients \subseteq Formats

VARIABLES
    turns,     \* what was said so far
    client,    \* the format the client speaks
    vendor,    \* the channel picked, "none" before
    sent,      \* the body sent upstream
    outcome    \* "talking", "sent", "refused" or the format of the answer

pathVars == <<turns, client, vendor, sent, outcome>>

---------------------------------------------------------------------------
(* Turns.  A token says where it was said: ten times the turn, plus its    *)
(* place.  A call is known by its token.                                   *)

Turn(who, as, parts) == [who |-> who, as |-> as, parts |-> parts]
Spoke(k, t, fn) == Part(k, <<t>>, IF k = "call" THEN t ELSE 0, fn)

UserTurns(n) ==
    {Turn("user", shape, <<Spoke("text", n, "")>>) : shape \in {"string", "list"}}
    \cup {Turn("user", "list", <<Spoke("text", n, ""), Spoke(k, n + 1, "")>>) : k \in Images}

AssistantParts(n) ==
    {<<Spoke("text", n, "")>>, <<Spoke("think", n, ""), Spoke("text", n + 1, "")>>}
    \cup {<<Spoke("call", n, f)>> : f \in Functions}
    \cup {<<Spoke("text", n, ""), Spoke("call", n + 1, f)>> : f \in Functions}
    \cup {<<Spoke("call", n, f), Spoke("call", n + 1, g)>> : f, g \in Functions}
AssistantTurns(n) == {Turn("assistant", "string", parts) : parts \in AssistantParts(n)}

CallsOf(turn) == Of(turn.parts, {"call"})

(* Every call of the assistant's turn is answered, as a string or a list.  *)
ResultTurns(n, calls) ==
    {Turn("results", shape, [i \in DOMAIN calls |-> Part("result", <<n + i>>, calls[i].id, calls[i].fn)]) :
        shape \in {"string", "list"}}

NextTurns ==
    LET n == 10 * (Len(turns) + 1)
    IN  IF turns = <<>>
        THEN UserTurns(n) \cup AssistantTurns(n) \cup {Turn("system", "string", <<Spoke("text", n, "")>>)}
        ELSE IF CallsOf(Last(turns)) # <<>> THEN ResultTurns(n, CallsOf(Last(turns)))
        ELSE UserTurns(n) \cup AssistantTurns(n)

---------------------------------------------------------------------------
(* The clients' encoders *)

SystemOf(ts) == Joined(IF ts # <<>> /\ ts[1].who = "system" THEN ts[1].parts ELSE <<>>)
Spoken(ts) == IF ts # <<>> /\ ts[1].who = "system" THEN Tail(ts) ELSE ts

EncodeOpenAI(ts) ==
    Body("openai", <<>>,
         Map(ts, LAMBDA t :
             CASE t.who = "results" -> Map(t.parts, LAMBDA p : <<Message("tool", "string", <<p>>)>>)
               [] t.who = "assistant" /\ Of(t.parts, {"text"}) = <<>> ->
                    <<Message("assistant", "null", t.parts)>>
               [] OTHER -> <<Message(t.who, t.as, t.parts)>>))

(* Claude's roles alternate; the results of a turn are the user's blocks,  *)
(* each with a string or a list as its content.                            *)
SideOf(t) == IF t.who = "assistant" THEN "assistant" ELSE "user"
ClaudeTurn(msgs, t) ==
    IF msgs # <<>> /\ Last(msgs).role = SideOf(t)
    THEN Append(Front(msgs), Message(SideOf(t), Last(msgs).as, Last(msgs).parts \o t.parts))
    ELSE Append(msgs, Message(SideOf(t), IF t.who = "results" THEN t.as ELSE "string", t.parts))
EncodeClaude(ts) == Body("claude", SystemOf(ts), FoldLeft(ClaudeTurn, <<>>, Spoken(ts)))

(* Gemini has no call ids.                                                 *)
EncodeGemini(ts) ==
    Body("gemini", SystemOf(ts),
         Map(Spoken(ts), LAMBDA t :
             <<Message(IF t.who = "assistant" THEN "model" ELSE "user", "list",
                       [i \in DOMAIN t.parts |-> [t.parts[i] EXCEPT !.id = 0]])>>))

AsItem(t, p) ==
    CASE p.k = "call" -> <<Message("function_call", "string", <<p>>)>>
      [] p.k = "result" -> <<Message("function_call_output", "string", <<p>>)>>
      [] p.k = "think" -> <<Message("reasoning", "string", <<p>>)>>
      [] OTHER -> <<Message(t.who, "list", <<p>>)>>
AsItems(t) ==
    IF t.who = "user" THEN <<Message("user", t.as, t.parts)>>
    ELSE Map(t.parts, LAMBDA p : AsItem(t, p))
EncodeResponses(ts) == Body("responses", SystemOf(ts), Map(Spoken(ts), AsItems))

Encoded(f, ts) ==
    CASE f = "openai" -> EncodeOpenAI(ts)
      [] f = "claude" -> EncodeClaude(ts)
      [] f = "gemini" -> EncodeGemini(ts)
      [] OTHER -> EncodeResponses(ts)

---------------------------------------------------------------------------
NoBody == Body("none", <<>>, <<>>)

PathTypeOK ==
    /\ Len(turns) <= MaxTurns
    /\ client \in Clients
    /\ vendor \in Vendors \cup {"none"}
    /\ sent.format \in Formats \cup {"none", "ollama", "coze", "dify"}
    /\ outcome \in {"talking", "sent", "refused"} \cup Formats

PathInit ==
    /\ turns = <<>>
    /\ client \in Clients
    /\ vendor = "none"
    /\ sent = NoBody
    /\ outcome = "talking"

Say ==
    /\ outcome = "talking"
    /\ Len(turns) < MaxTurns
    /\ \E t \in NextTurns : turns' = Append(turns, t)
    /\ UNCHANGED <<client, vendor, sent, outcome>>

(* GetAdaptor, ConvertRequest and DoRequest: a channel whose protocol has  *)
(* no adaptor, a body the adaptor will not make and a key without the      *)
(* account the URL needs are errors.                                       *)
DoRequest(v, key) ==
    LET a == getByProviderType(v)
        body == ConvertRequest(a, Encoded(client, turns), Functions)
    IN  /\ outcome = "talking"
        /\ turns # <<>> /\ Last(turns).who \in {"user", "results"}
        /\ vendor' = v
        /\ IF a = NoAdaptor \/ body = Refused \/ ~GetRequestURL(v, key)
           THEN outcome' = "refused" /\ UNCHANGED sent
           ELSE outcome' = "sent" /\ sent' = body
        /\ UNCHANGED <<turns, client>>

DoResponse ==
    /\ outcome = "sent"
    /\ outcome' = WrittenAs(getByProviderType(vendor), client)
    /\ UNCHANGED <<turns, client, vendor, sent>>

PathNext == Say \/ (\E v \in Vendors, key \in KeyShapes : DoRequest(v, key)) \/ DoResponse

PathSpec == PathInit /\ [][PathNext]_pathVars

---------------------------------------------------------------------------
(* What a body tells the model: who said each token. *)
WhoSays(role, kind) ==
    IF kind = "result" THEN "results"
    ELSE IF role \in {"assistant", "model", "function_call", "reasoning"} THEN "assistant"
    ELSE role
ToldIn(m) == Map(m.parts, LAMBDA p : [i \in DOMAIN p.v |-> <<WhoSays(m.role, p.k), p.v[i], p.k>>])
Told(b) == [i \in DOMAIN b.system |-> <<"system", b.system[i], "text">>] \o Map(b.msgs, ToldIn)

IsSent == outcome \in {"sent"} \cup Formats
Via == getByProviderType(vendor)
Passed == client \in Via.passes
TurnOf(token) == token \div 10

(* The vendor is told every text, image, thought, call and result as said  *)
(* by whoever said it: no conversion swaps speakers.  (The texts Go prints *)
(* for a nil or a pointer have no speaker: NothingIsMadeUp is about them.) *)
SpeakersAreKept ==
    IsSent => \A w \in Range(Told(sent)) : w[2] > 0 => w[1] = turns[TurnOf(w[2])].who

(* And in the order of the turns: no conversion moves a turn.  A thought   *)
(* has a field of its own in OpenAI's messages and no place among texts.   *)
OrderIsKept ==
    IsSent =>
        LET told == Filter(Told(sent), LAMBDA w : w[2] > 0 /\ w[3] # "think")
        IN  \A i, j \in DOMAIN told : i < j => TurnOf(told[i][2]) <= TurnOf(told[j][2])

(* Where the converters of the three large formats do lose something: an   *)
(* image by link for or from Gemini, a result a Claude client gave as a    *)
(* list of blocks, the calls and thoughts of a Responses client, and, for  *)
(* Claude, a turn of one text next to a turn of the same side.             *)
OneTextNextTo(i) ==
    /\ CASE client = "gemini" -> CallsOf(turns[i]) = <<>>
         [] client = "responses" -> Of(turns[i].parts, {"text"}) # <<>>
         [] OTHER -> OneText(turns[i].parts)
    /\ turns[i].who = "assistant" \/ (client = "openai" /\ turns[i].as = "list")
    /\ \E j \in {i - 1, i + 1} \cap DOMAIN turns :
           turns[j].who # "system" /\ SideOf(turns[j]) = SideOf(turns[i])
KnownLoss(i, p) ==
    \/ p.k = "link" /\ (Via.wire = "gemini" \/ client = "gemini")
    \/ p.k = "result" /\ client = "claude" /\ turns[i].as = "list"
    \/ p.k \in {"call", "think"} /\ client = "responses"
    \/ Via.wire = "claude" /\ OneTextNextTo(i)

(* Apart from that, nothing that was said is left out.                     *)
NothingElseIsLost ==
    IsSent /\ Via.wire \in {"openai", "claude", "gemini"} /\ ~Passed =>
        \A i \in DOMAIN turns : \A k \in DOMAIN turns[i].parts :
            LET p == turns[i].parts[k]
            IN  KnownLoss(i, p) \/ \E w \in Range(Told(sent)) : w[2] = p.v[1]

(* The conversation arrives whole: nothing lost, nothing moved, whichever  *)
(* converters it passed.                                                   *)
ConversationArrives == NothingElseIsLost /\ OrderIsKept

(* Every result reaches the vendor as the answer to the call it answers:   *)
(* the call with its id, or for Gemini of its function.  A Responses       *)
(* client's calls are not passed on, and a Gemini client cannot say which  *)
(* of two calls of one function it answers.                                *)
AllParts(b) == Map(b.msgs, LAMBDA m : m.parts)
CallAnswered(token) ==
    LET results == Range(turns[TurnOf(token)].parts)
    IN  (CHOOSE r \in results : r.v = <<token>>).id
CalledTwice(turn) ==
    \E i, j \in DOMAIN turn.parts : i < j /\ turn.parts[i].fn = turn.parts[j].fn
Ambiguous == client = "gemini" /\ \E i \in DOMAIN turns : turns[i].who = "results" /\ CalledTwice(turns[i])

ResultsAnswerTheirCalls ==
    IsSent /\ client # "responses" /\ ~Ambiguous /\ Via.wire \in {"openai", "claude", "gemini"} /\ ~Passed =>
        LET parts == AllParts(sent)
            calls(r) == {i \in DOMAIN parts : parts[i].k = "call" /\ parts[i].id = r.id /\ parts[i].fn = r.fn}
        IN  \A i \in DOMAIN parts :
                parts[i].k = "result" /\ parts[i].v # <<>> =>
                    \E c \in calls(parts[i]) : c < i /\ parts[c].v = <<CallAnswered(parts[i].v[1])>>

(* Claude's turns alternate, the user's first, whatever was said: other    *)
(* bodies are refused by the vendor (claude/converter.go:107).             *)
TurnsAlternate ==
    IsSent /\ ~Passed /\ sent.format = "claude" =>
        \A i \in DOMAIN sent.msgs :
            sent.msgs[i].role = IF i % 2 = 1 THEN "user" ELSE "assistant"

(* A vendor that speaks OpenAI or Claude gets every answer to a message's  *)
(* calls right after that message: other bodies are refused, too.          *)
After(msgs, i) ==
    IF sent.format = "claude"
    THEN IF i < Len(msgs) THEN Of(msgs[i + 1].parts, {"result"}) ELSE <<>>
    ELSE LET tools == {j \in DOMAIN msgs : \A k \in i + 1 .. j : msgs[k].role = "tool"}
         IN  Map([j \in DOMAIN msgs |-> IF j > i /\ j \in tools THEN msgs[j].parts ELSE <<>>], LAMBDA x : x)

CallsAreAnsweredAtOnce ==
    IsSent /\ ~Passed /\ sent.format \in {"openai", "claude"} =>
        \A i \in DOMAIN sent.msgs :
            {p.id : p \in Range(Of(sent.msgs[i].parts, {"call"}))}
              \subseteq {r.id : r \in Range(After(sent.msgs, i))} \cup (IF Ambiguous THEN Nat ELSE {})

(* Calls and results stay paired: each result with the call it answers and *)
(* behind it, each message's calls answered before anything else is said.  *)
CallsAndResultsPair == ResultsAnswerTheirCalls /\ CallsAreAnsweredAtOnce

(* A client of OpenAI's format, the only one every adaptor is written for, *)
(* is served in one format at each hop: the body is in the format of the   *)
(* endpoint it goes to, the answer is read as that endpoint writes it, and *)
(* the client gets its own.                                                *)
HopsSpeakOneFormat ==
    IsSent /\ client = "openai" =>
        /\ sent.format = Via.endpoint
        /\ ReadAs(Via, client) = Via.endpoint
        /\ outcome # "sent" => outcome = client

(* The invariant behind it: what is sent is the conversation as it was when *)
(* the channel was picked, made into a body by that channel's adaptor, and  *)
(* the answer is written by the same adaptor.                              *)
SentIsConverted ==
    /\ client \in Clients
    /\ IsSent =>
          /\ sent = ConvertRequest(Via, Encoded(client, turns), Functions)
          /\ sent # Refused /\ Via # NoAdaptor
          /\ outcome # "sent" => outcome = WrittenAs(Via, client)

(* What a conversation is made of: a token names its turn, results answer  *)
(* calls, and the system speaks first or not at all.                       *)
Speakers == {"system", "user", "assistant", "results"}
PartKinds == {"text", "think", "call", "result"} \cup Images
SpokenPart == [k : PartKinds, v : Seq(Nat), id : Nat, fn : Functions \cup {""}]
SaidIn(i, who) ==
    {p \in SpokenPart :
        /\ \A n \in DOMAIN p.v : TurnOf(p.v[n]) = i
        /\ p.k = "result" <=> who = "results"
        /\ p.k \in {"call", "result"} => p.fn \in Functions}
TurnsAreKnown ==
    /\ turns \in Seq([who : Speakers, as : {"string", "list"}, parts : Seq(SpokenPart)])
    /\ \A i \in DOMAIN turns :
          /\ turns[i].who = "system" => i = 1
          /\ turns[i].parts \in Seq(SaidIn(i, turns[i].who)) /\ Len(turns[i].parts) <= 2

---------------------------------------------------------------------------
(* Two statements of the repository the code does not keep. *)

(* "Converts an OpenAI request to Claude's Messages API" (claude/          *)
(* converter.go:15): the converted body says only what the client said.    *)
NothingIsMadeUp == IsSent => \A w \in Range(Told(sent)) : w[2] > 0

(* dto/llm.go:12 lists the protocols a channel may be created with: a      *)
(* request for such a channel finds an adaptor.                            *)
CreatableProtocols ==
    {"openai-compatible", "anthropic-compatible", "gemini-compatible", "azure-openai"}
AllowedChannelsAreServed == outcome = "refused" => vendor \notin CreatableProtocols
=============================================================================
