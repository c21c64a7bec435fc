-------------------------- MODULE StreamConverters --------------------------
(***************************************************************************)
(* The handlers of relay/channel that translate an upstream's stream into  *)
(* the client's protocol while it arrives.  Each reads a line, writes the  *)
(* events it makes of it one after the other, and reads the next line; at  *)
(* the end it returns the usage the request is billed with.  The stream    *)
(* may end at any line: complete, cut, broken, with an error event, or     *)
(* abandoned by the client.                                                *)
(*                                                                         *)
(* A line is abstracted to the kind of thing it carries, a written event   *)
(* to its kind and index, a usage record to small numbers.                 *)
(***************************************************************************)
EXTENDS Pricing, FiniteSets, Sequences, SequencesExt

CONSTANTS
    Handler,     \* the handlers that may serve the stream
    MaxLines,    \* bound: lines the upstream sends, its end not counted
    Prices       \* what bindings may charge for a thousand tokens

AllHandlers ==
    {"openai to claude", "openai to gemini", "openai to responses",
     "responses to openai", "claude to openai", "claude native", "gemini to openai",
     "gemini native", "ollama", "coze", "dify"}

ASSUME HandlerAssumption ==
    /\ Handler \subseteq AllHandlers /\ MaxLines \in Nat
    /\ Prices \subseteq [hit : Nat, miss : Nat, output : Nat]

VARIABLES
    handler,   \* the handler that serves this stream
    lines,     \* how many lines the upstream has sent
    phase,     \* where the upstream is in its protocol
    said,      \* history: the pieces it has said, of those the handler keeps
    reason,    \* history: the finish reason it has given
    reported,  \* history: the usage it has reported
    gone,      \* the client has left: the request's context is done
    st,        \* the handler's local variables
    todo,      \* events made of the last line and not yet written
    out,       \* events written to the client
    ending,    \* info.StreamStatus: the end reason, first writer wins
    ret,       \* "none", or how the handler returned
    billed     \* the usage it returned

upstream == <<lines, phase, said, reason, reported>>
vars == <<handler, lines, phase, said, reason, reported, gone, st, todo, out, ending, ret, billed>>

Ev(e, k, i) == [e |-> e, k |-> k, i |-> i]
NoUsage == [prompt |-> 0, completion |-> 0, cached |-> 0]

-----------------------------------------------------------------------------
(* The upstreams *)

Speaks == [h \in AllHandlers |->
    CASE h \in {"openai to claude", "openai to gemini", "openai to responses"} -> "openai"
      [] h \in {"claude to openai", "claude native"} -> "claude"
      [] h \in {"gemini to openai", "gemini native"} -> "gemini"
      [] h = "responses to openai" -> "responses"
      [] OTHER -> h]

\* What each protocol can say: "call" opens a tool call, "args" adds a
\* fragment of the arguments of the last one, "other" carries a part the
\* client's protocol has no word for.  Gemini sends a call whole; Responses
\* repeats the arguments in one piece when a call's item is done, and that is
\* its "args"; Ollama, Coze and Dify are read for their text only.
CanSay(v) ==
    CASE v \in {"openai", "claude", "responses"} -> {"text", "think", "call", "args"}
      [] v = "gemini" -> {"text", "think", "call"}
      [] OTHER -> {"text"}

Reasons(v) ==
    CASE v = "openai" -> {"stop", "length", "tool_calls", "content_filter"}
      [] v = "claude" -> {"end_turn", "max_tokens", "tool_use", "refusal"}
      [] v = "gemini" -> {"STOP", "MAX_TOKENS", "SAFETY", "MALFORMED_FUNCTION_CALL"}
      [] v = "responses" -> {"completed", "incomplete"}
      [] OTHER -> {"stop"}

Piece == {"text", "think", "call", "args"}
Line(t, r, u) == [t |-> t, reason |-> r, usage |-> u]

\* Claude reports the input with the first event and the output with the last,
\* OpenAI all of it in a chunk of its own.
OpenUsage(v) == IF v = "claude" THEN [prompt |-> 2, completion |-> 0, cached |-> 1] ELSE NoUsage
FinishUsage(v) ==
    CASE v = "claude" -> [prompt |-> 0, completion |-> 3, cached |-> 0]
      [] v \in {"gemini", "responses"} -> [prompt |-> 2, completion |-> 3, cached |-> 1]
      [] OTHER -> NoUsage
DoneUsage(v) == IF v \in {"ollama", "dify"} THEN [prompt |-> 2, completion |-> 3, cached |-> 0] ELSE NoUsage

LinesOf(v) ==
    {Line(t, "", NoUsage) : t \in CanSay(v) \cup {"junk", "fragment", "other", "error"}}
    \cup {Line("open", "", OpenUsage(v)), Line("done", "", DoneUsage(v))}
    \cup {Line("finish", r, FinishUsage(v)) : r \in Reasons(v)}
    \cup {Line("usage", "", [prompt |-> 2, completion |-> 3, cached |-> c]) : c \in {0, 1}}

\* A finish reason follows the answer, then the usage, then the terminator.
MayCome(v, l) ==
    LET talking == phase = "talking"
        after == IF said = <<>> THEN "" ELSE Last(said)
    IN  CASE l.t = "junk" -> TRUE
          [] l.t \in {"text", "think", "call"} -> talking
          [] l.t = "args" -> talking /\ after \in IF v = "responses" THEN {"call"} ELSE {"call", "args"}
          [] l.t = "fragment" -> talking /\ v = "responses" /\ after = "call"
          [] l.t = "other" -> talking /\ v \in {"claude", "coze"}
          [] l.t = "open" -> lines = 0 /\ v \in {"openai", "claude", "responses"}
          [] l.t = "finish" -> talking /\ v \notin {"ollama", "dify"}
          [] l.t = "usage" -> phase = "finished" /\ v = "openai"
          [] l.t = "done" -> phase = "finished" \/ (talking /\ v \in {"ollama", "dify"})
          [] l.t = "error" -> talking /\ v \in {"claude", "gemini", "responses", "coze", "dify"}

Lines(v) == {l \in LinesOf(v) : MayCome(v, l)}

\* The connection ends: after the last line, before it, or with a read error.
Ends == {Line("eof", "", NoUsage), Line("broken", "", NoUsage)}

-----------------------------------------------------------------------------
(* relay/common/reasonmap.go *)

OpenAIFinishReasonToClaude(r) ==
    CASE r = "stop" -> "end_turn" [] r = "length" -> "max_tokens"
      [] r = "tool_calls" -> "tool_use" [] r = "content_filter" -> "refusal"
      [] r = "" -> "end_turn" [] OTHER -> r

ClaudeStopReasonToOpenAI(r) ==
    CASE r \in {"end_turn", "stop_sequence", "pause_turn"} -> "stop"
      [] r = "max_tokens" -> "length" [] r = "tool_use" -> "tool_calls"
      [] r = "refusal" -> "content_filter" [] OTHER -> r

GeminiFinishReasonToOpenAI(r) ==
    CASE r \in {"STOP", "FINISH_REASON_UNSPECIFIED", "MISSING_THOUGHT_SIGNATURE", "MALFORMED_RESPONSE"} -> "stop"
      [] r = "MAX_TOKENS" -> "length"
      [] r \in {"MALFORMED_FUNCTION_CALL", "UNEXPECTED_TOOL_CALL", "TOO_MANY_TOOL_CALLS", "TOOL_CALLS"} -> "tool_calls"
      [] r = "" -> "" [] OTHER -> "content_filter"

OpenAIFinishReasonToGemini(r) ==
    CASE r \in {"stop", "tool_calls"} -> "STOP" [] r = "length" -> "MAX_TOKENS"
      [] r = "content_filter" -> "SAFETY" [] OTHER -> r

-----------------------------------------------------------------------------
(* OpenAI to Claude: channel/openai/claude_response.go *)

Fresh == [started |-> FALSE, block |-> "", index |-> 0, finish |-> "",
          usage |-> NoUsage, words |-> 0, text |-> FALSE, callAt |-> <<>>]

CloseBlock(s) == IF s.block = "" THEN <<>> ELSE <<Ev("block stop", s.block, s.index)>>

\* The first chunk of any kind brings message_start.
MessageStart(s) == IF s.started THEN <<>> ELSE <<Ev("start", "", 0)>>

\* text and thinking go on in a block of their kind or open one.
BlockDelta(s, kind) ==
    IF s.block = kind
      THEN [emit |-> <<Ev("delta", kind, s.index)>>, s |-> s]
      ELSE LET i == IF s.block = "" THEN s.index ELSE s.index + 1
           IN  [emit |-> CloseBlock(s) \o <<Ev("block start", kind, i), Ev("delta", kind, i)>>,
                s |-> [s EXCEPT !.block = kind, !.index = i]]

\* A mutant of ToolUse that leaves the open block open.
ToolUseInside(s) ==
    [emit |-> <<Ev("block start", "call", s.index + 1)>>, s |-> [s EXCEPT !.block = "call", !.index = @ + 1]]

\* A named tool call always opens a block; its fragments go to the open one.
ToolUse(s) ==
    LET i == IF s.block = "" THEN s.index ELSE s.index + 1
    IN  [emit |-> CloseBlock(s) \o <<Ev("block start", "call", i)>>,
         s |-> [s EXCEPT !.block = "call", !.index = i]]

\* [DONE]
MessageDone(s) ==
    CloseBlock(s) \o <<Ev("message delta", OpenAIFinishReasonToClaude(s.finish), 0), Ev("stop", "", 0)>>

ToClaude(s, l) ==
    LET begun == [s EXCEPT !.started = TRUE]
        r == CASE l.t \in {"text", "think"} -> BlockDelta(begun, l.t)
               [] l.t = "call" -> ToolUse(begun)
               [] l.t = "args" -> [emit |-> <<Ev("delta", "args", s.index)>>, s |-> begun]
               [] l.t = "finish" -> [emit |-> <<>>, s |-> [begun EXCEPT !.finish = l.reason]]
               [] l.t = "usage" -> [emit |-> <<>>, s |-> [begun EXCEPT !.usage = l.usage]]
               [] OTHER -> [emit |-> <<>>, s |-> begun]
    IN  [emit |-> MessageStart(s) \o r.emit, s |-> r.s]

\* Only the two totals are kept; the cached tokens are not.
ClaudeInboundUsage(u) == [u EXCEPT !.cached = 0]

-----------------------------------------------------------------------------
(* OpenAI to Gemini: channel/openai/gemini_response.go *)

\* A fragment of arguments is no JSON by itself: it becomes a functionCall
\* without a name and with empty arguments.
ToGemini(s, l) ==
    CASE l.t \in {"text", "think", "call"} -> [emit |-> <<Ev("delta", l.t, 0)>>, s |-> s]
      [] l.t = "args" -> [emit |-> <<Ev("nameless call", "", 0)>>, s |-> s]
      [] l.t = "finish" -> [emit |-> <<Ev("empty", "", 0)>>, s |-> [s EXCEPT !.finish = l.reason]]
      [] l.t = "usage" -> [emit |-> <<>>, s |-> [s EXCEPT !.usage = l.usage]]
      [] OTHER -> [emit |-> <<>>, s |-> s]

\* A mutant of GeminiInboundEnd that keeps the upstream's word.
GeminiInboundEndRaw(s) == <<Ev("finish", s.finish, 0), Ev("stop", "", 0)>>

GeminiInboundEnd(s) ==
    <<Ev("finish", OpenAIFinishReasonToGemini(s.finish), 0), Ev("stop", "", 0)>>

-----------------------------------------------------------------------------
(* OpenAI to Responses: channel/openai/responses.go *)

\* The first chunk announces the response, its message and its text part.
ResponseCreated(s) ==
    IF s.started THEN <<>>
    ELSE <<Ev("start", "", 0), Ev("item added", "message", 0), Ev("part added", "text", 0)>>

\* s.index is outputIndex, s.block "text done" once the message is closed.
TextDone(s) ==
    IF s.block = "text done" THEN <<>>
    ELSE <<Ev("text done", "", s.index), Ev("part done", "", s.index), Ev("item done", "message", s.index)>>

FunctionCallAdded(s) ==
    LET i == IF s.block = "text done" THEN s.index ELSE s.index + 1
    IN  [emit |-> TextDone(s) \o <<Ev("item added", "call", i)>>,
         s |-> [s EXCEPT !.block = "text done", !.index = i + 1, !.callAt = Append(@, i)]]

\* A finish reason closes the text, if still open, and every call.
FinishItems(s) ==
    TextDone(s) \o FlattenSeq([n \in DOMAIN s.callAt |->
        <<Ev("args done", "", s.callAt[n]), Ev("item done", "call", s.callAt[n])>>])

ToResponses(s, l) ==
    LET begun == [s EXCEPT !.started = TRUE]
        r == CASE l.t = "text" -> [emit |-> <<Ev("delta", "text", s.index)>>, s |-> [begun EXCEPT !.words = @ + 1]]
               [] l.t = "think" -> [emit |-> <<Ev("delta", "think", s.index)>>, s |-> begun]
               [] l.t = "call" -> FunctionCallAdded(begun)
               [] l.t = "args" -> [emit |-> <<Ev("delta", "args", Last(s.callAt))>>, s |-> begun]
               [] l.t = "finish" -> [emit |-> FinishItems(s), s |-> begun]
               [] l.t = "usage" -> [emit |-> <<>>, s |-> [begun EXCEPT !.usage = l.usage]]
               [] OTHER -> [emit |-> <<>>, s |-> begun]
    IN  [emit |-> ResponseCreated(s) \o r.emit, s |-> r.s]

\* Without a usage the completion is guessed from the text (a quarter of its
\* length: here its pieces); cached tokens are not kept.
ResponsesUsage(s) ==
    [prompt |-> s.usage.prompt, cached |-> 0,
     completion |-> IF s.usage.completion = 0 THEN s.words ELSE s.usage.completion]

-----------------------------------------------------------------------------
(* Responses to OpenAI: channel/openai/converter.go *)

SendStartIfNeeded(s) == IF s.started THEN <<>> ELSE <<Ev("start", "", 0)>>

\* An index for each id.  A call's item is known by its call id, its fragments
\* by the item's own id, which is another one: they make a call without a name.
\* s.index counts the ids, s.block says that the last one is of the fragments.
SendToolCallChunk(s, l) ==
    CASE l.t = "call" -> [emit |-> <<Ev("delta", "call", s.index)>>,
                          s |-> [s EXCEPT !.index = @ + 1, !.callAt = Append(@, s.index), !.block = ""]]
      [] l.t = "args" -> [emit |-> <<Ev("delta", "args", Last(s.callAt))>>, s |-> s]
      [] l.t = "fragment" /\ s.block = "fragments" -> [emit |-> <<Ev("nameless call", "", s.index - 1)>>, s |-> s]
      [] l.t = "fragment" /\ s.block = "" -> [emit |-> <<Ev("nameless call", "", s.index)>>,
                                             s |-> [s EXCEPT !.index = @ + 1, !.block = "fragments"]]

\* response.completed; s.words tells what usageText has, s.text what outputText has.
ResponseCompleted(s, l) ==
    [emit |-> SendStartIfNeeded(s)
                \o <<Ev("finish", IF s.callAt # <<>> /\ ~s.text THEN "tool_calls" ELSE "stop", 0)>>,
     s |-> [s EXCEPT !.started = TRUE, !.finish = "sent",
                     !.usage = [l.usage EXCEPT !.cached = 0]]]

\* response.incomplete is not among the events the handler knows.
ResponsesToChat(s, l) ==
    CASE l.t \in {"text", "think"} ->
            [emit |-> SendStartIfNeeded(s) \o <<Ev("delta", l.t, 0)>>,
             s |-> [s EXCEPT !.started = TRUE, !.words = @ + 1, !.text = @ \/ l.t = "text"]]
      [] l.t \in {"call", "args", "fragment"} ->
            LET r == SendToolCallChunk(s, l) IN [r EXCEPT !.s.words = @ + 1]
      [] l.t = "finish" /\ l.reason = "completed" -> ResponseCompleted(s, l)
      [] OTHER -> [emit |-> <<>>, s |-> s]

\* However the scanner has ended, the answer is closed in order.
ChatEnd(s) ==
    SendStartIfNeeded(s) \o (IF s.finish = "sent" THEN <<>> ELSE <<Ev("finish", "stop", 0)>>)
        \o <<Ev("stop", "", 0)>>

\* Without a usage the completion is guessed from all that was said.
ChatUsage(s) == IF s.usage = NoUsage THEN [NoUsage EXCEPT !.completion = s.words] ELSE s.usage

-----------------------------------------------------------------------------
(* Claude to OpenAI: channel/claude/response.go *)

\* A mutant of ClaudeUsage that takes a later usage whole as well.
ClaudeUsageWhole(u, l) == l.usage

\* A start event's usage is taken whole, a later one where it is positive.
ClaudeUsage(u, l) ==
    IF l.t = "open" THEN l.usage
    ELSE [prompt |-> IF l.usage.prompt > 0 THEN l.usage.prompt ELSE u.prompt,
          completion |-> l.usage.completion,
          cached |-> IF l.usage.cached > 0 THEN l.usage.cached ELSE u.cached]

ClaudeEndChunk(s) ==
    <<Ev("finish", IF s.finish = "" THEN "stop" ELSE s.finish, 0), Ev("stop", "", 0)>>

\* s.index is toolCallIdx.  The chunk that opens a call leaves the index out
\* (0 on the wire), its fragments carry the number of the last call.
ClaudeToOpenAI(s, l) ==
    CASE l.t = "open" -> [emit |-> IF s.started THEN <<>> ELSE <<Ev("start", "", 0)>>,
                          s |-> [s EXCEPT !.started = TRUE, !.usage = ClaudeUsage(@, l)]]
      [] l.t \in {"text", "think"} -> [emit |-> <<Ev("delta", l.t, 0)>>, s |-> [s EXCEPT !.words = @ + 1]]
      [] l.t = "call" -> [emit |-> <<Ev("delta", "call", 0)>>, s |-> [s EXCEPT !.index = @ + 1]]
      [] l.t = "args" -> [emit |-> <<Ev("delta", "args", s.index - 1)>>, s |-> s]
      [] l.t = "finish" -> [emit |-> <<>>, s |-> [s EXCEPT !.finish = ClaudeStopReasonToOpenAI(l.reason),
                                                          !.usage = ClaudeUsage(@, l)]]
      [] l.t = "done" -> [emit |-> ClaudeEndChunk(s), s |-> s]
      [] OTHER -> [emit |-> <<>>, s |-> s]

\* The native handler passes every line on and reads the usage as it goes by.
ClaudeNative(s, l) ==
    [emit |-> CASE l.t \in {"text", "think", "call", "args"} -> <<Ev("delta", l.t, 0)>>
                [] l.t = "finish" -> <<Ev("message delta", l.reason, 0)>>
                [] l.t = "done" -> <<Ev("stop", "", 0)>>
                [] OTHER -> <<Ev(l.t, "", 0)>>,
     s |-> IF l.t \in {"open", "finish"} THEN [s EXCEPT !.usage = ClaudeUsage(@, l)] ELSE s]

-----------------------------------------------------------------------------
(* Gemini to OpenAI: channel/gemini/response.go *)

GeminiToOpenAI(s, l) ==
    CASE l.t \in {"text", "think"} -> [emit |-> <<Ev("delta", l.t, 0)>>, s |-> s]
      [] l.t = "call" -> [emit |-> <<Ev("delta", "call", 0)>>, s |-> [s EXCEPT !.index = @ + 1]]
      [] l.t = "finish" -> [emit |-> <<>>, s |-> [s EXCEPT !.finish = GeminiFinishReasonToOpenAI(l.reason),
                                                          !.usage = l.usage]]
      [] OTHER -> [emit |-> <<>>, s |-> s]

GeminiNative(s, l) ==
    [emit |-> CASE l.t \in {"text", "think", "call"} -> <<Ev("delta", l.t, 0)>>
                [] l.t = "finish" -> <<Ev("finish", l.reason, 0)>>
                [] l.t = "done" -> <<Ev("stop", "", 0)>>
                [] OTHER -> <<Ev(l.t, "", 0)>>,
     s |-> IF l.t = "finish" THEN [s EXCEPT !.usage = l.usage] ELSE s]

-----------------------------------------------------------------------------
(* Ollama, Coze, Dify *)

Ollama(s, l) ==
    CASE l.t = "text" -> [emit |-> <<Ev("delta", "text", 0)>>, s |-> s]
      [] l.t = "done" -> [emit |-> <<Ev("finish", "stop", 0)>>, s |-> [s EXCEPT !.usage = l.usage]]
      [] OTHER -> [emit |-> <<>>, s |-> s]

\* Only answers are passed on; the completed message brings the finish chunk.
Coze(s, l) ==
    CASE l.t = "text" -> [emit |-> <<Ev("delta", "text", 0)>>, s |-> s]
      [] l.t = "finish" -> [emit |-> <<Ev("finish", "stop", 0)>>, s |-> s]
      [] l.t = "done" -> [emit |-> <<Ev("stop", "", 0)>>, s |-> s]
      [] OTHER -> [emit |-> <<>>, s |-> s]

Dify(s, l) ==
    CASE l.t = "text" -> [emit |-> <<Ev("delta", "text", 0)>>, s |-> s]
      [] l.t = "done" -> [emit |-> <<Ev("finish", "stop", 0), Ev("stop", "", 0)>>,
                          s |-> [s EXCEPT !.usage = l.usage]]
      [] OTHER -> [emit |-> <<>>, s |-> s]

-----------------------------------------------------------------------------
(* The same answers unstreamed: the handler beside each stream handler takes *)
(* the whole message, and answers with a message of the client's protocol.  *)

Kinds(s) == {p \in ToSet(s) : p # "args"}
Message(kinds, finish, usage) == [kinds |-> kinds, finish |-> finish, usage |-> usage]

\* Thinking, text and calls become blocks; an empty answer an empty text.
WholeToClaude(s, r, u) == Message(Kinds(s), OpenAIFinishReasonToClaude(r), u)

WholeToGemini(s, r, u) == Message(Kinds(s), OpenAIFinishReasonToGemini(r), u)

\* A Responses message has no place for the thinking, and is always complete.
WholeToResponses(s, r, u) == Message(Kinds(s) \ {"think"}, "completed", [u EXCEPT !.cached = 0])

\* The thinking is not taken over.
ResponsesResponseToChatCompletions(s, r, u) ==
    Message(Kinds(s) \ {"think"}, IF "call" \in Kinds(s) /\ "text" \notin Kinds(s) THEN "tool_calls" ELSE "stop",
            IF u = NoUsage /\ "text" \in Kinds(s) THEN [u EXCEPT !.completion = Len(s)] ELSE u)

WholeClaudeToOpenAI(s, r, u) == Message(Kinds(s), ClaudeStopReasonToOpenAI(r), u)

\* Here a call makes the finish reason tool_calls, which no streamed one does.
WholeGeminiToOpenAI(s, r, u) ==
    Message(Kinds(s), IF "call" \in Kinds(s) THEN "tool_calls" ELSE GeminiFinishReasonToOpenAI(r), u)

WholeNative(s, r, u) == Message(Kinds(s), r, u)
WholeOllama(s, r, u) == Message(Kinds(s), "stop", u)

\* Coze is asked to stream all the same, and its stream is collected here.
WholeCoze(s, r, u) == Message(Kinds(s), "stop", NoUsage)

\* Dify's answer is estimated when it comes without a usage.
WholeDify(s, r, u) ==
    Message(Kinds(s), "stop", IF u = NoUsage THEN [NoUsage EXCEPT !.completion = Len(s)] ELSE u)

Whole(h, s, r, u) ==
    CASE h = "openai to claude" -> WholeToClaude(s, r, u)
      [] h = "openai to gemini" -> WholeToGemini(s, r, u)
      [] h = "openai to responses" -> WholeToResponses(s, r, u)
      [] h = "responses to openai" -> ResponsesResponseToChatCompletions(s, r, u)
      [] h = "claude to openai" -> WholeClaudeToOpenAI(s, r, u)
      [] h \in {"claude native", "gemini native"} -> WholeNative(s, r, u)
      [] h = "gemini to openai" -> WholeGeminiToOpenAI(s, r, u)
      [] h = "ollama" -> WholeOllama(s, r, u)
      [] h = "coze" -> WholeCoze(s, r, u)
      [] h = "dify" -> WholeDify(s, r, u)

-----------------------------------------------------------------------------
(* How each handler ends *)

OnLine(h, s, l) ==
    CASE h = "openai to claude" -> ToClaude(s, l)
      [] h = "openai to gemini" -> ToGemini(s, l)
      [] h = "openai to responses" -> ToResponses(s, l)
      [] h = "responses to openai" -> ResponsesToChat(s, l)
      [] h = "claude to openai" -> ClaudeToOpenAI(s, l)
      [] h = "claude native" -> ClaudeNative(s, l)
      [] h = "gemini to openai" -> GeminiToOpenAI(s, l)
      [] h = "gemini native" -> GeminiNative(s, l)
      [] h = "ollama" -> Ollama(s, l)
      [] h = "coze" -> Coze(s, l)
      [] h = "dify" -> Dify(s, l)

GoOn == [emit |-> <<>>, ending |-> "", ret |-> "none"]
Stop(emit, end, how) == [emit |-> emit, ending |-> end, ret |-> how]

\* A terminator: most handlers leave the loop, two read on until the end.
OnDone(h, s) ==
    CASE h = "openai to claude" -> Stop(MessageDone(s), "done", "ok")
      [] h = "openai to gemini" -> Stop(GeminiInboundEnd(s), "done", "ok")
      [] h = "openai to responses" -> Stop(<<Ev("stop", "", 0)>>, "done", "ok")
      [] h = "responses to openai" -> Stop(ChatEnd(s), "done", "ok")
      [] h = "claude to openai" -> Stop(<<>>, "done", "none")
      [] h = "gemini to openai" -> Stop(ClaudeEndChunk(s), "done", "ok")
      [] h = "ollama" -> Stop(<<Ev("stop", "", 0)>>, "done", "ok")
      [] h \in {"gemini native", "coze", "dify"} -> Stop(<<>>, "done", "ok")
      [] h = "claude native" -> GoOn

\* The upstream's error event, and Gemini's safety block.
OnError(h, s) ==
    CASE h \in {"claude to openai", "claude native"} -> Stop(<<>>, "error", "none")
      [] h = "gemini to openai" -> Stop(<<>>, "", "error")
      [] h = "responses to openai" -> Stop(ChatEnd(s), "error", "ok")
      [] h \in {"coze", "dify"} -> Stop(<<>>, "error", "error")
      [] OTHER -> GoOn

\* A mutant of OnEOF that ends a stream message_stop has ended already.
OnEOFAgain(h, s) == Stop(ClaudeEndChunk(s), "done", "ok")

\* The body ends without a terminator having left the loop.
OnEOF(h, s) ==
    CASE h = "openai to claude" -> Stop(CloseBlock(s) \o <<Ev("stop", "", 0)>>, "done", "ok")
      [] h \in {"openai to gemini", "openai to responses", "responses to openai",
                "gemini to openai", "ollama"} -> OnDone(h, s)
      [] h = "claude to openai" -> Stop(IF ending = "" THEN ClaudeEndChunk(s) ELSE <<>>, "done", "ok")
      [] OTHER -> Stop(<<>>, "done", "ok")

\* A read error.  The handlers that write their ending before they look at it
\* have closed the client's stream by then; a client that has left hides the
\* error from those that ask the context first.
OnBroken(h, s) ==
    CASE h \in {"openai to gemini", "gemini to openai", "ollama"} ->
            [OnEOF(h, s) EXCEPT !.ret = IF gone THEN "ok" ELSE "error"]
      [] h \in {"openai to claude", "openai to responses", "claude to openai"} ->
            IF gone THEN OnEOF(h, s) ELSE Stop(<<>>, "error", "error")
      [] h = "gemini native" -> Stop(<<>>, "error", "ok")
      [] h = "responses to openai" -> Stop(ChatEnd(s), "error", "ok")
      [] OTHER -> Stop(<<>>, "error", "error")

\* A line read after the client has left.
OnGone(h, s) ==
    Stop(IF h = "responses to openai" THEN ChatEnd(s) ELSE <<>>, "client_gone",
         IF h \in {"coze", "dify", "responses to openai"} THEN "ok" ELSE "error")

Bill(h, s) ==
    CASE h = "openai to claude" -> ClaudeInboundUsage(s.usage)
      [] h = "openai to responses" -> ResponsesUsage(s)
      [] h = "responses to openai" -> ChatUsage(s)
      [] h = "coze" -> NoUsage
      [] OTHER -> s.usage

-----------------------------------------------------------------------------
Init ==
    /\ handler \in Handler
    /\ lines = 0 /\ phase = "talking" /\ said = <<>> /\ reason = "" /\ reported = NoUsage
    /\ gone = FALSE
    /\ st = Fresh /\ todo = <<>> /\ out = <<>>
    /\ ending = "" /\ ret = "none" /\ billed = NoUsage

\* The fragments "openai to gemini" cannot put together are not kept.
Keeps(h, p) == ~(h = "openai to gemini" /\ p = "args")

\* The upstream's side of a line.
Spoken(l) ==
    /\ lines' = lines + 1
    /\ said' = IF l.t \in CanSay(Speaks[handler]) /\ Keeps(handler, l.t) THEN Append(said, l.t) ELSE said
    /\ phase' = CASE l.t = "finish" -> "finished"
                  [] l.t \in {"done", "error"} -> "over"
                  [] l.t \in {"eof", "broken"} -> IF phase = "over" THEN "over" ELSE "cut"
                  [] OTHER -> phase
    /\ reason' = IF l.t = "finish" THEN l.reason ELSE reason
    /\ reported' = [f \in DOMAIN reported |-> IF l.usage[f] > 0 THEN l.usage[f] ELSE reported[f]]

\* The handler's side: what it writes, how it goes on, what it returns.
Handles(s, emit, outcome) ==
    /\ st' = s
    /\ todo' = emit \o outcome.emit
    /\ ending' = IF ending = "" THEN outcome.ending ELSE ending
    /\ ret' = outcome.ret
    /\ billed' = IF outcome.ret = "ok" THEN Bill(handler, s) ELSE billed
    /\ UNCHANGED <<handler, gone, out>>

\* No line is read before the events of the last one are written.
Idle == ret = "none" /\ todo = <<>>

\* [DONE] is compared as text, before the line is parsed.
LeavesAtDone ==
    handler \in {"openai to claude", "openai to gemini", "openai to responses",
                 "responses to openai", "gemini to openai"}

ReadLine ==
    /\ Idle /\ ~gone /\ phase # "over" /\ lines < MaxLines
    /\ \E l \in Lines(Speaks[handler]) :
          LET r == IF l.t = "junk" THEN [emit |-> <<>>, s |-> st] ELSE OnLine(handler, st, l)
          IN  /\ Spoken(l)
              /\ CASE l.t = "done" /\ LeavesAtDone -> Handles(st, <<>>, OnDone(handler, st))
                   [] l.t = "done" /\ ~LeavesAtDone -> Handles(r.s, r.emit, OnDone(handler, r.s))
                   [] l.t = "error" -> Handles(r.s, r.emit, OnError(handler, r.s))
                   [] OTHER -> Handles(r.s, r.emit, GoOn)

ReadLineGone ==
    /\ Idle /\ gone /\ phase # "over"
    /\ UNCHANGED upstream
    /\ Handles(st, <<>>, OnGone(handler, st))

ReadEnd ==
    /\ Idle
    /\ \E l \in Ends : /\ Spoken(l)
                       /\ Handles(st, <<>>, IF l.t = "eof" THEN OnEOF(handler, st) ELSE OnBroken(handler, st))

\* WriteSSEData and its kin: one event, flushed at once.
Write ==
    /\ todo # <<>>
    /\ out' = Append(out, Head(todo))
    /\ todo' = Tail(todo)
    /\ UNCHANGED <<handler, lines, phase, said, reason, reported, gone, st, ending, ret, billed>>

ClientLeaves ==
    /\ ret = "none" /\ ~gone
    /\ gone' = TRUE
    /\ UNCHANGED <<handler, lines, phase, said, reason, reported, st, todo, out, ending, ret, billed>>

Next == ReadLine \/ ReadLineGone \/ ReadEnd \/ Write \/ ClientLeaves

Spec == Init /\ [][Next]_vars

-----------------------------------------------------------------------------
(* What the client makes of the events *)

IsDelta(e) == e.e = "delta" \/ (e.e \in {"block start", "item added"} /\ e.k = "call")
Hearing(heard, e) == IF IsDelta(e) THEN Append(heard, e.k) ELSE heard
Heard == FoldLeft(Hearing, <<>>, out)
Over == Cardinality({n \in DOMAIN out : out[n].e = "stop"})

\* Refinement: whatever protocols it translates between, a handler delivers
\* the upstream's pieces in order, none lost or repeated, and says the answer
\* is over at most once and never before all of it was written.
Client == INSTANCE Delivery WITH Piece <- Piece, said <- said, heard <- Heard, over <- Over
ImplementsDelivery == Client!Spec

\* The block of the Claude client that is open after n events.
Bracket(b, e) ==
    CASE e.e = "block start" -> IF b.open = "" /\ b.next = e.i
                                  THEN [b EXCEPT !.open = e.k, !.next = @ + 1] ELSE [b EXCEPT !.ok = FALSE]
      [] e.e = "block stop" -> IF b.open = e.k /\ b.next = e.i + 1
                                  THEN [b EXCEPT !.open = ""] ELSE [b EXCEPT !.ok = FALSE]
      [] e.e = "delta" -> [b EXCEPT !.ok = @ /\ b.next = e.i + 1
                                             /\ b.open = IF e.k = "args" THEN "call" ELSE e.k]
      [] e.e = "stop" -> [b EXCEPT !.ok = @ /\ b.open = ""]
      [] OTHER -> b

\* A Claude client sees blocks numbered from 0, one open at a time, each delta
\* inside a block of its own kind, and none open when the message stops, also
\* when the upstream is cut (writeClaudeSSE in handleClaudeInboundStream).
NoBlock == [open |-> "", next |-> 0, ok |-> TRUE]

BlocksAreBracketed == handler = "openai to claude" => FoldLeft(Bracket, NoBlock, out).ok

\* What a finish reason says, in each protocol's words; Gemini stops for a
\* tool call as it does for anything else.
Meaning(r) ==
    CASE r \in {"stop", "end_turn", "STOP"} -> "stop"
      [] r \in {"length", "max_tokens", "MAX_TOKENS"} -> "length"
      [] r \in {"tool_calls", "tool_use", "MALFORMED_FUNCTION_CALL"} -> "tools"
      [] r \in {"content_filter", "refusal", "SAFETY"} -> "filter"
      [] OTHER -> "unknown"

Finishes == {out[n].k : n \in {m \in DOMAIN out : out[m].e \in {"finish", "message delta"}}}
Returned == ret # "none" /\ todo = <<>>

\* A stream that returns without an error is billed with what the upstream
\* reported last, and, if the upstream finished it, the client was told why in
\* its own words.  (Coze reports no usage; the Responses client is told no
\* reason; a Responses upstream knows none but incomplete, and there the stream
\* is ended as if complete; CachedIsBilledBeside is about the cached tokens.
\* A Claude client is told nothing where an OpenAI upstream has finished but
\* its body ends without [DONE], claude_response.go:319.)
Answered == reason # "" \/ reported.completion > 0
TellsNoReason ==
    handler = "openai to responses" \/ (handler = "openai to claude" /\ phase = "cut")

EndsAsReported ==
    Returned /\ ret = "ok" /\ ending = "done" /\ ~gone /\ reason # "incomplete" =>
        /\ reported.completion > 0 =>
              billed.prompt = reported.prompt /\ billed.completion = reported.completion
        /\ Answered => (Finishes = {} <=> TellsNoReason)
        /\ reason # "" => \A r \in Finishes :
              \/ Meaning(r) = Meaning(reason)
              \/ handler = "openai to gemini" /\ reason = "tool_calls" /\ r = "STOP"
              \/ handler \in {"coze", "dify", "ollama"} /\ r = "stop"
              \/ reason = "completed" /\ r \in {"stop", "tool_calls"}

\* Streamed or whole, an answer is the same: the client gets the same kinds of
\* content and the same finish reason, and pays for the same tokens; some
\* streams forget which of them were cached, and unless a cached token is
\* priced above another, those never make the answer cheaper.  Three exceptions
\* are in the code, beside TellsNoReason: only the stream tells the thinking to
\* a Responses client or from a Responses upstream, only the whole answer tells
\* an OpenAI client that Gemini stopped for a call, and only the whole answer
\* has the usage of a response that is incomplete.
StreamAgreesWithWhole ==
    Returned /\ ret = "ok" /\ ending = "done" /\ ~gone /\ reason # "incomplete"
      /\ (reported.completion > 0 \/ (handler = "coze" /\ reason # "")) =>
        LET w == Whole(handler, said, reason, reported)
            lost == IF handler \in {"openai to responses", "responses to openai"} THEN {"think"} ELSE {}
        IN  /\ Kinds(Heard) \ lost = w.kinds
            /\ billed \in {w.usage, [w.usage EXCEPT !.cached = 0]}
            /\ \A price \in Prices :
                  price.hit <= price.miss => ComputeCost(billed, price) >= ComputeCost(w.usage, price)
            /\ \/ TellsNoReason
               \/ handler = "gemini to openai" /\ "call" \in w.kinds /\ Finishes # {}
               \/ Finishes = {w.finish}

\* relay/common/usage.go:27: only an OpenAI prompt includes the cached tokens;
\* Claude counts them beside the prompt, and there they must not be deducted.
CacheIncludedInPrompt(h) == Speaks[h] = "openai"

\* The cost the comment of usage.go:27 describes, for what the upstream has
\* reported: a prompt is reduced by its cached tokens only if it includes them
\* (handler.go:745).
CachedIsBilledBeside ==
    Returned /\ ret = "ok" /\ ending = "done" /\ ~gone /\ reported.completion > 0 =>
        \A price \in Prices :
            LET miss == reported.prompt -
                        (IF CacheIncludedInPrompt(handler) THEN reported.cached ELSE 0)
            IN  ComputeCost(billed, price) >=
                    Per1K(price.hit, reported.cached) + Per1K(price.miss, miss)
                        + Per1K(price.output, reported.completion)

-----------------------------------------------------------------------------
(* The inductive invariant *)

LineKind == Piece \cup {"junk", "fragment", "other", "open", "finish", "usage", "done", "error", "eof", "broken"}
EventKind == LineKind \cup
    {"start", "stop", "empty", "delta", "nameless call", "message delta", "block start", "block stop",
     "item added", "item done", "part added", "part done", "text done", "args done"}
Word == Piece \cup
    {"", "message", "text done", "fragments", "sent", "stop", "length", "tool_calls", "content_filter",
     "end_turn", "max_tokens", "tool_use", "refusal", "STOP", "MAX_TOKENS", "SAFETY",
     "MALFORMED_FUNCTION_CALL", "completed", "incomplete"}
Usage == [prompt : Nat, completion : Nat, cached : Nat]
Event == [e : EventKind, k : Word, i : Int]
Locals == [started : BOOLEAN, block : Word, index : Nat, finish : Word, usage : Usage,
           words : Nat, text : BOOLEAN, callAt : Seq(Nat)]

\* The types of the variables.
TypeOK ==
    /\ handler \in Handler
    /\ lines \in Nat /\ phase \in {"talking", "finished", "over", "cut"}
    /\ said \in Seq(Piece)
    /\ reason \in Word /\ reported \in Usage /\ gone \in BOOLEAN
    /\ st \in Locals /\ todo \in Seq(Event) /\ out \in Seq(Event)
    /\ ending \in {"", "done", "error", "client_gone"} /\ ret \in {"none", "ok", "error"}
    /\ billed \in Usage

\* The events made so far, written or not.
Made == out \o todo

\* What the locals know of a call whose arguments may follow, and of the id
\* that SendToolCallChunk has seen last.
CallIsKnown ==
    /\ said # <<>> /\ Last(said) \in {"call", "args"} =>
          /\ handler \in {"openai to responses", "responses to openai"} => st.callAt # <<>>
          /\ handler = "openai to claude" => st.block = "call"
    /\ handler = "responses to openai" => st.block \in {"", "fragments"}

\* A handler that has made its last event: it has returned, or it reads on to
\* an end at which it writes nothing more.
Closed ==
    \/ ret # "none"
    \/ phase = "over" /\ (handler = "claude native" \/ (handler = "claude to openai" /\ ending # ""))

\* What was said is what has been made of it, written or not, and the end
\* stands behind it.
SaidIsMade == FoldLeft(Hearing, <<>>, Made) = said
EndIsLast ==
    \A n \in DOMAIN Made : Made[n].e = "stop" =>
        Closed /\ \A m \in DOMAIN Made : m > n => ~IsDelta(Made[m]) /\ Made[m].e # "stop"

\* The Claude client's open block is the one the locals tell.
BlockIsOpen ==
    handler = "openai to claude" =>
        LET b == FoldLeft(Bracket, NoBlock, Made)
        IN  /\ b.ok
            /\ ret = "none" => /\ b.open = st.block
                               /\ b.next = IF st.block = "" THEN 0 ELSE st.index + 1
                               /\ st.block = "" => st.index = 0

ConverterInv == TypeOK /\ CallIsKnown /\ SaidIsMade /\ EndIsLast /\ BlockIsOpen

-----------------------------------------------------------------------------
(* The inductive invariant of EndsAsReported and StreamAgreesWithWhole *)

\* An upstream gives at most one reason, when the answer ends, and no count of
\* completed tokens before.
UpstreamIsKnown ==
    /\ reason \in Reasons(Speaks[handler]) \cup {""}
    /\ phase = "talking" => reason = ""
    /\ lines = 0 => reported = NoUsage
    /\ handler = "coze" => reported = NoUsage
    /\ Speaks[handler] \in {"claude", "gemini", "responses"} /\ reported.completion > 0 => reason # ""

\* Of the usage nothing is forgotten but the cached tokens.
UsageIsKept ==
    reason # "incomplete" => /\ st.usage.prompt = reported.prompt
                             /\ st.usage.completion = reported.completion
                             /\ st.usage.cached \in {0, reported.cached}

\* The reason in the locals, where a handler keeps it to the end.
ReasonIsKept ==
    /\ handler \in {"openai to claude", "openai to gemini"} => st.finish = reason
    /\ handler = "claude to openai" => st.finish = ClaudeStopReasonToOpenAI(reason)
    /\ handler = "gemini to openai" => st.finish = GeminiFinishReasonToOpenAI(reason)
    /\ handler = "responses to openai" /\ reason = "completed" => st.finish = "sent"

\* What a Responses stream has brought decides how it finishes.
PartsAreKept ==
    handler = "responses to openai" =>
        (st.callAt # <<>> <=> "call" \in Kinds(said)) /\ (st.text <=> "text" \in Kinds(said))

\* The finish reason a client may have been given.
Stopped(r) == IF r = "" THEN "stop" ELSE r
MaySay(h, r, s) ==
    CASE h = "openai to claude" -> {OpenAIFinishReasonToClaude(r)}
      [] h = "openai to gemini" -> {OpenAIFinishReasonToGemini(r)}
      [] h = "responses to openai" ->
            IF r = "completed" THEN {IF s.callAt # <<>> /\ ~s.text THEN "tool_calls" ELSE "stop"} ELSE Word
      [] h = "claude to openai" -> {Stopped(ClaudeStopReasonToOpenAI(r))}
      [] h = "gemini to openai" -> {Stopped(GeminiFinishReasonToOpenAI(r))}
      [] h \in {"claude native", "gemini native"} -> {r}
      [] h \in {"ollama", "coze", "dify"} -> {"stop"}
      [] OTHER -> Word

Says(b, words) == \A n \in DOMAIN b : b[n].e \in {"finish", "message delta"} => b[n].k \in words
ReasonIsSaid ==
    handler # "openai to responses" =>
        /\ Says(Made, MaySay(handler, reason, st))
        /\ ret = "none" /\ phase = "talking" => Says(Made, {})

\* Where a handler has told the reason by now, written or not.
GivesReason(b) == \E n \in DOMAIN b : b[n].e \in {"finish", "message delta"}
HasTold ==
    CASE handler \in {"claude native", "gemini native", "coze"} -> reason # ""
      [] handler = "responses to openai" -> st.finish = "sent"
      [] handler = "claude to openai" -> ending = "done"
      [] handler \in {"openai to gemini", "gemini to openai"} -> ret = "ok"
      [] handler = "openai to claude" -> ret = "ok" /\ phase # "cut"
      [] handler \in {"ollama", "dify"} -> Answered
      [] OTHER -> FALSE
ReasonIsTold ==
    /\ HasTold => GivesReason(Made)
    /\ TellsNoReason \/ (handler = "openai to claude" /\ ret = "none") => ~GivesReason(Made)
    /\ handler = "openai to claude" /\ ret = "none" => phase \in {"talking", "finished"}

ReturnsTheBill == ret = "ok" => billed = Bill(handler, st)

EndInv ==
    /\ UpstreamIsKnown /\ UsageIsKept /\ ReasonIsKept /\ PartsAreKept /\ ReasonIsSaid /\ ReasonIsTold
    /\ ReturnsTheBill
=============================================================================
