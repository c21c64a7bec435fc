---------------------------- MODULE Conversions ----------------------------
(***************************************************************************)
(* The request converters of relay/channel: a conversation in one vendor's *)
(* wire format rewritten into another's (openai/converter.go,              *)
(* claude/converter.go, gemini/converter.go and the ones of ollama, dify   *)
(* and coze).  A body is its format, its system texts and its messages; a  *)
(* message has a role, a content shape and parts.  Sampling parameters,    *)
(* tool declarations and wording are left out.                             *)
(***************************************************************************)
EXTENDS Integers, FiniteSets, SequencesExt

(* A part: text (v is the sequence of the texts joined in it), an image    *)
(* given as data or by link, reasoning, a tool call and its result.        *)
Part(k, v, id, fn) == [k |-> k, v |-> v, id |-> id, fn |-> fn]
Text(v) == Part("text", v, 0, "")
Message(role, as, parts) == [role |-> role, as |-> as, parts |-> parts]
Body(f, system, msgs) == [format |-> f, system |-> system, msgs |-> msgs]
Refused == Body("refused", <<>>, <<>>)

(* What Go prints for a nil and for a *string: texts nobody wrote.         *)
NilText == -1
PointerText == -2

Map(s, Op(_)) == FlattenSeq([i \in DOMAIN s |-> Op(s[i])])
Filter(s, Test(_)) == Map(s, LAMBDA x : IF Test(x) THEN <<x>> ELSE <<>>)
Of(parts, kinds) == Filter(parts, LAMBDA p : p.k \in kinds)
Joined(parts) == FlattenSeq([i \in DOMAIN parts |-> parts[i].v])
TextOf(m) == Joined(Of(m.parts, {"text"}))
OneText(parts) == Len(parts) = 1 /\ parts[1].k = "text"
Images == {"image", "link"}
TextPart(v) == IF v = <<>> THEN <<>> ELSE <<Text(v)>>

\* A system text of its own place becomes the first message.
SystemMessage(b) ==
    IF b.system = <<>> THEN <<>> ELSE <<Message("system", "string", <<Text(b.system)>>)>>

---------------------------------------------------------------------------
(* Claude to OpenAI *)

(* contentParts written out as one user message.                           *)
Gathered(parts) ==
    IF parts = <<>> THEN <<>>
    ELSE <<Message("user", IF OneText(parts) THEN "string" ELSE "list", parts)>>

TextFirst(m) ==
    Gathered(Of(m.parts, {"text"} \cup Images))
    \o Map(Of(m.parts, {"result"}), LAMBDA p : <<Message("tool", "string", <<p>>)>>)
RestDropped(m) ==
    LET Step(acc, p) ==
            IF p.k # "result" THEN [acc EXCEPT !.parts = Append(@, p)]
            ELSE [out |-> acc.out \o Gathered(acc.parts) \o <<Message("tool", "string", <<p>>)>>,
                  parts |-> <<>>]
    IN  FoldLeft(Step, [out |-> <<>>, parts |-> <<>>], m.parts).out

(* A tool_result keeps a string content; one given as a list of blocks     *)
(* leaves toolContent empty.  It goes out after the parts before it.       *)
UserBlock(as, acc, p) ==
    IF p.k # "result" THEN [acc EXCEPT !.parts = Append(@, p)]
    ELSE LET content == IF as = "list" THEN [p EXCEPT !.v = <<>>] ELSE p
         IN  [out |-> acc.out \o Gathered(acc.parts) \o <<Message("tool", "string", <<content>>)>>,
              parts |-> <<>>]

convertClaudeUserMessage(m) ==
    LET all == FoldLeft(LAMBDA acc, p : UserBlock(m.as, acc, p), [out |-> <<>>, parts |-> <<>>],
                        Of(m.parts, {"text", "result"} \cup Images))
        sent == all.out \o Gathered(all.parts)
    IN  IF sent = <<>> THEN <<Message("user", "string", <<Text(<<>>)>>)>> ELSE sent

convertClaudeAssistantMessage(m) ==
    Message("assistant", "string",
            Of(m.parts, {"think"}) \o <<Text(TextOf(m))>> \o Of(m.parts, {"call"}))

ConvertClaudeToOpenAI(b) ==
    Body("openai", <<>>,
         SystemMessage(b)
         \o Map(b.msgs, LAMBDA m : CASE m.role = "user" -> convertClaudeUserMessage(m)
                                     [] m.role = "assistant" -> <<convertClaudeAssistantMessage(m)>>
                                     [] OTHER -> <<>>))

---------------------------------------------------------------------------
(* Gemini to OpenAI *)

NumberedAnew(acc, p) ==
    IF p.k \in {"call", "result"}
    THEN [acc EXCEPT !.n = @ + 1, !.parts = Append(@, [p EXCEPT !.id = acc.n])]
    ELSE [acc EXCEPT !.parts = Append(@, p)]

(* Calls have no id on the wire: they are numbered, and a response takes   *)
(* the number last given to its function's name (a new one if none was).   *)
Numbered(acc, p) ==
    CASE p.k = "call" ->
            [n |-> acc.n + 1, ids |-> [acc.ids EXCEPT ![p.fn] = acc.n],
             parts |-> Append(acc.parts, [p EXCEPT !.id = acc.n])]
      [] p.k = "result" /\ acc.ids[p.fn] = 0 ->
            [n |-> acc.n + 1, ids |-> [acc.ids EXCEPT ![p.fn] = acc.n],
             parts |-> Append(acc.parts, [p EXCEPT !.id = acc.n])]
      [] p.k = "result" /\ acc.ids[p.fn] # 0 ->
            [acc EXCEPT !.parts = Append(@, [p EXCEPT !.id = acc.ids[p.fn]])]
      [] OTHER -> [acc EXCEPT !.parts = Append(@, p)]

(* A thought is a part with text, and is taken for one.  In the assistant's *)
(* content, images replace the text; a file given by link has no branch.   *)
g2oConvertContent(role, parts) ==
    LET texts == Of(parts, {"text", "think"})
        images == Of(parts, {"image"})
        calls == Of(parts, {"call"})
        said == IF role = "user" /\ images # <<>> THEN [i \in DOMAIN texts |-> Text(texts[i].v)]
                ELSE TextPart(Joined(texts))
    IN  (CASE role = "user" ->
                IF said \o images = <<>> THEN <<>>
                ELSE <<Message("user", IF images = <<>> THEN "string" ELSE "list", said \o images)>>
           [] role = "model" ->
                <<Message("assistant",
                          CASE images # <<>> -> "list"
                            [] images = <<>> /\ said = <<>> /\ calls = <<>> -> "null"
                            [] OTHER -> "string",
                          (IF images # <<>> THEN images ELSE said) \o calls)>>
           [] OTHER -> <<>>)
        \o Map(Of(parts, {"result"}), LAMBDA p : <<Message("tool", "string", <<p>>)>>)

NextContent(acc, m) ==
    LET seen == FoldLeft(Numbered, [n |-> acc.n, ids |-> acc.ids, parts |-> <<>>], m.parts)
    IN  [n |-> seen.n, ids |-> seen.ids, out |-> acc.out \o g2oConvertContent(m.role, seen.parts)]

ConvertGeminiToOpenAI(b, functions) ==
    LET all == FoldLeft(NextContent, [n |-> 1, ids |-> [f \in functions |-> 0], out |-> <<>>], b.msgs)
    IN  Body("openai", <<>>,
             SystemMessage(b) \o all.out)

---------------------------------------------------------------------------
(* Responses to OpenAI *)

r2cConvertMessage(m) ==
    LET parts == Of(m.parts, {"text"} \cup Images)
    IN  IF parts = <<>> THEN <<>>
        ELSE <<Message(m.role, IF OneText(parts) THEN "string" ELSE m.as, parts)>>

(* An item is a message, a function_call_output, or anything else with a   *)
(* role: a function_call has none and is passed over.                      *)
r2cConvertInputToMessages(items) ==
    Map(items, LAMBDA m :
        CASE m.role \in {"function_call", "reasoning"} -> <<>>
          [] m.role = "function_call_output" -> <<Message("tool", "string", m.parts)>>
          [] OTHER -> r2cConvertMessage(m))

ConvertResponsesToOpenAI(b) ==
    Body("openai", <<>>, SystemMessage(b) \o r2cConvertInputToMessages(b.msgs))

(* ConvertToOpenAI; any other format is left as it came.                   *)
ConvertToOpenAI(b, functions) ==
    CASE b.format = "claude" -> ConvertClaudeToOpenAI(b)
      [] b.format = "gemini" -> ConvertGeminiToOpenAI(b, functions)
      [] b.format = "responses" -> ConvertResponsesToOpenAI(b)
      [] OTHER -> b

---------------------------------------------------------------------------
(* OpenAI to Claude *)

Messages(b) == IF b.format = "openai" THEN b.msgs ELSE <<>>
Space == Text(<<>>)   \* the single blank that stands for no text
Content(as, parts) == [as |-> as, parts |-> parts]

(* One text block alone is returned as its *string.                        *)
Blocks(parts) ==
    CASE parts = <<>> -> Content("list", <<Space>>)
      [] OneText(parts) -> Content("pointer", parts)
      [] OTHER -> Content("list", parts)

o2cConvertUserMessage(m) ==
    LET parts == Of(m.parts, {"text"} \cup Images)
    IN  CASE m.as # "string" -> Blocks(parts)
          [] m.as = "string" /\ TextOf(m) = <<>> -> Content("list", <<Space>>)
          [] OTHER -> Content("string", parts)

(* o2cExtractTextContent prints a nil content.                             *)
o2cExtractTextContent(m) == IF m.as = "null" THEN <<NilText>> ELSE TextOf(m)

o2cConvertAssistantMessage(m) ==
    Blocks(Of(m.parts, {"think"}) \o TextPart(o2cExtractTextContent(m)) \o Of(m.parts, {"call"}))

(* A *string is neither a string nor a list of blocks: it is printed.      *)
o2cContentToBlocks(c) ==
    CASE c.as = "pointer" -> <<Text(<<PointerText>>)>>
      [] OTHER -> c.parts

o2cMergeContents(old, new) ==
    LET merged == o2cContentToBlocks(old) \o o2cContentToBlocks(new)
    IN  IF OneText(merged) THEN Content("pointer", merged) ELSE Content("list", merged)

AddToAnyone(msgs, role, c) ==
    IF msgs # <<>>
    THEN LET c2 == o2cMergeContents(Last(msgs), c)
         IN  Append(Front(msgs), Message(Last(msgs).role, c2.as, c2.parts))
    ELSE Append(msgs, Message(role, c.as, c.parts))

AddUnmerged(msgs, role, c) == Append(msgs, Message(role, c.as, c.parts))

(* Claude wants the roles to alternate: a message of the last one's role   *)
(* is merged into it, a tool result counting as the user's.                *)
AddTo(msgs, role, c) ==
    IF msgs # <<>> /\ Last(msgs).role = role
    THEN LET c2 == o2cMergeContents(Last(msgs), c)
         IN  Append(Front(msgs), Message(role, c2.as, c2.parts))
    ELSE Append(msgs, Message(role, c.as, c.parts))

ToClaude(msgs, m) ==
    CASE m.role = "user" -> AddTo(msgs, "user", o2cConvertUserMessage(m))
      [] m.role = "assistant" -> AddTo(msgs, "assistant", o2cConvertAssistantMessage(m))
      [] m.role = "tool" -> AddTo(msgs, "user", Content("list", Of(m.parts, {"result"})))
      [] OTHER -> msgs

\* The system's texts, which both vendors take in a place of their own.
SystemText(msgs) == Map(msgs, LAMBDA m : IF m.role = "system" THEN TextOf(m) ELSE <<>>)

ConvertOpenAIToClaude(b) ==
    LET said == FoldLeft(ToClaude, <<>>, Messages(b))
    IN  Body("claude", SystemText(Messages(b)),
             IF said # <<>> /\ said[1].role # "user"
             THEN <<Message("user", "string", <<Space>>)>> \o said ELSE said)

(* From any format, by way of OpenAI's.                                    *)
ConvertToClaude(b, functions) == ConvertOpenAIToClaude(ConvertToOpenAI(b, functions))

---------------------------------------------------------------------------
(* OpenAI to Gemini *)

(* An image given by link is not a data URL, and is skipped.               *)
o2gConvertUserParts(m) ==
    Filter(m.parts, LAMBDA p : p.k = "image" \/ (p.k = "text" /\ p.v # <<>>))

o2gConvertAssistantParts(m) ==
    TextPart(TextOf(m)) \o Of(m.parts, {"think"})
    \o Map(Of(m.parts, {"call"}), LAMBDA p : <<[p EXCEPT !.id = 0]>>)

(* toolCallIDs: the function of each call id met so far.                   *)
NameOf(calls, id) ==
    LET known == {i \in DOMAIN calls : calls[i].id = id}
    IN  IF known = {} THEN "" ELSE calls[CHOOSE i \in known : \A j \in known : j <= i].fn

AddContent(out, role, parts) ==
    IF parts = <<>> THEN out ELSE Append(out, Message(role, "list", parts))
AddResult(out, p) ==
    IF out = <<>> \/ Last(out).role = "model" THEN Append(out, Message("user", "list", <<p>>))
    ELSE Append(Front(out), [Last(out) EXCEPT !.parts = Append(@, p)])
ToGemini(acc, m) ==
    CASE m.role = "user" ->
            [acc EXCEPT !.out = AddContent(@, "user", o2gConvertUserParts(m))]
      [] m.role = "assistant" ->
            [out |-> AddContent(acc.out, "model", o2gConvertAssistantParts(m)),
             calls |-> acc.calls \o Of(m.parts, {"call"})]
      [] m.role = "tool" ->
            LET p == [m.parts[1] EXCEPT !.id = 0, !.fn = NameOf(acc.calls, m.parts[1].id)]
            IN  [acc EXCEPT !.out = AddResult(@, p)]
      [] OTHER -> acc

ConvertOpenAIToGemini(b) ==
    Body("gemini", SystemText(Messages(b)),
         FoldLeft(ToGemini, [out |-> <<>>, calls |-> <<>>], Messages(b)).out)

ConvertToGemini(b, functions) == ConvertOpenAIToGemini(ConvertToOpenAI(b, functions))

---------------------------------------------------------------------------
(* OpenAI to the vendors that take text only *)

TextOnly(m) == Of(m.parts, {"text", "result"})

convertChatRequest(b) ==
    Body("ollama", <<>>, Map(Messages(b), LAMBDA m : <<Message(m.role, "string", TextOnly(m))>>))

(* flattenMessages: the messages that have a text, with their role.        *)
convertOpenAIToDify(b) ==
    LET spoken == Filter(Messages(b), LAMBDA m : Joined(TextOnly(m)) # <<>>)
    IN  IF spoken = <<>> THEN Refused
        ELSE Body("dify", <<>>, Map(spoken, LAMBDA m : <<Message(m.role, "string", TextOnly(m))>>))

(* extractLastUserMessage: a list without a text sends the search back to  *)
(* the message before; of a list with texts, the first.                    *)
convertOpenAIToCoze(b) ==
    LET asking == Filter(Messages(b), LAMBDA m :
                      m.role = "user" /\ (m.as = "list" => Of(m.parts, {"text"}) # <<>>))
    IN  IF asking = <<>> \/ TextOf(Last(asking)) = <<>> THEN Refused
        ELSE Body("coze", <<>>, <<Message("user", "string", <<Of(Last(asking).parts, {"text"})[1]>>)>>)
=============================================================================
