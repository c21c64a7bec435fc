------------------------------ MODULE Adaptors ------------------------------
(***************************************************************************)
(* The vendors' adaptors of relay/channel/*/adaptor.go and the registry    *)
(* that finds one for a channel's protocol.  The handler always asks for   *)
(* mode RelayModeChatCompletions, so an adaptor is described by what it    *)
(* does in that mode: the API its URL belongs to, the formats it sends on  *)
(* as they come, the format it converts the others to, and the formats its *)
(* DoResponse reads and writes.  Headers, model names and sampling         *)
(* parameters are left out.                                                *)
(***************************************************************************)
EXTENDS Conversions

Formats == {"openai", "claude", "gemini", "responses"}

(* reads: the clients' formats an upstream answer is expected in; a client *)
(* of another format is answered out of an answer in format wire.  writes: *)
(* the clients' formats DoResponse can write; the others get OpenAI's.     *)
Adaptor(endpoint, wire, passes, reads, writes) ==
    [endpoint |-> endpoint, wire |-> wire, passes |-> passes,
     reads |-> reads, writes |-> writes]

OpenAI == Adaptor("openai", "openai", {"openai"}, {"openai"}, Formats)
Claude == Adaptor("claude", "claude", {"claude"}, {"claude"}, {"claude"})
Gemini == Adaptor("gemini", "gemini", {"gemini"}, {"gemini"}, {"gemini"})

(* Vendors with an OpenAI and a Claude endpoint: a Claude body is passed,  *)
(* and the Claude adaptor answers a Claude client.                         *)
BothEndpoints == Adaptor("openai", "openai", {"openai", "claude"}, {"openai", "claude"}, Formats)
DeepSeek == BothEndpoints
Zhipu == BothEndpoints
Moonshot == BothEndpoints
Ali == BothEndpoints
Volcengine == BothEndpoints
MiniMax == BothEndpoints

(* Vendors that speak OpenAI's format only.                                *)
Mistral == OpenAI
XAI == OpenAI
SiliconFlow == OpenAI
Cloudflare == OpenAI
Tencent == OpenAI
Xunfei == OpenAI
AWS == OpenAI

(* ConvertRequest never looks at the format the request came in.           *)
BaiduV2 == Adaptor("openai", "openai", Formats, {"openai"}, Formats)

(* Vendors with a format of their own, whose answers become OpenAI's.      *)
Ollama == Adaptor("ollama", "ollama", {}, {}, {})
Coze == Adaptor("coze", "coze", {}, {}, {})
Dify == Adaptor("dify", "dify", {}, {}, {})

(* Vertex is Claude's or Gemini's adaptor by the name of the model.        *)
Vertex(model) == IF model = "claude" THEN Claude ELSE Gemini

(* Image generation and the Responses mode only: a chat is refused by      *)
(* ConvertRequest.                                                         *)
Jimeng == Adaptor("none", "refused", {}, {"openai"}, Formats)
Codex == Adaptor("none", "refused", {}, {"openai"}, Formats)

Submodel == OpenAI

(* A key is one word, or two joined by a bar (a token and an account, a    *)
(* secret's id and the secret).  Tencent, AWS, Baidu and Jimeng take a     *)
(* single word for the first of the two; without the account Cloudflare    *)
(* has no URL.                                                             *)
KeyShapes == {"single", "pair"}
GetRequestURL(protocol, key) == protocol = "cloudflare" => key = "pair"

(* getByProtocol, the spellings of one vendor written once; "none" is the  *)
(* nil the handler refuses.                                                *)
NoAdaptor == Adaptor("none", "none", {}, {}, {})
getByProtocol(protocol) ==
    CASE protocol \in {"openai-compatible", "azure"} -> OpenAI
      [] protocol \in {"anthropic-compatible", "claude"} -> Claude
      [] protocol \in {"gemini-compatible", "gemini"} -> Gemini
      [] protocol \in {"ali", "qwen"} -> Ali
      [] protocol = "deepseek" -> DeepSeek
      [] protocol \in {"zhipu", "glm"} -> Zhipu
      [] protocol = "moonshot" -> Moonshot
      [] protocol = "mistral" -> Mistral
      [] protocol \in {"xai", "grok"} -> XAI
      [] protocol = "siliconflow" -> SiliconFlow
      [] protocol \in {"baidu", "ernie"} -> BaiduV2
      [] protocol \in {"volcengine", "ark"} -> Volcengine
      [] protocol = "minimax" -> MiniMax
      [] protocol = "ollama" -> Ollama
      [] protocol \in {"tencent", "hunyuan"} -> Tencent
      [] protocol \in {"xunfei", "spark"} -> Xunfei
      [] protocol = "cloudflare" -> Cloudflare
      [] protocol = "vertex" -> Vertex("gemini")
      [] protocol = "vertex/claude" -> Vertex("claude")   \* the same, for a Claude model
      [] protocol \in {"aws", "bedrock"} -> AWS
      [] OTHER -> NoAdaptor

(* getByProviderType knows five vendors more, and all of the above.        *)
getByProviderType(vendor) ==
    CASE vendor = "coze" -> Coze
      [] vendor = "dify" -> Dify
      [] vendor = "jimeng" -> Jimeng
      [] vendor = "codex" -> Codex
      [] vendor = "submodel" -> Submodel
      [] OTHER -> getByProtocol(vendor)

---------------------------------------------------------------------------
(* The body an adaptor sends for one that came in a client's format.       *)
ConvertRequest(a, b, functions) ==
    IF b.format \in a.passes THEN b
    ELSE CASE a.wire = "openai" -> ConvertToOpenAI(b, functions)
           [] a.wire = "claude" -> ConvertToClaude(b, functions)
           [] a.wire = "gemini" -> ConvertToGemini(b, functions)
           [] a.wire = "ollama" -> convertChatRequest(ConvertToOpenAI(b, functions))
           [] a.wire = "coze" -> convertOpenAIToCoze(ConvertToOpenAI(b, functions))
           [] a.wire = "dify" -> convertOpenAIToDify(ConvertToOpenAI(b, functions))
           [] OTHER -> Refused

(* What DoResponse takes the upstream's answer for, and what it writes.    *)
ReadAs(a, client) == IF client \in a.reads THEN client ELSE a.wire
WrittenAsRead(a, client) == ReadAs(a, client)
WrittenAs(a, client) == IF client \in a.writes THEN client ELSE "openai"
=============================================================================
