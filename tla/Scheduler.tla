------------------------------ MODULE Scheduler ------------------------------
(***************************************************************************)
(* Choosing an upstream channel: relay/scheduler/scheduler.go, the health  *)
(* score of handler.go and the protocol choice of helper/detect_format.go  *)
(* and channel/registry.go, as operators.  A candidate is a record with    *)
(* priority, weight and health; where the code draws a random number, or   *)
(* depends on the order of a map or of SQL rows, the operator returns the  *)
(* set of everything it may choose.                                        *)
(***************************************************************************)
EXTENDS Integers, Sequences

HealthScore(fails) == IF fails < 5 THEN <<100, 80, 60, 40, 20>>[fails + 1] ELSE 10

Healthy(candidates) ==
    LET healthy == {c \in candidates : c.health >= 20}
    IN  IF healthy = {} THEN candidates ELSE healthy

HighestPriority(candidates) ==
    {c \in candidates : \A d \in candidates : d.priority <= c.priority}

(* Integer division: a weight of 1 becomes 0 below a health of 80. *)
EffectiveWeight(c) ==
    LET w == IF c.weight <= 0 THEN 1 ELSE c.weight
    IN  IF c.health >= 80 THEN w ELSE IF c.health >= 50 THEN w \div 2 ELSE w \div 4

(* rand.IntN(total) never lands on a weight of 0; if all are 0 the first   *)
(* row is taken, and the rows come in any order.                           *)
WeightedRandomSelect(group) ==
    LET drawn == {c \in group : EffectiveWeight(c) > 0}
    IN  IF drawn = {} THEN group ELSE drawn

Select(candidates) == WeightedRandomSelect(HighestPriority(Healthy(candidates)))

-----------------------------------------------------------------------------
AllowedProtocolKeys ==
    {"openai-compatible", "anthropic-compatible", "gemini-compatible", "azure-openai"}

Format == {"openai", "claude", "gemini", "responses"}

DetectFormatFromPath(path) ==
    CASE path = "/v1/messages" -> "claude"
      [] path \in {"/v1/chat/completions", "/v1/completions", "/v1/embeddings"} -> "openai"
      [] path \in {"/v1/responses", "/v1/responses/compact"} -> "responses"
      [] OTHER -> "unknown"

(* body: its top-level keys, and whether the first message holds blocks *)
DetectInboundFormat(body) ==
    IF "contents" \in body.keys THEN "gemini"
    ELSE IF "input" \in body.keys /\ "messages" \notin body.keys THEN "responses"
    ELSE IF "anthropic_version" \in body.keys THEN "claude"
    ELSE IF "messages" \in body.keys /\ body.messages > 0
            /\ ("system" \in body.keys \/ body.blocks) THEN "claude"
    ELSE "openai"

InboundFormat(body, path) ==
    IF DetectFormatFromPath(path) = "unknown" THEN DetectInboundFormat(body)
    ELSE DetectFormatFromPath(path)

PreferredKey(format) ==
    CASE format \in {"openai", "responses"} -> "openai-compatible"
      [] format = "claude" -> "anthropic-compatible"
      [] format = "gemini" -> "gemini-compatible"

(* Without the preferred protocol the code takes whichever key the         *)
(* iteration over the map yields first.                                    *)
BestProtocolMatch(protocols, format) ==
    IF PreferredKey(format) \in protocols THEN {PreferredKey(format)} ELSE protocols

(* The adaptor of a protocol key a channel may be created with.  The       *)
(* registry knows "azure" but not "azure-openai".                          *)
GetByProtocol(protocol) ==
    CASE protocol = "openai-compatible" -> "openai"
      [] protocol = "anthropic-compatible" -> "claude"
      [] protocol = "gemini-compatible" -> "gemini"
      [] OTHER -> "none"
=============================================================================
