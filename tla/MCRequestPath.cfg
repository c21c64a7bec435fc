SPECIFICATION PathSpec
CONSTANTS
    MaxTurns = 4
    Clients = {"openai", "claude", "gemini", "responses"}
    Functions = {"f", "g"}
    Vendors = {"openai-compatible", "azure", "anthropic-compatible", "gemini-compatible",
               "ali", "deepseek", "zhipu", "moonshot", "mistral", "xai", "siliconflow",
               "baidu", "volcengine", "minimax", "ollama", "tencent", "xunfei", "cloudflare",
               "vertex", "vertex/claude", "aws", "coze", "dify", "jimeng", "codex", "submodel", "azure-openai"}
INVARIANTS
    SpeakersAreKept
    TurnsAlternate
    ConversationArrives
    CallsAndResultsPair
    HopsSpeakOneFormat
CHECK_DEADLOCK FALSE
